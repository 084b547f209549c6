------------------------ MODULE MailboxDeliveryProofs ------------------------
(***************************************************************************)
(* Proofs about MailboxDelivery for any messages and any limits, with      *)
(* crashes and refused locks anywhere, rewrites that tear included.        *)
(*                                                                         *)
(* A message is spent once it has ended, is fenced or was forgotten: in    *)
(* none of these states will a tick dequeue it.  Every write of every      *)
(* operation leaves the spent messages spent, except a retry, and a retry  *)
(* follows a call of deliverFn only if that call wrote nothing.  What the  *)
(* invariant needs of an operation is said of each disk on its way         *)
(* (Becomes), so that a crash between two writes is no case of its own.    *)
(*                                                                         *)
(* The types need induction over data: what a compaction leaves of the     *)
(* inbox is a recursive function, the latest row of a message a CHOOSE.    *)
(* LeastNumber, the least element of a set of numbers, is what it rests on.*)
(***************************************************************************)
EXTENDS MailboxDelivery, SequenceTheorems, FiniteSetTheorems, WellFoundedInduction, TLAPS

USE MailboxAssumption

\* The state rows are what they should be; inbox rows are of no interest here.
Shaped(d) ==
  d \in [inbox : {d.inbox}, last : [Id -> [state : States, since : Nat, fenced : BOOLEAN]],
         unknown : {d.unknown}, dead : {d.dead}]

\* No tick dequeues m in this state.
Spent(d, m) ==
  \/ StateOf(d, m) \in Terminal \cup {"absent"}
  \/ StateOf(d, m) = "in_flight" /\ d.last[m].fenced

Recorded(d, m) == \E r \in d.dead : r.id = m

\* How an operation may change the disk: only messages of X are spent no more, and
\* only those of Y are new.
Alters(d, e, X, Y) ==
  /\ Shaped(e)
  /\ \A m \in Id \ X : Spent(d, m) => Spent(e, m)
  /\ \A m \in Id \ Y : StateOf(d, m) = "absent" => StateOf(e, m) = "absent"

\* And no message becomes a dead letter without a record.
Becomes(d, e, X, Y) ==
  /\ Alters(d, e, X, Y)
  /\ d.dead \subseteq e.dead
  /\ \A m \in Id : StateOf(e, m) = "dead_letter" => StateOf(d, m) = "dead_letter" \/ Recorded(e, m)

\* All the disks that an operation goes through.
Writes(w, d, X, Y) ==
  /\ Len(w) \in Nat /\ (w = <<>> \/ Len(w) > 0)
  /\ \A i \in 1 .. Len(w) : Becomes(d, w[i], X, Y)

-----------------------------------------------------------------------------
(* Single writes. *)

\* A disk that is left alone, and one write after another.
LEMMA Same == ASSUME NEW d, Shaped(d), NEW X, NEW Y PROVE Becomes(d, d, X, Y)
BY DEF Becomes, Alters

LEMMA Then ==
  ASSUME NEW d, NEW e, NEW f, NEW X, NEW Y, Becomes(d, e, X, Y), Becomes(e, f, X, Y)
  PROVE  Becomes(d, f, X, Y)
BY DEF Becomes, Alters, Recorded

\* Messages that are not spent, or not absent, need not be named.
LEMMA Narrow ==
  ASSUME NEW d, NEW e, NEW X, NEW Y, Becomes(d, e, X, Y), NEW U, NEW V,
         \A m \in X \ U : ~Spent(d, m), \A m \in Y \ V : StateOf(d, m) # "absent"
  PROVE  Becomes(d, e, U, V)
BY DEF Becomes, Alters

\* An appended state row.
LEMMA RowAppended ==
  ASSUME NEW d, Shaped(d), NEW m \in Id, NEW s \in States
  PROVE  /\ Shaped(SetState(d, m, s))
         /\ StateOf(SetState(d, m, s), m) = s
         /\ ~SetState(d, m, s).last[m].fenced
         /\ \A n \in Id \ {m} : SetState(d, m, s).last[n] = d.last[n]
         /\ SetState(d, m, s).dead = d.dead
BY DEF Shaped, SetState, StateRowOf, StateOf

LEMMA SetStateBecomes ==
  ASSUME NEW d, Shaped(d), NEW m \in Id, NEW s \in States, NEW X, NEW Y,
         m \in X \/ s \in Terminal \/ s = "absent" \/ ~Spent(d, m),
         m \in Y \/ s = "absent" \/ StateOf(d, m) # "absent",
         s = "dead_letter" => Recorded(d, m)
  PROVE  Becomes(d, SetState(d, m, s), X, Y)
<1> DEFINE e == SetState(d, m, s)
<1>1. Shaped(e) /\ StateOf(e, m) = s /\ e.dead = d.dead
  BY RowAppended
<1>2. \A n \in Id \ {m} : e.last[n] = d.last[n]
  BY RowAppended
<1> HIDE DEF e
<1>3. \A n \in Id \ {m} : StateOf(e, n) = StateOf(d, n) /\ (Spent(d, n) <=> Spent(e, n))
  BY <1>2 DEF StateOf, Spent
<1>4. s \in Terminal \cup {"absent"} => Spent(e, m)
  BY <1>1 DEF Spent
<1> QED
  BY <1>1, <1>3, <1>4 DEF Becomes, Alters, Recorded, e

\* Rows of the inbox, and dead letters.
LEMMA InboxBecomes ==
  ASSUME NEW d, Shaped(d), NEW q, NEW X, NEW Y
  PROVE  Becomes(d, [d EXCEPT !.inbox = q], X, Y)
BY DEF Becomes, Alters, Shaped, Spent, StateOf, Recorded

LEMMA RecordBecomes ==
  ASSUME NEW d, Shaped(d), NEW e, Shaped(e), NEW r, NEW X, NEW Y,
         e.last = d.last, e.dead = d.dead \cup {r}
  PROVE  Becomes(d, e, X, Y) /\ Recorded(e, r.id)
BY DEF Becomes, Alters, Spent, StateOf, Recorded

\* Messages that are unknown are only remembered as such.
LEMMA UnknownBecomes ==
  ASSUME NEW d, Shaped(d), NEW q, NEW X, NEW Y
  PROVE  Becomes(d, [d EXCEPT !.unknown = q], X, Y)
BY DEF Becomes, Alters, Shaped, Spent, StateOf, Recorded

-----------------------------------------------------------------------------
(* The operations. *)

LEMMA EnqueueLemma ==
  ASSUME NEW d, Shaped(d), NEW m \in Id
  PROVE  Writes(EnqueueWrites(d, m), d, {m}, {m})
<1> DEFINE d1 == AppendRow(d, m, 0, 0)
           d2 == SetState(d1, m, "pending")
<1>1. Becomes(d, d1, {m}, {m})
  BY InboxBecomes DEF AppendRow
<1>2. Shaped(d1)
  BY <1>1 DEF Becomes, Alters
<1> HIDE DEF d1
<1>3. Becomes(d1, d2, {m}, {m})
  BY <1>2, SetStateBecomes DEF States
<1>4. Becomes(d, d2, {m}, {m})
  BY <1>1, <1>3, Then
<1> QED
  BY <1>1, <1>4 DEF EnqueueWrites, Writes, d1

\* A dead letter is recorded, then referred to.
LEMMA DeadLetterLemma ==
  ASSUME NEW d, Shaped(d), NEW m \in Id, NEW Y, m \in Y \/ StateOf(d, m) # "absent"
  PROVE  Writes(DeadLetterWrites(d, m), d, {}, Y)
<1> DEFINE r == [id |-> m, unknown |-> FALSE]
           d1 == [d EXCEPT !.dead = @ \cup {r}]
           d2 == SetState(d1, m, "dead_letter")
<1>0. r.id = m
  OBVIOUS
<1> HIDE DEF r
<1>2. Shaped(d1) /\ d1.last = d.last /\ d1.dead = d.dead \cup {r}
  BY DEF Shaped
<1> HIDE DEF d1
<1>1. Becomes(d, d1, {}, Y) /\ Recorded(d1, m) /\ d1.last = d.last
  BY <1>0, <1>2, RecordBecomes
<1>3. m \in Y \/ StateOf(d1, m) # "absent"
  BY <1>1 DEF StateOf
<1>4. Becomes(d1, d2, {}, Y)
  BY <1>1, <1>2, <1>3, SetStateBecomes DEF States, Terminal
<1>5. Becomes(d, d2, {}, Y)
  BY <1>1, <1>4, Then
<1> QED
  BY <1>1, <1>5 DEF DeadLetterWrites, Writes, d1, r

LEMMA QuarantineLemma ==
  ASSUME NEW d, Shaped(d), NEW m \in Id, StateOf(d, m) # "absent"
  PROVE  Writes(QuarantineWrites(d, m), d, {}, {})
<1> DEFINE r == [id |-> m, unknown |-> TRUE]
           d1 == [d EXCEPT !.dead = @ \cup {r}]
           d2 == SetState(d1, m, "dead_letter")
           d3 == [d2 EXCEPT !.unknown = @ \cup {m}]
<1>0. r.id = m
  OBVIOUS
<1> HIDE DEF r
<1>2. Shaped(d1) /\ d1.last = d.last /\ d1.dead = d.dead \cup {r}
  BY DEF Shaped
<1> HIDE DEF d1
<1>1. Becomes(d, d1, {}, {}) /\ Recorded(d1, m) /\ d1.last = d.last
  BY <1>0, <1>2, RecordBecomes
<1>3. StateOf(d1, m) # "absent"
  BY <1>1 DEF StateOf
<1>4. Becomes(d1, d2, {}, {})
  BY <1>1, <1>2, <1>3, SetStateBecomes DEF States, Terminal
<1>5. Shaped(d2)
  BY <1>4 DEF Becomes, Alters
<1> HIDE DEF d2
<1>6. Becomes(d2, d3, {}, {})
  BY <1>5, UnknownBecomes
<1>7. Becomes(d, d3, {}, {})
  BY <1>1, <1>4, <1>6, Then
<1> HIDE DEF d3
<1>8. QuarantineWrites(d, m) = <<d1, d3>>
  BY Zenon DEF QuarantineWrites, d1, d2, d3, r
<1> QED
  BY <1>1, <1>7, <1>8 DEF Writes

LEMMA DequeueLemma ==
  ASSUME NEW d, Shaped(d), NEW m \in Id, StateOf(d, m) = "pending"
  PROVE  /\ Writes(DequeueWrites(d, m), d, {}, {})
         /\ Len(DequeueWrites(d, m)) = 1
         /\ LET e == DequeueWrites(d, m)[1] IN StateOf(e, m) = "in_flight" /\ ~e.last[m].fenced
<1>1. Becomes(d, SetState(d, m, "in_flight"), {}, {})
  BY SetStateBecomes DEF Spent, States, Terminal
<1> QED
  BY <1>1, RowAppended DEF DequeueWrites, Writes, States

\* The fence makes a message spent.
LEMMA FenceLemma ==
  ASSUME NEW d, Shaped(d), NEW m \in Id, StateOf(d, m) = "in_flight"
  PROVE  /\ Writes(FenceWrites(d, m), d, {}, {})
         /\ Len(FenceWrites(d, m)) = 1
         /\ Spent(FenceWrites(d, m)[1], m)
<1> DEFINE d1 == SetState(d, m, "in_flight")
           d2 == [d1 EXCEPT !.last[m].fenced = TRUE]
<1>1. /\ Shaped(d1) /\ StateOf(d1, m) = "in_flight" /\ d1.dead = d.dead
      /\ \A n \in Id \ {m} : d1.last[n] = d.last[n]
  BY RowAppended DEF States
<1> HIDE DEF d1
<1>a. d1.last[m] \in [state : States, since : Nat, fenced : BOOLEAN]
  BY <1>1 DEF Shaped
<1> DEFINE row == [d1.last[m] EXCEPT !.fenced = TRUE]
<1>b. /\ row \in [state : States, since : Nat, fenced : BOOLEAN]
      /\ row.state = "in_flight" /\ row.fenced
  BY <1>1, <1>a DEF StateOf
<1> HIDE DEF row
<1>c. d2 = [d1 EXCEPT !.last = [d1.last EXCEPT ![m] = row]]
  BY DEF row
<1> HIDE DEF d2
<1>2. /\ Shaped(d2) /\ StateOf(d2, m) = "in_flight" /\ d2.last[m].fenced /\ d2.dead = d.dead
      /\ \A n \in Id \ {m} : d2.last[n] = d.last[n]
  BY <1>1, <1>b, <1>c DEF Shaped, StateOf
<1>3. Spent(d2, m)
  BY <1>2 DEF Spent
<1>4. \A n \in Id \ {m} : StateOf(d2, n) = StateOf(d, n) /\ (Spent(d, n) => Spent(d2, n))
  BY <1>2 DEF StateOf, Spent
<1>5. Becomes(d, d2, {}, {})
  BY <1>2, <1>3, <1>4 DEF Becomes, Alters
<1>6. FenceWrites(d, m) = <<d2>>
  BY Zenon DEF FenceWrites, d1, d2
<1> QED
  BY <1>3, <1>5, <1>6 DEF Writes

\* The two writes of a rewrite forget messages that have ended; torn, they forget more,
\* but nothing that could be dequeued comes of it.
LEMMA Forget ==
  ASSUME NEW d, Shaped(d), NEW S, NEW e, Shaped(e), e.dead = d.dead,
         \A m \in Id : e.last[m] = IF m \in S THEN StateRowOf("absent") ELSE d.last[m]
  PROVE  Becomes(d, e, {}, {})
<1>1. ASSUME NEW m \in Id
      PROVE  /\ StateOf(e, m) \in {StateOf(d, m), "absent"}
             /\ Spent(d, m) => Spent(e, m)
  BY <1>1 DEF StateOf, Spent, StateRowOf
<1> QED
  BY <1>1 DEF Becomes, Alters, Terminal

LEMMA PurgeLemma ==
  ASSUME NEW d, Shaped(d)
  PROVE  Writes(PurgeWrites(d), d, {}, {})
<1> DEFINE d1 == [d EXCEPT !.inbox = <<>>]
           d2 == [d1 EXCEPT !.last = EmptyDisk.last, !.unknown = {}]
<1>1. Becomes(d, d1, {}, {})
  BY InboxBecomes
<1>2. Shaped(d1)
  BY <1>1 DEF Becomes, Alters
<1> HIDE DEF d1
<1>3. EmptyDisk.last = [m \in Id |-> StateRowOf("absent")]
  BY DEF EmptyDisk
<1>4. EmptyDisk.last \in [Id -> [state : States, since : Nat, fenced : BOOLEAN]]
  BY <1>3 DEF StateRowOf, States
<1>5. Shaped(d2) /\ d2.dead = d1.dead /\ d2.last = [m \in Id |-> StateRowOf("absent")]
  BY <1>2, <1>3, <1>4 DEF Shaped
<1> HIDE DEF d2
<1>6. Becomes(d1, d2, {}, {})
  <2>1. \A m \in Id : d2.last[m] = IF m \in Id THEN StateRowOf("absent") ELSE d1.last[m]
    BY <1>5
  <2> QED
    BY <1>2, <1>5, <2>1, Forget
<1>7. Becomes(d, d2, {}, {})
  BY <1>1, <1>6, Then
<1>8. PurgeWrites(d) = <<d1, d2>>
  BY Zenon DEF PurgeWrites, d1, d2
<1> QED
  BY <1>1, <1>7, <1>8 DEF Writes

LEMMA CompactLemma ==
  ASSUME NEW d, Shaped(d), NEW a
  PROVE  /\ Writes(CompactWrites(d), d, {}, {})
         /\ \E S : a \in S /\ CompactWrites(d) \in Seq(S)
<1> DEFINE done == {m \in Id : StateOf(d, m) \in Terminal /\ m \notin d.unknown}
           d0 == [d EXCEPT !.inbox = <<>>]
           d1 == [d EXCEPT !.inbox = Without(@, done)]
           none == [m \in Id |-> StateRowOf("absent")]
           left == [m \in Id |-> IF m \in done THEN StateRowOf("absent") ELSE d1.last[m]]
           d2 == [d1 EXCEPT !.last = [m \in Id |-> IF m \in done THEN StateRowOf("absent") ELSE @[m]]]
           d3 == [d1 EXCEPT !.last = EmptyDisk.last, !.unknown = {}]
<1>1. Becomes(d, d0, {}, {}) /\ Becomes(d, d1, {}, {})
  BY InboxBecomes
<1>2. Shaped(d1)
  BY <1>1 DEF Becomes, Alters
<1> HIDE DEF d0, d1, done
<1>3. EmptyDisk.last = none
  BY DEF EmptyDisk
<1>4. /\ none \in [Id -> [state : States, since : Nat, fenced : BOOLEAN]]
      /\ left \in [Id -> [state : States, since : Nat, fenced : BOOLEAN]]
  BY <1>2 DEF Shaped, StateRowOf, States
<1>5. Shaped(d2) /\ d2.dead = d1.dead /\ d2.last = left
  BY <1>2, <1>4 DEF Shaped
<1>6. Shaped(d3) /\ d3.dead = d1.dead /\ d3.last = none
  BY <1>2, <1>3, <1>4 DEF Shaped
<1> HIDE DEF d2, d3
<1>7. Becomes(d1, d2, {}, {})
  <2>1. \A m \in Id : d2.last[m] = IF m \in done THEN StateRowOf("absent") ELSE d1.last[m]
    BY <1>5
  <2> QED
    BY <1>2, <1>5, <2>1, Forget
<1>8. Becomes(d1, d3, {}, {})
  <2>1. \A m \in Id : d3.last[m] = IF m \in Id THEN StateRowOf("absent") ELSE d1.last[m]
    BY <1>6
  <2> QED
    BY <1>2, <1>6, <2>1, Forget
<1>9. Becomes(d, d2, {}, {}) /\ Becomes(d, d3, {}, {})
  BY <1>1, <1>7, <1>8, Then
<1>10. CompactWrites(d) = <<>> \/ CompactWrites(d) = <<d0, d1, d3, d2>>
         \/ CompactWrites(d) = <<d1, d2>>
  BY Zenon DEF CompactWrites, d0, d1, d2, d3, done
<1>11. Writes(CompactWrites(d), d, {}, {})
  <2>1. CASE CompactWrites(d) = <<>>
    BY <2>1 DEF Writes
  <2>2. CASE CompactWrites(d) = <<d0, d1, d3, d2>>
    BY <1>1, <1>9, <2>2 DEF Writes
  <2>3. CASE CompactWrites(d) = <<d1, d2>>
    BY <1>1, <1>9, <2>3 DEF Writes
  <2> QED
    BY <1>10, <2>1, <2>2, <2>3
<1>12. \E S : a \in S /\ CompactWrites(d) \in Seq(S)
  <2>1. /\ a \in {a, d0, d1, d2, d3} /\ <<>> \in Seq({a, d0, d1, d2, d3})
        /\ <<d0, d1, d3, d2>> \in Seq({a, d0, d1, d2, d3})
        /\ <<d1, d2>> \in Seq({a, d0, d1, d2, d3})
    OBVIOUS
  <2> QED
    BY <1>10, <2>1
<1> QED
  BY <1>11, <1>12

\* An acknowledgement ends the message, and may compact.
LEMMA AckLemma ==
  ASSUME NEW d, Shaped(d), NEW m \in Id
  PROVE  Writes(AckWrites(d, m), d, {}, {m})
<1> DEFINE d1 == SetState(d, m, "acked")
<1>1. Becomes(d, d1, {}, {m})
  BY SetStateBecomes DEF States, Terminal
<1>2. Shaped(d1)
  BY <1>1 DEF Becomes, Alters
<1> HIDE DEF d1
<1>3. PICK S : d1 \in S /\ CompactWrites(d1) \in Seq(S)
  BY <1>2, CompactLemma
<1>4. Writes(CompactWrites(d1), d1, {}, {})
  BY <1>2, CompactLemma
<1> DEFINE w == CompactWrites(d1)
           v == <<d1>> \o w
<1> HIDE DEF w
<1>5. w \in Seq(S) /\ <<d1>> \in Seq(S)
  BY <1>3 DEF w
<1>6. v \in Seq(S) /\ Len(v) = 1 + Len(w) /\ Len(w) \in Nat
  BY <1>5
<1>7. ASSUME NEW i \in 1 .. Len(v) PROVE Becomes(d, v[i], {}, {m})
  <2>1. CASE i = 1
    <3>1. v[i] = d1
      BY <1>5, <2>1
    <3> QED
      BY <1>1, <3>1
  <2>2. CASE i # 1
    <3>1. v[i] = w[i - 1] /\ i - 1 \in 1 .. Len(w)
      BY <1>5, <1>6, <2>2
    <3>2. Becomes(d1, w[i - 1], {}, {})
      BY <1>4, <3>1 DEF Writes, w
    <3>3. Becomes(d1, w[i - 1], {}, {m})
      BY <3>2, Narrow
    <3> QED
      BY <1>1, <3>1, <3>3, Then
  <2> QED
    BY <2>1, <2>2
<1> HIDE DEF v
<1>a. Len(v) \in Nat /\ Len(v) > 0
  BY <1>6
<1>b. \A i \in 1 .. Len(v) : Becomes(d, v[i], {}, {m})
  BY <1>7
<1>8. Writes(v, d, {}, {m})
  BY <1>a, <1>b DEF Writes
<1>9. AckWrites(d, m) = <<>> \/ AckWrites(d, m) = v
  BY Zenon DEF AckWrites, d1, w, v
<1>10. Writes(<<>>, d, {}, {m})
  BY DEF Writes
<1> QED
  BY <1>8, <1>9, <1>10

\* The quarantine of an acknowledgement without its settlement.
LEMMA UnsettledLemma ==
  ASSUME NEW d, Shaped(d), NEW m \in Id, StateOf(d, m) # "absent"
  PROVE  LET w == UnsettledAckWrites(d, m) IN
         /\ Len(w) = 2 /\ Becomes(d, w[1], {}, {}) /\ Alters(d, w[2], {}, {})
         /\ w[2].inbox = d.inbox /\ m \in w[2].unknown
         /\ \A n \in Id \ {m} : StateOf(w[2], n) = StateOf(d, n)
<1> DEFINE d1 == SetState(d, m, "acked")
           d2 == SetState(d1, m, "dead_letter")
           d3 == [d2 EXCEPT !.unknown = @ \cup {m}]
<1>0. Becomes(d, d1, {}, {})
  BY SetStateBecomes DEF States, Terminal
<1>1. Becomes(d, d1, {}, {}) /\ Shaped(d1)
  BY <1>0 DEF Becomes, Alters
<1>2. /\ Shaped(d2) /\ StateOf(d2, m) = "dead_letter"
      /\ \A n \in Id \ {m} : d2.last[n] = d.last[n]
  BY <1>1, RowAppended DEF States, Terminal
<1>3. d2.inbox = d.inbox
  BY DEF SetState, Shaped
<1> HIDE DEF d1, d2
<1>4. /\ Shaped(d3) /\ d3.last = d2.last /\ d3.inbox = d2.inbox /\ m \in d3.unknown
  BY <1>2 DEF Shaped
<1> HIDE DEF d3
<1>5. \A n \in Id \ {m} : StateOf(d3, n) = StateOf(d, n) /\ (Spent(d, n) => Spent(d3, n))
  BY <1>2, <1>4 DEF StateOf, Spent
<1>6. Spent(d3, m)
  BY <1>2, <1>4 DEF StateOf, Spent, Terminal
<1>7. Alters(d, d3, {}, {})
  BY <1>4, <1>5, <1>6 DEF Alters
<1>8. UnsettledAckWrites(d, m) = <<d1, d3>>
  BY Zenon DEF UnsettledAckWrites, d1, d2, d3
<1> QED
  BY <1>1, <1>3, <1>4, <1>5, <1>7, <1>8

\* Only a retry reopens a message.
LEMMA RetryLemma ==
  ASSUME NEW d, Shaped(d), NEW m \in Id
  PROVE  Writes(RetryWrites(d, m), d, {m}, {m})
<1> DEFINE attempt == Latest(d, m).attempt + 1
           d1 == SetState(d, m, "nacked")
           d2 == AppendRow(d1, m, attempt, -(RetryBackoff * 2 ^ (attempt - 1)))
           d3 == SetState(d2, m, "pending")
<1> HIDE DEF attempt
<1>1. Becomes(d, d1, {m}, {m})
  BY SetStateBecomes DEF States
<1>2. Shaped(d1)
  BY <1>1 DEF Becomes, Alters
<1> HIDE DEF d1
<1>3. Becomes(d1, d2, {m}, {m})
  BY <1>2, InboxBecomes DEF AppendRow
<1>4. Shaped(d2)
  BY <1>3 DEF Becomes, Alters
<1> HIDE DEF d2
<1>5. Becomes(d2, d3, {m}, {m})
  BY <1>4, SetStateBecomes DEF States
<1>6. Becomes(d, d2, {m}, {m}) /\ Becomes(d, d3, {m}, {m})
  BY <1>1, <1>3, <1>5, Then
<1> HIDE DEF d3
<1>7. Writes(<<d1, d2, d3>>, d, {m}, {m})
  BY <1>1, <1>6 DEF Writes
<1>8. Writes(DeadLetterWrites(d, m), d, {m}, {m})
  <2>1. Writes(DeadLetterWrites(d, m), d, {}, {m})
    BY DeadLetterLemma
  <2> QED
    BY <2>1, Narrow DEF Writes
<1>9. RetryWrites(d, m) \in {DeadLetterWrites(d, m), <<d1, d2, d3>>}
  <2>1. RetryWrites(d, m) = IF attempt >= MaxRetries THEN DeadLetterWrites(d, m) ELSE <<d1, d2, d3>>
    BY Zenon DEF RetryWrites, attempt, d1, d2, d3
  <2> QED
    BY <2>1
<1> QED
  BY <1>7, <1>8, <1>9

LEMMA NackLemma ==
  ASSUME NEW d, Shaped(d), NEW m \in Id
  PROVE  Writes(NackWrites(d, m), d, {m}, {m})
<1>1. Writes(<<>>, d, {m}, {m})
  BY DEF Writes
<1> QED
  BY <1>1, RetryLemma DEF NackWrites

LEMMA WithdrawLemma ==
  ASSUME NEW d, Shaped(d), NEW m \in Id, NEW f \in BOOLEAN, NEW u \in BOOLEAN
  PROVE  Writes(WithdrawWrites(d, m, f, u), d, {}, {})
<1>1. Writes(<<>>, d, {}, {})
  BY DEF Writes
<1>2. CASE StateOf(d, m) \in {"pending", "in_flight"}
  <2>1. Writes(QuarantineWrites(d, m), d, {}, {}) /\ Writes(DeadLetterWrites(d, m), d, {}, {})
    BY <1>2, QuarantineLemma, DeadLetterLemma
  <2> QED
    BY <1>1, <2>1 DEF WithdrawWrites
<1>3. CASE StateOf(d, m) \notin {"pending", "in_flight"}
  BY <1>1, <1>3 DEF WithdrawWrites
<1> QED
  BY <1>2, <1>3

\* A timed-out attempt that was fenced is spent, and is quarantined; one that was not
\* has written nothing, and may be tried again.
LEMMA RecoverLemma ==
  ASSUME NEW d, Shaped(d), NEW m \in TimedOut(d)
  PROVE  Writes(RecoverWrites(d, m), d, {}, {})
<1>1. m \in Id /\ StateOf(d, m) = "in_flight"
  BY DEF TimedOut
<1>2. CASE d.last[m].fenced
  BY <1>1, <1>2, QuarantineLemma DEF RecoverWrites
<1>3. CASE ~d.last[m].fenced
  <2>1. ~Spent(d, m)
    BY <1>1, <1>3 DEF Spent, Terminal
  <2>2. Writes(RetryWrites(d, m), d, {m}, {m})
    BY <1>1, RetryLemma
  <2>3. Writes(RetryWrites(d, m), d, {}, {})
    BY <1>1, <2>1, <2>2, Narrow DEF Writes
  <2> QED
    BY <1>3, <2>3 DEF RecoverWrites
<1> QED
  BY <1>2, <1>3

LEMMA ExpireLemma ==
  ASSUME NEW d, Shaped(d), NEW m \in Stale(d)
  PROVE  Writes(ExpireWrites(d, m), d, {}, {})
<1>1. m \in Id /\ StateOf(d, m) \in {"pending", "in_flight"}
  BY DEF Stale
<1>2. Becomes(d, SetState(d, m, "expired"), {}, {})
  BY <1>1, SetStateBecomes DEF States, Terminal
<1> QED
  BY <1>2 DEF ExpireWrites, Writes

\* The clock changes no state.
LEMMA ElapsedLemma ==
  ASSUME NEW d, Shaped(d)
  PROVE  Becomes(d, Elapsed(d), {}, {}) /\ \A m \in Id : StateOf(Elapsed(d), m) = StateOf(d, m)
<1> DEFINE e == Elapsed(d)
           rows == [m \in Id |-> [d.last[m] EXCEPT !.since =
                     IF StateOf(d, m) = "in_flight" /\ @ < InflightTimeout THEN @ + 1 ELSE @]]
<1>1. ASSUME NEW m \in Id
      PROVE  /\ rows[m] \in [state : States, since : Nat, fenced : BOOLEAN]
             /\ rows[m].state = d.last[m].state /\ (rows[m].fenced <=> d.last[m].fenced)
  <2>1. d.last[m] \in [state : States, since : Nat, fenced : BOOLEAN]
    BY DEF Shaped
  <2> QED
    BY <2>1
<1>2. Shaped(e) /\ e.last = rows /\ e.dead = d.dead
  <2>1. rows \in [Id -> [state : States, since : Nat, fenced : BOOLEAN]]
    BY <1>1
  <2> HIDE DEF rows
  <2>2. \E q : e = [d EXCEPT !.inbox = q, !.last = rows]
    BY Zenon DEF Elapsed, rows
  <2> HIDE DEF e
  <2> QED
    BY <2>1, <2>2 DEF Shaped
<1> HIDE DEF rows, e
<1>3. \A m \in Id : StateOf(e, m) = StateOf(d, m) /\ (Spent(e, m) <=> Spent(d, m))
  BY <1>1, <1>2 DEF StateOf, Spent
<1> QED
  BY <1>2, <1>3 DEF Becomes, Alters, Recorded, e

-----------------------------------------------------------------------------
(* The steps.                                                              *)

Quiet == {"idle", "recover", "expire", "dequeue", "down"}

\* What the steps need of a state to change the disk as they should.
Base ==
  /\ Shaped(disk)
  /\ pc \in {"fence", "awaiting"} => cur \in Id

\* Only the message of a failed settlement becomes a dead letter without a record.
Quarantined ==
  /\ pc = "awaiting" /\ RowsOf(disk', cur) # {} /\ cur \in disk'.unknown
  /\ \A n \in Id \ {cur} : StateOf(disk', n) = StateOf(disk, n)

\* A crash shows one of the disks on the way, and success the last of them.
LEMMA Performed ==
  ASSUME NEW d, NEW e, NEW w, NEW X, NEW Y, Shaped(d), Writes(w, d, X, Y),
         e = Final(d, w) \/ e = d \/ \E i \in 1 .. Len(w) - 1 : e = w[i]
  PROVE  Becomes(d, e, X, Y)
<1>1. CASE e = d
  BY <1>1, Same
<1>2. CASE w # <<>> /\ e = w[Len(w)]
  BY <1>2 DEF Writes
<1>3. CASE \E i \in 1 .. Len(w) - 1 : e = w[i]
  BY <1>3 DEF Writes
<1> QED
  BY <1>1, <1>2, <1>3 DEF Final, Last

LEMMA Committed ==
  ASSUME NEW w, NEW X, NEW Y, Shaped(disk), Writes(w, disk, X, Y),
         disk' = Final(disk, w) \/ \E i \in 1 .. Len(w) - 1 : disk' = w[i]
  PROVE  Becomes(disk, disk', X, Y)
BY Performed

LEMMA Unchanged ==
  ASSUME Shaped(disk), disk' = disk, NEW X, NEW Y
  PROVE  Becomes(disk, disk', X, Y)
BY Same

\* The sweeps of a tick and the start of a delivery leave every spent message spent.
LEMMA TickBecomes ==
  ASSUME Base, StartTick \/ Recovered \/ Expired \/ Dequeue \/ Invoke
                 \/ \E m \in Id : RecoverInflight(m) \/ ExpireStale(m)
  PROVE  Becomes(disk, disk', {}, {})
<1>0. Shaped(disk)
  BY DEF Base
<1>1. CASE StartTick \/ Recovered
  BY <1>0, <1>1, Unchanged DEF StartTick, Recovered
<1>2. CASE Expired
  <2>1. Writes(IF swept THEN CompactWrites(disk) ELSE <<>>, disk, {}, {})
    <3>1. Writes(CompactWrites(disk), disk, {}, {})
      BY <1>0, CompactLemma
    <3>2. Writes(<<>>, disk, {}, {})
      BY DEF Writes
    <3> QED
      BY <3>1, <3>2
  <2> QED
    BY <1>0, <1>2, <2>1, Committed, Unchanged DEF Expired, Commit
<1>3. CASE Dequeue
  <2>1. CASE disk' = disk
    BY <1>0, <2>1, Unchanged
  <2>2. ASSUME NEW m \in Oldest(disk),
               \/ disk' = Final(disk, DequeueWrites(disk, m))
               \/ \E i \in 1 .. Len(DequeueWrites(disk, m)) - 1 : disk' = DequeueWrites(disk, m)[i]
        PROVE  Becomes(disk, disk', {}, {})
    <3>1. m \in Id /\ StateOf(disk, m) = "pending"
      BY DEF Oldest, Eligible
    <3>2. Writes(DequeueWrites(disk, m), disk, {}, {})
      BY <1>0, <3>1, DequeueLemma
    <3> QED
      BY <1>0, <2>2, <3>2, Committed
  <2> QED
    BY <1>3, <2>1, <2>2 DEF Dequeue, Commit
<1>4. CASE Invoke
  <2>1. cur \in Id /\ StateOf(disk, cur) = "in_flight"
    BY <1>4 DEF Base, Invoke, Fenceable
  <2>2. Writes(FenceWrites(disk, cur), disk, {}, {})
    BY <1>0, <2>1, FenceLemma
  <2> QED
    BY <1>0, <1>4, <2>2, Committed DEF Invoke, Commit
<1>5. ASSUME NEW m \in Id, RecoverInflight(m)
      PROVE  Becomes(disk, disk', {}, {})
  <2>1. Writes(RecoverWrites(disk, m), disk, {}, {})
    BY <1>0, <1>5, RecoverLemma DEF RecoverInflight
  <2> QED
    BY <1>0, <1>5, <2>1, Committed DEF RecoverInflight, Commit
<1>6. ASSUME NEW m \in Id, ExpireStale(m)
      PROVE  Becomes(disk, disk', {}, {})
  <2>1. Writes(ExpireWrites(disk, m), disk, {}, {})
    BY <1>0, <1>6, ExpireLemma DEF ExpireStale
  <2> QED
    BY <1>0, <1>6, <2>1, Committed DEF ExpireStale, Commit
<1> QED
  BY <1>1, <1>2, <1>3, <1>4, <1>5, <1>6

\* A doubtful outcome or a target that is gone withdraws the message.
LEMMA WithdrawalBecomes ==
  ASSUME Base, Doubt \/ TargetGone
  PROVE  Becomes(disk, disk', {}, {})
<1>0. Shaped(disk) /\ cur \in Id
  BY DEF Base, Doubt, TargetGone
<1>1. Writes(WithdrawWrites(disk, cur, TRUE, TRUE), disk, {}, {})
  BY <1>0, WithdrawLemma
<1>2. Writes(WithdrawWrites(disk, cur, TRUE, FALSE), disk, {}, {})
  BY <1>0, WithdrawLemma
<1> QED
  BY <1>0, <1>1, <1>2, Committed, Unchanged DEF Doubt, TargetGone, Commit

\* Success acknowledges the message; only a failure can make it pending again.
\* An acknowledgement whose settlement fails quarantines it without a record.
LEMMA SucceedBecomes ==
  ASSUME Base, Succeed
  PROVE  \/ Becomes(disk, disk', {}, {cur})
         \/ Alters(disk, disk', {}, {}) /\ Quarantined
<1>0. Shaped(disk) /\ cur \in Id /\ pc = "awaiting"
  BY DEF Base, Succeed
<1>1. Writes(AckWrites(disk, cur), disk, {}, {cur})
  BY <1>0, AckLemma
<1>2. CASE Commit(AckWrites(disk, cur), TickEnds) \/ disk' = disk
  BY <1>0, <1>1, <1>2, Committed, Unchanged DEF Commit
<1>3. CASE HasEvidence(disk, cur) /\ Commit(UnsettledAckWrites(disk, cur), AckThrows)
  <2> DEFINE w == UnsettledAckWrites(disk, cur)
  <2>1. StateOf(disk, cur) # "absent" /\ RowsOf(disk, cur) # {}
    BY <1>3 DEF HasEvidence
  <2>2. /\ Len(w) = 2 /\ Becomes(disk, w[1], {}, {}) /\ Alters(disk, w[2], {}, {})
        /\ w[2].inbox = disk.inbox /\ cur \in w[2].unknown
        /\ \A n \in Id \ {cur} : StateOf(w[2], n) = StateOf(disk, n)
    BY <1>0, <2>1, UnsettledLemma
  <2> HIDE DEF w
  <2>3. disk' = w[1] \/ disk' = w[2]
    BY <1>3, <2>2 DEF Commit, Final, Last, w
  <2>4. CASE disk' = w[1]
    BY <2>2, <2>4 DEF Becomes, Alters
  <2>5. CASE disk' = w[2]
    BY <1>0, <2>1, <2>2, <2>5 DEF Quarantined, RowsOf
  <2> QED
    BY <2>3, <2>4, <2>5
<1> QED
  BY <1>2, <1>3 DEF Succeed

LEMMA FailBecomes ==
  ASSUME Base, Fail \/ FenceFails
  PROVE  Becomes(disk, disk', {cur}, {cur})
<1>0. Shaped(disk) /\ cur \in Id
  BY DEF Base, Fail, FenceFails
<1>1. CASE Fail
  <2>1. Writes(NackWrites(disk, cur), disk, {cur}, {cur})
    BY <1>0, NackLemma
  <2> QED
    BY <1>0, <1>1, <2>1, Committed, Unchanged DEF Fail, Commit
<1>2. CASE FenceFails
  <2>1. PICK failed \in {disk, Last(FenceWrites(disk, cur))} :
          /\ failed # disk => StateOf(disk, cur) = "in_flight"
          /\ \/ disk' = Final(failed, NackWrites(failed, cur)) \/ disk' = failed
             \/ \E i \in 1 .. Len(NackWrites(failed, cur)) - 1 : disk' = NackWrites(failed, cur)[i]
    BY <1>2 DEF FenceFails, Fenceable
  <2>2. Becomes(disk, failed, {cur}, {cur})
    <3>1. CASE failed = disk
      BY <1>0, <3>1, Same
    <3>2. CASE failed # disk
      <4>1. Writes(FenceWrites(disk, cur), disk, {}, {}) /\ Len(FenceWrites(disk, cur)) = 1
        BY <1>0, <2>1, <3>2, FenceLemma
      <4>2. Becomes(disk, failed, {}, {})
        BY <2>1, <3>2, <4>1 DEF Writes, Last
      <4> QED
        BY <4>2, Narrow
    <3> QED
      BY <3>1, <3>2
  <2>3. Shaped(failed)
    BY <2>2 DEF Becomes, Alters
  <2>4. Writes(NackWrites(failed, cur), failed, {cur}, {cur})
    BY <1>0, <2>3, NackLemma
  <2>5. Becomes(failed, disk', {cur}, {cur})
    BY <2>1, <2>3, <2>4, Performed
  <2> QED
    BY <2>2, <2>5, Then
<1> QED
  BY <1>1, <1>2

\* The handlers that are not the engine's.
LEMMA EnqueueBecomes ==
  ASSUME Base, NEW m \in Id, Enqueue(m)
  PROVE  Becomes(disk, disk', {m}, {m})
<1>1. Writes(EnqueueWrites(disk, m), disk, {m}, {m})
  BY EnqueueLemma DEF Base
<1>2. Writes(<<>>, disk, {m}, {m})
  BY DEF Writes
<1>3. Shaped(disk)
  BY DEF Base
<1> QED
  BY <1>1, <1>2, <1>3, Committed DEF Enqueue, Commit

LEMMA AckBecomes ==
  ASSUME Base, NEW m \in Id, HttpAck(m)
  PROVE  Becomes(disk, disk', {}, {m})
<1>1. Shaped(disk) /\ Writes(AckWrites(disk, m), disk, {}, {m})
  BY AckLemma DEF Base
<1> QED
  BY <1>1, Committed DEF HttpAck, Commit

LEMMA OtherBecomes ==
  ASSUME Base, HttpPurge \/ \E m \in Id : CallerTimeout(m)
  PROVE  Becomes(disk, disk', {}, {})
<1>0. Shaped(disk)
  BY DEF Base
<1>1. CASE HttpPurge
  <2>1. Writes(PurgeWrites(disk), disk, {}, {})
    BY <1>0, PurgeLemma
  <2> QED
    BY <1>0, <1>1, <2>1, Committed DEF HttpPurge, Commit
<1>2. ASSUME NEW m \in Id, CallerTimeout(m)
      PROVE  Becomes(disk, disk', {}, {})
  <2>1. /\ Writes(WithdrawWrites(disk, m, FALSE, FALSE), disk, {}, {})
        /\ Writes(WithdrawWrites(disk, m, TRUE, TRUE), disk, {}, {})
    BY <1>0, WithdrawLemma
  <2> QED
    BY <1>0, <1>2, <2>1, Committed DEF CallerTimeout, Commit
<1> QED
  BY <1>1, <1>2

LEMMA QuietBecomes ==
  ASSUME Base, Crash \/ Restart \/ Elapse \/ UNCHANGED vars
  PROVE  Becomes(disk, disk', {}, {})
<1>0. Shaped(disk)
  BY DEF Base
<1>1. CASE Elapse
  BY <1>0, <1>1, ElapsedLemma DEF Elapse
<1>2. CASE Crash \/ Restart \/ UNCHANGED vars
  BY <1>0, <1>2, Unchanged DEF Crash, Restart, vars
<1> QED
  BY <1>1, <1>2

\* An operator purging the dead letters changes no state.
LEMMA PurgedDead ==
  ASSUME Base, HttpPurgeDeadLetter
  PROVE  /\ Shaped(disk')
         /\ \A m \in Id : StateOf(disk', m) = StateOf(disk, m) /\ (Spent(disk', m) <=> Spent(disk, m))
BY DEF Base, HttpPurgeDeadLetter, Shaped, StateOf, Spent

\* Every other step is one of the above.
LEMMA Steps ==
  ASSUME Base, [Next]_vars
  PROVE  \/ HttpPurgeDeadLetter
         \/ \E X, Y : Alters(disk, disk', X, Y) /\ (Becomes(disk, disk', X, Y) \/ Quarantined)
BY TickBecomes, WithdrawalBecomes, SucceedBecomes, FailBecomes, EnqueueBecomes, AckBecomes,
   OtherBecomes, QuietBecomes
DEF Next, EngineStep, Others, Settle, Becomes

-----------------------------------------------------------------------------
(* No dead letter without a record.                                        *)

LEMMA InitShaped == Init => Shaped(disk) /\ \A m \in Id : StateOf(disk, m) = "absent"
<1>1. StateRowOf("absent") \in [state : States, since : Nat, fenced : BOOLEAN]
  BY DEF StateRowOf, States
<1> QED
  BY <1>1 DEF Init, EmptyDisk, Shaped, StateOf, StateRowOf

\* Where the tick goes: a message is taken up only by Dequeue.
LEMMA PcSteps ==
  ASSUME [Next]_vars
  PROVE  \/ pc' \in Quiet
         \/ pc' = "fence" /\ Dequeue /\ cur' \in Oldest(disk)
         \/ pc' = "awaiting" /\ Invoke /\ cur' = cur
         \/ pc' = pc /\ cur' = cur
<1>1. CASE EngineStep
  <2>1. CASE StartTick \/ Recovered \/ Expired
    BY <2>1 DEF StartTick, Recovered, Expired, Goto, Refused, Commit, Die, Quiet
  <2>2. CASE Dequeue
    BY <2>2 DEF Dequeue, TickEnds, Commit, Die, Quiet
  <2>3. CASE Invoke
    BY <2>3 DEF Invoke, Goto, Commit, Die, Quiet
  <2>4. CASE FenceFails \/ Settle
    BY <2>4 DEF FenceFails, Settle, Succeed, Doubt, Fail, TargetGone, TickEnds, AckThrows, Refused,
                Commit, Die, Quiet
  <2>5. CASE \E m \in Id : RecoverInflight(m) \/ ExpireStale(m)
    BY <2>5 DEF RecoverInflight, ExpireStale, Stay, Commit, Die, Quiet
  <2> QED
    BY <1>1, <2>1, <2>2, <2>3, <2>4, <2>5 DEF EngineStep
<1>2. CASE Others
  BY <1>2 DEF Others, HttpPurge, HttpPurgeDeadLetter, Enqueue, HttpAck, CallerTimeout, Stay,
              Commit, Die, Quiet
<1>3. CASE Crash \/ Restart \/ Elapse \/ UNCHANGED vars
  BY <1>3 DEF Crash, Restart, Elapse, Die, Quiet, vars
<1> QED
  BY <1>1, <1>2, <1>3 DEF Next

LEMMA BaseInvariant == Spec => []Base
<1>1. Init => Base
  BY InitShaped DEF Init, Base
<1>2. Base /\ [Next]_vars => Base'
  <2> SUFFICES ASSUME Base, [Next]_vars PROVE Base'
    OBVIOUS
  <2>1. Shaped(disk')
    BY Steps, PurgedDead DEF Becomes, Alters
  <2>2. pc' \in {"fence", "awaiting"} => cur' \in Id
    BY PcSteps DEF Base, Oldest, Eligible, Quiet, Invoke
  <2> QED
    BY <2>1, <2>2 DEF Base
<1> QED
  BY <1>1, <1>2, PTL DEF Spec

\* A message never becomes a dead letter without a record of it: appendDeadLetter comes
\* before the state row in every operation, whichever write a crash stops at, but for
\* the acknowledgement without a durable settlement, which keeps payload and doubt.
THEOREM DeadLettersRecorded == Spec => DeadLetterHasRecord
<1>1. ASSUME Base, [Next]_vars, NEW m \in Id,
             StateOf(disk, m) # "dead_letter", StateOf(disk', m) = "dead_letter"
      PROVE  \/ \E r \in disk'.dead : r.id = m
             \/ RowsOf(disk', m) # {} /\ m \in disk'.unknown /\ pc = "awaiting" /\ m = cur
  BY <1>1, Steps, PurgedDead DEF Becomes, Recorded, Quarantined
<1>2. Base /\ [Next]_vars =>
        [\A m \in Id :
           StateOf(disk, m) # "dead_letter" /\ StateOf(disk', m) = "dead_letter" =>
             \/ \E r \in disk'.dead : r.id = m
             \/ /\ RowsOf(disk', m) # {} /\ m \in disk'.unknown
                /\ pc = "awaiting" /\ m = cur]_vars
  BY <1>1
<1> QED
  BY <1>2, BaseInvariant, PTL DEF Spec, DeadLetterHasRecord

-----------------------------------------------------------------------------
(* At most one call that may have written.                                 *)

\* Whoever was called for is spent; while a message is being taken up it is not.
IInv ==
  /\ Base
  /\ effects \in [Id -> {0, 1}]
  /\ offered \subseteq Id
  /\ \A m \in Id : StateOf(disk, m) # "absent" \/ effects[m] = 1 => m \in offered
  /\ \A m \in Id : effects[m] = 1 => Spent(disk, m)
  /\ pc \in {"fence", "awaiting"} => cur \in offered
  /\ pc = "fence" => ~Spent(disk, cur)
  /\ pc = "awaiting" => effects[cur] = 1

\* A step keeps the invariant if the disk changes as it may, whoever is counted anew is
\* spent, whoever may be reopened is not counted, and whoever is new was offered.
LEMMA Kept ==
  ASSUME IInv, NEW X, NEW Y, Alters(disk, disk', X, Y),
         effects' \in [Id -> {0, 1}],
         \A m \in Id : effects'[m] = 1 =>
           (effects[m] = 1 /\ m \notin X) \/ (m \in offered /\ Spent(disk', m)),
         offered \subseteq offered', offered' \subseteq Id,
         \A m \in Id \cap Y : m \in offered',
         \/ pc' \in Quiet
         \/ pc' = "fence" /\ cur' \in offered /\ ~Spent(disk', cur')
         \/ pc' = "awaiting" /\ cur' \in offered /\ effects'[cur'] = 1
  PROVE  IInv'
<1>1. Base'
  BY DEF Base, IInv, Alters, Quiet
<1>2. \A m \in Id : effects'[m] = 1 => m \in offered' /\ Spent(disk', m)
  BY DEF IInv, Alters
<1>3. \A m \in Id : StateOf(disk', m) # "absent" => m \in offered'
  BY DEF IInv, Alters
<1> QED
  BY <1>1, <1>2, <1>3 DEF IInv, Quiet

LEMMA TickKeeps ==
  ASSUME IInv, StartTick \/ Recovered \/ Expired \/ \E m \in Id : RecoverInflight(m) \/ ExpireStale(m)
  PROVE  IInv'
<1>1. Becomes(disk, disk', {}, {})
  BY TickBecomes DEF IInv
<1>2. effects' = effects /\ offered' = offered
  BY DEF StartTick, Recovered, Expired, RecoverInflight, ExpireStale
<1>3. pc' \in Quiet
  BY DEF StartTick, Recovered, Expired, RecoverInflight, ExpireStale, Goto, Stay, Refused, Commit,
         Die, Quiet
<1> QED
  BY <1>1, <1>2, <1>3, Kept DEF IInv, Becomes

\* Only a message that is not spent is dequeued.
LEMMA DequeueKeeps ==
  ASSUME IInv, Dequeue
  PROVE  IInv'
<1>1. Becomes(disk, disk', {}, {})
  BY TickBecomes DEF IInv
<1>2. effects' = effects /\ offered' = offered
  BY DEF Dequeue
<1>3. CASE pc' \in Quiet
  BY <1>1, <1>2, <1>3, Kept DEF IInv, Becomes
<1>4. CASE pc' \notin Quiet
  <2>1. PICK m \in Oldest(disk) :
          Commit(DequeueWrites(disk, m), pc' = "fence" /\ cur' = m /\ UNCHANGED <<swept, skip>>)
    BY <1>4 DEF Dequeue, TickEnds, Quiet
  <2>2. m \in Id /\ StateOf(disk, m) = "pending"
    BY DEF Oldest, Eligible
  <2>3. /\ pc' = "fence" /\ cur' = m
        /\ disk' = Final(disk, DequeueWrites(disk, m))
    BY <1>4, <2>1 DEF Commit, Die, Quiet
  <2>4. disk' = DequeueWrites(disk, m)[1]
    BY <2>3 DEF DequeueWrites, Final, Last
  <2>5. ~Spent(disk', m)
    BY <2>2, <2>4, DequeueLemma DEF Spent, Terminal, IInv, Base
  <2>6. m \in offered
    BY <2>2 DEF IInv
  <2> QED
    BY <1>1, <1>2, <2>3, <2>5, <2>6, Kept DEF IInv, Becomes
<1> QED
  BY <1>3, <1>4

\* deliverFn is called once the fence is on disk, for a message not counted yet.
LEMMA InvokeKeeps ==
  ASSUME IInv, Invoke
  PROVE  IInv'
<1>1. Becomes(disk, disk', {}, {})
  BY TickBecomes DEF IInv
<1>2. cur \in offered /\ cur \in Id /\ StateOf(disk, cur) = "in_flight"
  BY DEF IInv, Base, Invoke, Fenceable
<1>3. Len(FenceWrites(disk, cur)) = 1 /\ Spent(FenceWrites(disk, cur)[1], cur)
  BY <1>2, FenceLemma DEF IInv, Base
<1>4. disk' = FenceWrites(disk, cur)[1] /\ pc' = "awaiting" /\ cur' = cur
  BY <1>3 DEF Invoke, Commit, Final, Goto, Last, FenceWrites
<1>5. effects[cur] = 0
  BY <1>2 DEF IInv, Invoke
<1>6. effects' \in [Id -> {0, 1}] /\ effects' = [effects EXCEPT ![cur] = 1] /\ offered' = offered
  BY <1>2, <1>5 DEF IInv, Invoke
<1> QED
  BY <1>1, <1>2, <1>3, <1>4, <1>6, Kept DEF IInv, Becomes

\* A fence that could not be written counts nothing, and the message may be tried again.
LEMMA FenceFailsKeeps ==
  ASSUME IInv, FenceFails
  PROVE  IInv'
<1>1. Becomes(disk, disk', {cur}, {cur})
  BY FailBecomes DEF IInv
<1>2. cur \in Id /\ cur \in offered /\ effects[cur] # 1
  BY DEF IInv, Base, FenceFails
<1>3. effects' = effects /\ offered' = offered /\ pc' \in Quiet
  BY DEF FenceFails, TickEnds, Refused, Die, Quiet
<1> QED
  BY <1>1, <1>2, <1>3, Kept DEF IInv, Becomes

LEMMA SettleKeeps ==
  ASSUME IInv, Settle
  PROVE  IInv'
<1>1. cur \in Id /\ cur \in offered /\ effects[cur] = 1 /\ pc' \in Quiet /\ offered' = offered
  BY DEF IInv, Base, Settle, Succeed, Doubt, Fail, TargetGone, TickEnds, AckThrows, Refused, Commit, Die, Quiet
<1>2. CASE Succeed
  <2>1. Alters(disk, disk', {}, {cur}) /\ effects' = effects
    BY <1>2, SucceedBecomes DEF IInv, Succeed, Becomes, Alters
  <2> QED
    BY <1>1, <2>1, Kept DEF IInv
<1>3. CASE Doubt
  <2>1. Becomes(disk, disk', {}, {}) /\ effects' = effects
    BY <1>3, WithdrawalBecomes DEF IInv, Doubt
  <2> QED
    BY <1>1, <2>1, Kept DEF IInv, Becomes
<1>4. effects \in [Id -> {0, 1}]
  BY DEF IInv
<1>5. [effects EXCEPT ![cur] = @ - 1] \in [Id -> {0, 1}]
  BY <1>1, <1>4
<1>6. CASE Fail
  <2>1. Becomes(disk, disk', {cur}, {cur}) /\ effects' = [effects EXCEPT ![cur] = @ - 1]
    BY <1>6, FailBecomes DEF IInv, Fail
  <2>2. \A m \in Id : effects'[m] = 1 => effects[m] = 1 /\ m \notin {cur}
    BY <1>1, <1>4, <2>1
  <2> QED
    BY <1>1, <1>5, <2>1, <2>2, Kept DEF IInv, Becomes
<1>7. CASE TargetGone
  <2>1. Becomes(disk, disk', {}, {}) /\ effects' = [effects EXCEPT ![cur] = @ - 1]
    BY <1>7, WithdrawalBecomes DEF IInv, TargetGone
  <2>2. \A m \in Id : effects'[m] = 1 => effects[m] = 1
    BY <1>1, <1>4, <2>1
  <2> QED
    BY <1>1, <1>5, <2>1, <2>2, Kept DEF IInv, Becomes
<1> QED
  BY <1>2, <1>3, <1>6, <1>7 DEF Settle

\* The handlers run while no message is between its dequeue and its fence.  A sender that
\* does not use an id again only ever enqueues what was never delivered.
LEMMA OthersKeep ==
  ASSUME IInv, Others, ~MayResend
  PROVE  IInv'
<1>1. pc' \in Quiet \/ (pc' = "awaiting" /\ pc = "awaiting" /\ cur' = cur)
  BY DEF Others, HttpPurge, HttpPurgeDeadLetter, Enqueue, HttpAck, CallerTimeout, Stay, Commit,
         Die, LoopFree, Quiet
<1>2. effects' = effects
  BY DEF Others, HttpPurge, HttpPurgeDeadLetter, Enqueue, HttpAck, CallerTimeout
<1>3. CASE HttpPurge \/ \E m \in Id : CallerTimeout(m)
  <2>1. Becomes(disk, disk', {}, {}) /\ offered' = offered
    BY <1>3, OtherBecomes DEF IInv, HttpPurge, CallerTimeout
  <2> QED
    BY <1>1, <1>2, <2>1, Kept DEF IInv, Becomes
<1>4. ASSUME NEW m \in Id, HttpAck(m)
      PROVE  IInv'
  <2>1. Becomes(disk, disk', {}, {m}) /\ offered' = offered /\ m \in offered
    BY <1>4, AckBecomes DEF IInv, HttpAck
  <2> QED
    BY <1>1, <1>2, <2>1, Kept DEF IInv, Becomes
<1>5. ASSUME NEW m \in Id, Enqueue(m)
      PROVE  IInv'
  <2>1. /\ Becomes(disk, disk', {m}, {m})
        /\ offered' = offered \cup {m} /\ m \notin offered
    BY <1>5, EnqueueBecomes DEF IInv, Enqueue
  <2>2. effects[m] # 1
    BY <2>1 DEF IInv
  <2> QED
    BY <1>1, <1>2, <2>1, <2>2, Kept DEF IInv, Becomes
<1>6. CASE HttpPurgeDeadLetter
  <2>1. offered' = offered
    BY <1>6 DEF HttpPurgeDeadLetter
  <2> QED
    BY <1>1, <1>2, <1>6, <2>1, PurgedDead DEF IInv, Base, Quiet
<1> QED
  BY <1>3, <1>4, <1>5, <1>6 DEF Others

LEMMA QuietKeeps ==
  ASSUME IInv, Crash \/ Restart \/ Elapse \/ UNCHANGED vars
  PROVE  IInv'
<1>1. Becomes(disk, disk', {}, {})
  BY QuietBecomes DEF IInv
<1>2. effects' = effects /\ offered' = offered
  BY DEF Crash, Restart, Elapse, vars
<1>3. CASE pc' \in Quiet \/ (pc' = "awaiting" /\ pc = "awaiting" /\ cur' = cur)
  BY <1>1, <1>2, <1>3, Kept DEF IInv, Becomes
<1>4. CASE UNCHANGED vars
  BY <1>4 DEF IInv, Base, vars
<1>5. Elapse \/ Crash \/ Restart =>
        pc' \in Quiet \/ (pc' = "awaiting" /\ pc = "awaiting" /\ cur' = cur)
  BY DEF Elapse, Crash, Restart, Die, Quiet
<1> QED
  BY <1>3, <1>4, <1>5

\* deliverFn is never called again for a message that an earlier call may have written,
\* for any limits and any number of messages, crashes and refused locks, provided that
\* senders do not use an id twice.
THEOREM AtMostOnceHolds ==
  ASSUME ~MayResend
  PROVE  Spec => []AtMostOnce
<1>1. Init => IInv
  <2> SUFFICES ASSUME Init PROVE IInv
    OBVIOUS
  <2>1. Shaped(disk) /\ \A m \in Id : StateOf(disk, m) = "absent"
    BY InitShaped
  <2>2. Base /\ pc = "idle" /\ offered = {} /\ effects = [m \in Id |-> 0]
    BY <2>1 DEF Init, Base
  <2> QED
    BY <2>1, <2>2 DEF IInv
<1>2. IInv /\ [Next]_vars => IInv'
  BY TickKeeps, DequeueKeeps, InvokeKeeps, FenceFailsKeeps, SettleKeeps, OthersKeep, QuietKeeps
  DEF Next, EngineStep
<1>3. IInv => AtMostOnce
  BY DEF IInv, AtMostOnce
<1> QED
  BY <1>1, <1>2, <1>3, PTL DEF Spec

-----------------------------------------------------------------------------
(* Types: what the rows are made of.                                       *)

\* Numbers that are bounded below have a least one.
LEMMA LeastNumber ==
  ASSUME NEW T, T \subseteq Nat, T # {}
  PROVE  \E n \in T : \A k \in T : n <= k
<1> DEFINE R == {p \in Nat \X Nat : p[1] < p[2]}
<1>1. IsWellFoundedOn(R, Nat)
  BY NatLessThanWellFounded DEF OpToRel
<1>2. PICK n \in T : \A k \in T : ~(<<k, n>> \in R)
  BY <1>1, WFMin
<1>3. n \in Nat /\ \A k \in T : k \in Nat /\ ~(k < n)
  BY <1>2
<1> QED
  BY <1>2, <1>3

LEMMA GreatestNumber ==
  ASSUME NEW b \in Int, NEW T, T \subseteq Int, T # {}, \A k \in T : k <= b
  PROVE  \E n \in T : \A k \in T : k <= n
<1> DEFINE U == {b - k : k \in T}
<1>0. \A k \in T : b - k \in Nat
  OBVIOUS
<1>1. U \subseteq Nat /\ U # {}
  BY <1>0
<1>2. PICK u \in U : \A k \in U : u <= k
  BY <1>1, LeastNumber
<1>3. PICK n \in T : u = b - n
  BY <1>2
<1>4. \A k \in T : b - n <= b - k
  BY <1>2, <1>3
<1> QED
  BY <1>3, <1>4

\* What is left of a sequence is a sequence of the same: upTo is defined at each
\* position, by the least one at which it would not be.
LEMMA WithoutType ==
  ASSUME NEW S, NEW rows \in Seq(S), NEW done
  PROVE  Without(rows, done) \in Seq(S)
<1> DEFINE Value(f, k) == IF k = 0 THEN <<>>
                          ELSE IF rows[k].id \in done THEN f[k - 1] ELSE Append(f[k - 1], rows[k])
           Fits(f, n) == f = [k \in 0 .. n |-> Value(f, k)]
           N == Len(rows)
           Lost == {n \in 0 .. N : ~\E f : Fits(f, n)}
<1>1. N \in Nat /\ \A k \in 1 .. N : rows[k] \in S
  OBVIOUS
<1>2. ASSUME NEW n \in 0 .. N, \A k \in 0 .. N : k < n => \E f : Fits(f, k)
      PROVE  \E f : Fits(f, n)
  <2>1. CASE n = 0
    <3> DEFINE g == [k \in 0 .. 0 |-> <<>>]
    <3>1. \A k \in 0 .. 0 : Value(g, k) = <<>>
      OBVIOUS
    <3>2. Fits(g, 0)
      BY <3>1
    <3> QED
      BY <2>1, <3>2
  <2>2. CASE n # 0
    <3>1. n - 1 \in 0 .. N /\ n - 1 < n /\ n \in Nat
      BY <1>1, <2>2
    <3>2. PICK f : Fits(f, n - 1)
      BY <1>2, <3>1
    <3> DEFINE g == [k \in 0 .. n |-> IF k = n THEN Value(f, n) ELSE f[k]]
    <3>3. \A k \in 0 .. n : Value(g, k) = Value(f, k)
      BY <3>1
    <3>a. \A k \in 0 .. n - 1 : f[k] = Value(f, k)
      BY <3>2
    <3> HIDE DEF Value
    <3>b. \A k \in 0 .. n : k = n \/ k \in 0 .. n - 1
      BY <3>1
    <3>4. \A k \in 0 .. n : g[k] = Value(f, k)
      BY <3>a, <3>b
    <3>5. g = [k \in 0 .. n |-> Value(g, k)]
      BY <3>3, <3>4
    <3> QED
      BY <3>5
  <2> QED
    BY <2>1, <2>2
<1>3. Lost = {}
  <2> SUFFICES ASSUME Lost # {} PROVE FALSE
    OBVIOUS
  <2>1. Lost \subseteq Nat
    BY <1>1
  <2> HIDE DEF Fits
  <2>2. PICK n \in Lost : \A k \in Lost : n <= k
    BY <2>1, LeastNumber
  <2>3. n \in 0 .. N /\ ~\E f : Fits(f, n)
    OBVIOUS
  <2>4. \A k \in 0 .. N : k < n => \E f : Fits(f, k)
    BY <1>1, <2>2, <2>3
  <2> QED
    BY <1>2, <2>3, <2>4
<1> DEFINE upTo == CHOOSE f : Fits(f, N)
<1>4. Fits(upTo, N)
  <2> HIDE DEF Fits
  <2>1. \E f : Fits(f, N)
    BY <1>1, <1>3
  <2> QED
    BY <2>1
<1>5. Without(rows, done) = upTo[N]
  BY Zenon DEF Without
<1> HIDE DEF upTo
<1> DEFINE Odd == {n \in 0 .. N : upTo[n] \notin Seq(S)}
<1>6. Odd = {}
  <2> SUFFICES ASSUME Odd # {} PROVE FALSE
    OBVIOUS
  <2>1. Odd \subseteq Nat
    BY <1>1
  <2>2. PICK n \in Odd : \A k \in Odd : n <= k
    BY <2>1, LeastNumber
  <2>3. n \in 0 .. N /\ upTo[n] \notin Seq(S) /\ upTo[n] = Value(upTo, n)
    BY <1>4
  <2>4. n # 0 => upTo[n - 1] \in Seq(S)
    BY <1>1, <2>2
  <2> QED
    BY <1>1, <2>3, <2>4
<1> QED
  BY <1>1, <1>5, <1>6

\* Delays are doubled, so the last attempt waits longest.
LEMMA Backoff ==
  ASSUME NEW k \in 0 .. MaxRetries
  PROVE  -(RetryBackoff * 2 ^ k) \in -MaxBackoff .. 0 /\ MaxBackoff \in Nat
<1>1. MaxRetries \in Nat /\ k \in Nat
  OBVIOUS
<1>2. /\ IsFiniteSet(1 .. MaxRetries) /\ Cardinality(1 .. MaxRetries) = MaxRetries
      /\ Cardinality(1 .. k) = k
  BY <1>1, FS_Interval
<1>3. IsFiniteSet(1 .. k) /\ SUBSET (1 .. k) \in SUBSET SUBSET (1 .. MaxRetries)
  BY <1>1, FS_Interval
<1>4. /\ IsFiniteSet(SUBSET (1 .. MaxRetries))
      /\ Cardinality(SUBSET (1 .. MaxRetries)) = 2 ^ MaxRetries
  BY <1>2, FS_SUBSET
<1>5. IsFiniteSet(SUBSET (1 .. k)) /\ Cardinality(SUBSET (1 .. k)) = 2 ^ k
  BY <1>2, <1>3, FS_SUBSET
<1>6. 2 ^ k \in Nat /\ 2 ^ MaxRetries \in Nat /\ 2 ^ k <= 2 ^ MaxRetries
  BY <1>3, <1>4, <1>5, FS_Subset, FS_CardinalityType
<1> DEFINE x == 2 ^ k
           y == 2 ^ MaxRetries
<1>7. x \in Nat /\ y \in Nat /\ x <= y
  BY <1>6
<1> HIDE DEF x, y
<1>8. RetryBackoff \in Nat
  OBVIOUS
<1>9. /\ RetryBackoff * x \in Nat /\ RetryBackoff * y \in Nat
      /\ RetryBackoff * x <= RetryBackoff * y
  BY <1>7, <1>8
<1>10. RetryBackoff * 2 ^ k = RetryBackoff * x /\ MaxBackoff = RetryBackoff * y
  BY Zenon DEF MaxBackoff, x, y
<1> QED
  BY <1>9, <1>10

\* The rows of a message, and the latest of them: there is one of the highest attempt, and
\* of those one that was appended first.
LEMMA LatestRow ==
  ASSUME NEW d \in Disk, NEW m, RowsOf(d, m) # {}
  PROVE  Latest(d, m) \in InboxRow
<1> DEFINE R == RowsOf(d, m)
<1>1. R \subseteq InboxRow
  BY DEF RowsOf, Disk
<1>2. \A r \in R : r.attempt \in Int /\ r.attempt <= MaxRetries /\ r.age \in Int /\ r.age <= Ttl + 1
  BY <1>1 DEF InboxRow
<1> DEFINE A == {r.attempt : r \in R}
<1> HIDE DEF R
<1>3. A \subseteq Int /\ A # {} /\ \A k \in A : k <= MaxRetries
  BY <1>2 DEF R
<1> HIDE DEF A
<1>b. MaxRetries \in Int
  OBVIOUS
<1>4. PICK a \in A : \A k \in A : k <= a
  BY <1>3, <1>b, GreatestNumber
<1> DEFINE G == {r.age : r \in {s \in R : s.attempt = a}}
<1>5. G \subseteq Int /\ G # {} /\ (\A k \in G : k <= Ttl + 1) /\ Ttl + 1 \in Int
  BY <1>2, <1>4 DEF A
<1> HIDE DEF G
<1>6. PICK g \in G : \A k \in G : k <= g
  BY <1>5, GreatestNumber
<1>7. PICK r \in R : r.attempt = a /\ r.age = g
  BY <1>6 DEF G
<1>c. ASSUME NEW o \in R
      PROVE  o.attempt <= r.attempt /\ (o.attempt = r.attempt => o.age <= r.age)
  BY <1>4, <1>6, <1>7 DEF A, G
<1>8. \A o \in R : r.attempt > o.attempt \/ (r.attempt = o.attempt /\ r.age >= o.age)
  BY <1>2, <1>7, <1>c
<1>9. Latest(d, m) \in R
  BY <1>7, <1>8 DEF Latest, R
<1> QED
  BY <1>1, <1>9

-----------------------------------------------------------------------------
(* All the disks that an operation goes through are disks. *)
Sound(w) == w = <<>> \/ (Len(w) \in Nat \ {0} /\ \A i \in 1 .. Len(w) : w[i] \in Disk)

LEMMA StateSet ==
  ASSUME NEW d \in Disk, NEW m \in Id, NEW s \in States
  PROVE  SetState(d, m, s) \in Disk
<1>1. StateRowOf(s) \in StateRow
  BY DEF StateRowOf, StateRow
<1> QED
  BY <1>1 DEF SetState, Disk

LEMMA RowAdded ==
  ASSUME NEW d \in Disk, NEW m \in Id, NEW a \in 0 .. MaxRetries, NEW g \in -MaxBackoff .. Ttl + 1
  PROVE  AppendRow(d, m, a, g) \in Disk
<1>1. [id |-> m, attempt |-> a, age |-> g] \in InboxRow
  BY DEF InboxRow
<1>2. Append(d.inbox, [id |-> m, attempt |-> a, age |-> g]) \in Seq(InboxRow)
  BY <1>1 DEF Disk
<1> QED
  BY <1>2 DEF AppendRow, Disk

LEMMA EnqueueSound ==
  ASSUME NEW d \in Disk, NEW m \in Id PROVE Sound(EnqueueWrites(d, m))
<1> DEFINE d1 == AppendRow(d, m, 0, 0)
<1>0. 0 \in 0 .. MaxRetries
  OBVIOUS
<1>1. MaxBackoff \in Nat
  BY <1>0, Backoff
<1>2. 0 \in -MaxBackoff .. Ttl + 1 /\ 0 \in 0 .. MaxRetries
  BY <1>1
<1>3. d1 \in Disk
  BY <1>2, RowAdded
<1> HIDE DEF d1
<1>4. SetState(d1, m, "pending") \in Disk
  BY <1>3, StateSet DEF States
<1>5. EnqueueWrites(d, m) = <<>> \/ EnqueueWrites(d, m) = <<d1, SetState(d1, m, "pending")>>
  BY DEF EnqueueWrites, d1
<1> QED
  BY <1>3, <1>4, <1>5 DEF Sound

LEMMA DeadLetterSound ==
  ASSUME NEW d \in Disk, NEW m \in Id
  PROVE  Sound(DeadLetterWrites(d, m)) /\ Sound(QuarantineWrites(d, m))
<1> DEFINE d1 == [d EXCEPT !.dead = @ \cup {[id |-> m, unknown |-> FALSE]}]
           e1 == [d EXCEPT !.dead = @ \cup {[id |-> m, unknown |-> TRUE]}]
           e2 == SetState(e1, m, "dead_letter")
           e3 == [e2 EXCEPT !.unknown = @ \cup {m}]
<1>0. \A u \in BOOLEAN : [id |-> m, unknown |-> u] \in DeadLetter
  BY DEF DeadLetter
<1>1. d1 \in Disk /\ e1 \in Disk
  BY <1>0 DEF Disk
<1> HIDE DEF d1, e1
<1>2. SetState(d1, m, "dead_letter") \in Disk /\ e2 \in Disk
  BY <1>1, StateSet DEF States, Terminal
<1> HIDE DEF e2
<1>3. e3 \in Disk
  BY <1>2 DEF Disk
<1> HIDE DEF e3
<1>4. /\ DeadLetterWrites(d, m) = <<d1, SetState(d1, m, "dead_letter")>>
      /\ QuarantineWrites(d, m) = <<e1, e3>>
  BY Zenon DEF DeadLetterWrites, QuarantineWrites, d1, e1, e2, e3
<1> QED
  BY <1>1, <1>2, <1>3, <1>4 DEF Sound

LEMMA FenceSound ==
  ASSUME NEW d \in Disk, NEW m \in Id
  PROVE  Sound(FenceWrites(d, m)) /\ Sound(DequeueWrites(d, m)) /\ Sound(ExpireWrites(d, m))
<1> DEFINE d1 == SetState(d, m, "in_flight")
           d2 == [d1 EXCEPT !.last[m].fenced = TRUE]
<1>1. d1 \in Disk /\ SetState(d, m, "expired") \in Disk
  BY StateSet DEF States, Terminal
<1> HIDE DEF d1
<1>2. d1.last \in [Id -> StateRow] /\ d1.last[m] \in StateRow
  BY <1>1 DEF Disk
<1>3. [d1.last[m] EXCEPT !.fenced = TRUE] \in StateRow
  BY <1>2 DEF StateRow
<1>4. d2 = [d1 EXCEPT !.last = [d1.last EXCEPT ![m] = [d1.last[m] EXCEPT !.fenced = TRUE]]]
  OBVIOUS
<1>5. d2 \in Disk
  BY <1>1, <1>2, <1>3, <1>4 DEF Disk
<1> HIDE DEF d2
<1>6. /\ FenceWrites(d, m) = <<d2>> /\ DequeueWrites(d, m) = <<d1>>
      /\ ExpireWrites(d, m) = <<SetState(d, m, "expired")>>
  BY Zenon DEF FenceWrites, DequeueWrites, ExpireWrites, d1, d2
<1> QED
  BY <1>1, <1>5, <1>6 DEF Sound

LEMMA EmptyRows == EmptyDisk.last \in [Id -> StateRow]
<1>1. StateRowOf("absent") \in StateRow
  BY DEF StateRowOf, StateRow, States
<1> QED
  BY <1>1 DEF EmptyDisk

LEMMA PurgeSound ==
  ASSUME NEW d \in Disk PROVE Sound(PurgeWrites(d))
<1> DEFINE d1 == [d EXCEPT !.inbox = <<>>]
           d2 == [d1 EXCEPT !.last = EmptyDisk.last, !.unknown = {}]
<1>0. <<>> \in Seq(InboxRow)
  OBVIOUS
<1>1. d1 \in Disk
  BY <1>0 DEF Disk
<1> HIDE DEF d1
<1>2. d2 \in Disk
  BY <1>1, EmptyRows DEF Disk
<1> HIDE DEF d2
<1>3. PurgeWrites(d) = <<d1, d2>>
  BY Zenon DEF PurgeWrites, d1, d2
<1> QED
  BY <1>1, <1>2, <1>3 DEF Sound

LEMMA CompactSound ==
  ASSUME NEW d \in Disk PROVE Sound(CompactWrites(d)) /\ CompactWrites(d) \in Seq(Disk)
<1> DEFINE done == {m \in Id : StateOf(d, m) \in Terminal /\ m \notin d.unknown}
           rows == Without(d.inbox, done)
           d0 == [d EXCEPT !.inbox = <<>>]
           d1 == [d EXCEPT !.inbox = Without(@, done)]
           d2 == [d1 EXCEPT !.last = [m \in Id |-> IF m \in done THEN StateRowOf("absent") ELSE @[m]]]
           d3 == [d1 EXCEPT !.last = EmptyDisk.last, !.unknown = {}]
<1>1. d.inbox \in Seq(InboxRow)
  BY DEF Disk
<1> HIDE DEF done
<1>2. rows \in Seq(InboxRow)
  BY <1>1, WithoutType
<1> HIDE DEF rows
<1>3. d1 = [d EXCEPT !.inbox = rows]
  BY DEF rows
<1> HIDE DEF d1
<1>4. d0 \in Disk /\ d1 \in Disk
  <2>1. <<>> \in Seq(InboxRow)
    OBVIOUS
  <2> QED
    BY <1>2, <1>3, <2>1 DEF Disk
<1>5. StateRowOf("absent") \in StateRow
  BY DEF StateRowOf, StateRow, States
<1>6. d2 \in Disk /\ d3 \in Disk
  BY <1>4, <1>5, EmptyRows DEF Disk
<1> HIDE DEF d0, d2, d3
<1>7. CompactWrites(d) \in {<<>>, <<d0, d1, d3, d2>>, <<d1, d2>>}
  <2>1. CompactWrites(d) = <<>> \/ CompactWrites(d) = <<d0, d1, d3, d2>> \/ CompactWrites(d) = <<d1, d2>>
    BY Zenon DEF CompactWrites, d0, d1, d2, d3, done
  <2> QED
    BY <2>1
<1>8. /\ Sound(<<>>) /\ Sound(<<d0, d1, d3, d2>>) /\ Sound(<<d1, d2>>)
      /\ <<>> \in Seq(Disk) /\ <<d0, d1, d3, d2>> \in Seq(Disk) /\ <<d1, d2>> \in Seq(Disk)
  BY <1>4, <1>6 DEF Sound
<1> QED
  BY <1>7, <1>8

LEMMA AckSound ==
  ASSUME NEW d \in Disk, NEW m \in Id PROVE Sound(AckWrites(d, m))
<1> DEFINE d1 == SetState(d, m, "acked")
           w == CompactWrites(d1)
<1>1. d1 \in Disk
  BY StateSet DEF States, Terminal
<1>2. w \in Seq(Disk)
  BY <1>1, CompactSound
<1>3. AckWrites(d, m) = <<>> \/ AckWrites(d, m) = <<d1>> \o w
  BY Zenon DEF AckWrites
<1> HIDE DEF d1, w
<1>4. <<d1>> \o w \in Seq(Disk) /\ Len(<<d1>> \o w) = 1 + Len(w) /\ Len(w) \in Nat
  BY <1>1, <1>2
<1> DEFINE v == <<d1>> \o w
<1> HIDE DEF v
<1>5. v \in Seq(Disk) /\ Len(v) \in Nat \ {0}
  BY <1>4 DEF v
<1>6. Sound(v) /\ Sound(<<>>)
  BY <1>5 DEF Sound
<1> QED
  BY <1>3, <1>6 DEF v

LEMMA UnsettledSound ==
  ASSUME NEW d \in Disk, NEW m \in Id PROVE Sound(UnsettledAckWrites(d, m))
<1> DEFINE d1 == SetState(d, m, "acked")
           d2 == SetState(d1, m, "dead_letter")
           d3 == [d2 EXCEPT !.unknown = @ \cup {m}]
<1>1. d1 \in Disk
  BY StateSet DEF States, Terminal
<1> HIDE DEF d1
<1>2. d2 \in Disk
  BY <1>1, StateSet DEF States, Terminal
<1> HIDE DEF d2
<1>3. d3 \in Disk
  BY <1>2 DEF Disk
<1> HIDE DEF d3
<1>4. UnsettledAckWrites(d, m) = <<d1, d3>>
  BY Zenon DEF UnsettledAckWrites, d1, d2, d3
<1> QED
  BY <1>1, <1>3, <1>4 DEF Sound

\* A message that has been tried MaxRetries times gets no row for another attempt.
LEMMA RetrySound ==
  ASSUME NEW d \in Disk, NEW m \in Id, RowsOf(d, m) # {}
  PROVE  Sound(RetryWrites(d, m))
<1> DEFINE attempt == Latest(d, m).attempt + 1
           age == -(RetryBackoff * 2 ^ (attempt - 1))
           d1 == SetState(d, m, "nacked")
           d2 == AppendRow(d1, m, attempt, age)
           d3 == SetState(d2, m, "pending")
<1>1. attempt \in Nat \ {0}
  BY LatestRow DEF InboxRow
<1>2. RetryWrites(d, m) = IF attempt >= MaxRetries THEN DeadLetterWrites(d, m) ELSE <<d1, d2, d3>>
  BY Zenon DEF RetryWrites
<1>3. CASE attempt >= MaxRetries
  BY <1>2, <1>3, DeadLetterSound
<1>4. CASE ~(attempt >= MaxRetries)
  <2> HIDE DEF attempt
  <2>1. attempt \in 0 .. MaxRetries /\ attempt - 1 \in 0 .. MaxRetries
    BY <1>1, <1>4
  <2>2. age \in -MaxBackoff .. 0 /\ MaxBackoff \in Nat
    BY <2>1, Backoff
  <2> HIDE DEF age
  <2>3. age \in -MaxBackoff .. Ttl + 1
    BY <2>2
  <2>4. d1 \in Disk
    BY StateSet DEF States
  <2> HIDE DEF d1
  <2>5. d2 \in Disk
    BY <2>1, <2>3, <2>4, RowAdded
  <2> HIDE DEF d2
  <2>6. d3 \in Disk
    BY <2>5, StateSet DEF States
  <2> HIDE DEF d3
  <2>7. RetryWrites(d, m) = <<d1, d2, d3>>
    BY <1>2, <1>4
  <2> QED
    BY <2>4, <2>5, <2>6, <2>7 DEF Sound
<1> QED
  BY <1>3, <1>4

LEMMA NackSound ==
  ASSUME NEW d \in Disk, NEW m \in Id
  PROVE  Sound(NackWrites(d, m)) /\ (m \in TimedOut(d) => Sound(RecoverWrites(d, m)))
<1>1. Sound(<<>>)
  BY DEF Sound
<1> QED
  BY <1>1, RetrySound, DeadLetterSound DEF NackWrites, RecoverWrites, TimedOut

LEMMA WithdrawSound ==
  ASSUME NEW d \in Disk, NEW m \in Id, NEW f \in BOOLEAN, NEW u \in BOOLEAN
  PROVE  Sound(WithdrawWrites(d, m, f, u))
<1>1. Sound(<<>>)
  BY DEF Sound
<1> QED
  BY <1>1, DeadLetterSound DEF WithdrawWrites

LEMMA ElapsedSound ==
  ASSUME NEW d \in Disk PROVE Elapsed(d) \in Disk
<1> DEFINE rows == [m \in Id |->
                      [d.last[m] EXCEPT !.since =
                         IF StateOf(d, m) = "in_flight" /\ @ < InflightTimeout THEN @ + 1 ELSE @]]
           inbox == [i \in DOMAIN d.inbox |->
                      [d.inbox[i] EXCEPT !.age = IF @ > Ttl THEN @ ELSE @ + 1]]
<1>1. d.inbox \in Seq(InboxRow) /\ d.last \in [Id -> StateRow]
  BY DEF Disk
<1>2. MaxBackoff \in Nat
  <2>1. 0 \in 0 .. MaxRetries
    OBVIOUS
  <2> QED
    BY <2>1, Backoff
<1>3. ASSUME NEW r \in InboxRow
      PROVE  [r EXCEPT !.age = IF @ > Ttl THEN @ ELSE @ + 1] \in InboxRow
  BY <1>2 DEF InboxRow
<1>4. ASSUME NEW r \in StateRow, NEW b \in BOOLEAN
      PROVE  [r EXCEPT !.since = IF b /\ @ < InflightTimeout THEN @ + 1 ELSE @] \in StateRow
  BY DEF StateRow
<1>5. inbox \in Seq(InboxRow)
  <2>1. Len(d.inbox) \in Nat /\ DOMAIN d.inbox = 1 .. Len(d.inbox) /\ \A i \in DOMAIN d.inbox : d.inbox[i] \in InboxRow
    BY <1>1
  <2>2. \A i \in DOMAIN d.inbox : [d.inbox[i] EXCEPT !.age = IF @ > Ttl THEN @ ELSE @ + 1] \in InboxRow
    BY <1>3, <2>1
  <2>3. inbox \in [1 .. Len(d.inbox) -> InboxRow]
    BY <2>1, <2>2
  <2> HIDE DEF inbox
  <2> QED
    BY <2>1, <2>3, IsASeq
<1>6. rows \in [Id -> StateRow]
  BY <1>1, <1>4
<1>7. Elapsed(d) = [d EXCEPT !.inbox = inbox, !.last = rows]
  BY Zenon DEF Elapsed
<1> HIDE DEF inbox, rows
<1> QED
  BY <1>5, <1>6, <1>7 DEF Disk

-----------------------------------------------------------------------------
(* The steps. *)

\* The types, and that a call that is being waited for was counted.
Typed == TypeOK /\ (pc = "awaiting" => effects[cur] # 0)

\* The disk that a crash or the end of an operation leaves.
LEMMA WrittenSound ==
  ASSUME NEW w, disk \in Disk, Sound(w),
         \/ disk' = Final(disk, w)
         \/ \E i \in 1 .. Len(w) - 1 : disk' = w[i]
  PROVE  disk' \in Disk
BY DEF Sound, Final, Last

LEMMA DiskTyped ==
  ASSUME Typed, [Next]_vars
  PROVE  disk' \in Disk
<1>0. disk \in Disk /\ (pc \in {"fence", "awaiting"} => cur \in Id)
  BY DEF Typed, TypeOK
<1>a. Sound(<<>>)
  BY DEF Sound
<1>1. CASE StartTick \/ Recovered \/ Crash \/ Restart \/ UNCHANGED vars
  BY <1>0, <1>1 DEF StartTick, Recovered, Crash, Restart, vars
<1>2. CASE Expired
  <2>1. Sound(CompactWrites(disk))
    BY <1>0, CompactSound
  <2>2. Sound(IF swept THEN CompactWrites(disk) ELSE <<>>)
    BY <1>a, <2>1
  <2> QED
    BY <1>0, <1>2, <2>2, WrittenSound DEF Expired, Commit
<1>3. CASE Dequeue
  <2>1. ASSUME NEW m \in Oldest(disk),
               \/ disk' = Final(disk, DequeueWrites(disk, m))
               \/ \E i \in 1 .. Len(DequeueWrites(disk, m)) - 1 : disk' = DequeueWrites(disk, m)[i]
        PROVE  disk' \in Disk
    <3>1. m \in Id
      BY DEF Oldest, Eligible
    <3> QED
      BY <1>0, <2>1, <3>1, FenceSound, WrittenSound
  <2> QED
    BY <1>0, <1>3, <2>1 DEF Dequeue, Commit
<1>4. CASE Invoke
  <2>1. cur \in Id
    BY <1>0, <1>4 DEF Invoke
  <2> QED
    BY <1>0, <1>4, <2>1, FenceSound, WrittenSound DEF Invoke, Commit
<1>5. CASE Fail
  <2>1. Sound(NackWrites(disk, cur))
    BY <1>0, <1>5, NackSound DEF Fail
  <2> QED
    BY <1>0, <1>5, <2>1, WrittenSound DEF Fail, Commit
<1>b. CASE FenceFails
  <2>1. PICK failed \in {disk, Last(FenceWrites(disk, cur))} :
          \/ disk' = Final(failed, NackWrites(failed, cur)) \/ disk' = failed
          \/ \E i \in 1 .. Len(NackWrites(failed, cur)) - 1 : disk' = NackWrites(failed, cur)[i]
    BY <1>b DEF FenceFails
  <2>2. cur \in Id
    BY <1>0, <1>b DEF FenceFails
  <2>3. failed \in Disk
    <3>1. Sound(FenceWrites(disk, cur)) /\ Len(FenceWrites(disk, cur)) = 1
      BY <1>0, <2>2, FenceSound DEF FenceWrites
    <3>2. FenceWrites(disk, cur)[1] \in Disk
      BY <3>1 DEF Sound
    <3> QED
      BY <1>0, <2>1, <3>1, <3>2 DEF Last
  <2>4. Sound(NackWrites(failed, cur))
    BY <2>2, <2>3, NackSound
  <2> QED
    BY <2>1, <2>3, <2>4 DEF Final, Sound, Last
<1>6. CASE Succeed
  <2>1. Sound(AckWrites(disk, cur)) /\ Sound(UnsettledAckWrites(disk, cur))
    BY <1>0, <1>6, AckSound, UnsettledSound DEF Succeed
  <2> QED
    BY <1>0, <1>6, <2>1, WrittenSound DEF Succeed, Commit
<1>7. CASE Doubt \/ TargetGone
  <2>1. Sound(WithdrawWrites(disk, cur, TRUE, TRUE)) /\ Sound(WithdrawWrites(disk, cur, TRUE, FALSE))
    BY <1>0, <1>7, WithdrawSound DEF Doubt, TargetGone
  <2> QED
    BY <1>0, <1>7, <2>1, WrittenSound DEF Doubt, TargetGone, Commit
<1>8. ASSUME NEW m \in Id, RecoverInflight(m) \/ ExpireStale(m)
      PROVE  disk' \in Disk
  <2>1. CASE RecoverInflight(m)
    BY <1>0, <2>1, NackSound, WrittenSound DEF RecoverInflight, Commit
  <2>2. CASE ExpireStale(m)
    BY <1>0, <2>2, FenceSound, WrittenSound DEF ExpireStale, Commit
  <2> QED
    BY <1>8, <2>1, <2>2
<1>9. CASE HttpPurge \/ HttpPurgeDeadLetter
  <2>1. [disk EXCEPT !.dead = {}] \in Disk
    BY <1>0 DEF Disk
  <2> QED
    BY <1>0, <1>9, <2>1, PurgeSound, WrittenSound DEF HttpPurge, HttpPurgeDeadLetter, Commit
<1>10. ASSUME NEW m \in Id, Enqueue(m) \/ HttpAck(m) \/ CallerTimeout(m)
       PROVE  disk' \in Disk
  <2>1. CASE Enqueue(m)
    BY <1>0, <2>1, EnqueueSound, WrittenSound DEF Enqueue, Commit
  <2>2. CASE HttpAck(m)
    BY <1>0, <2>2, AckSound, WrittenSound DEF HttpAck, Commit
  <2>3. CASE CallerTimeout(m)
    <3>1. Sound(WithdrawWrites(disk, m, FALSE, FALSE)) /\ Sound(WithdrawWrites(disk, m, TRUE, TRUE))
      BY <1>0, WithdrawSound
    <3> QED
      BY <1>0, <2>3, <3>1, WrittenSound DEF CallerTimeout, Commit
  <2> QED
    BY <1>10, <2>1, <2>2, <2>3
<1>11. CASE Elapse
  BY <1>0, <1>11, ElapsedSound DEF Elapse
<1> QED
  BY <1>1, <1>2, <1>3, <1>4, <1>5, <1>b, <1>6, <1>7, <1>8, <1>9, <1>10, <1>11
  DEF Next, EngineStep, Others, Settle

\* Where the tick stands, and with which message.
LEMMA PlaceTyped ==
  ASSUME Typed, [Next]_vars
  PROVE  /\ pc' \in {"idle", "recover", "expire", "dequeue", "fence", "awaiting", "down"}
         /\ cur' \in Id \cup {NoId}
         /\ (cur' = NoId) <=> (pc' \notin {"fence", "awaiting"})
         /\ faults' \in 0 .. MaxFaults
<1> USE DeliveryAssumption
<1>0. /\ pc \in {"idle", "recover", "expire", "dequeue", "fence", "awaiting", "down"}
      /\ cur \in Id \cup {NoId}
      /\ (cur = NoId) <=> (pc \notin {"fence", "awaiting"})
      /\ faults \in 0 .. MaxFaults
  BY DEF Typed, TypeOK
<1>1. CASE StartTick \/ Recovered \/ Expired
  BY <1>0, <1>1 DEF StartTick, Recovered, Expired, Goto, Refused, Fault, Commit, Die
<1>2. CASE Dequeue
  BY <1>0, <1>2 DEF Dequeue, Oldest, Eligible, TickEnds, Commit, Die, Fault
<1>3. CASE Invoke \/ FenceFails
  BY <1>0, <1>3 DEF Invoke, FenceFails, Goto, TickEnds, Refused, Commit, Die, Fault
<1>4. CASE Settle
  <2>1. pc' \in {"idle", "down"} /\ cur' = NoId
    BY <1>4 DEF Settle, Succeed, Doubt, Fail, TargetGone, TickEnds, AckThrows, Refused, Commit, Die
  <2>2. UNCHANGED faults \/ Fault
    BY <1>4 DEF Settle, Succeed, Doubt, Fail, TargetGone, Refused, Commit
  <2> QED
    BY <1>0, <2>1, <2>2 DEF Fault
<1>5. CASE \E m \in Id : RecoverInflight(m) \/ ExpireStale(m)
  BY <1>0, <1>5 DEF RecoverInflight, ExpireStale, Stay, Commit, Die, Fault
<1>6. CASE Others
  <2>1. CASE HttpPurge \/ HttpPurgeDeadLetter
    BY <1>0, <2>1 DEF HttpPurge, HttpPurgeDeadLetter, Stay, Commit, Die, Fault
  <2>2. ASSUME NEW m \in Id, Enqueue(m) \/ HttpAck(m) \/ CallerTimeout(m)
        PROVE  (Stay \/ Die) /\ (UNCHANGED faults \/ Fault)
    BY <2>2 DEF Enqueue, HttpAck, CallerTimeout, Commit
  <2>3. ((Stay \/ Die) /\ (UNCHANGED faults \/ Fault)) \/ HttpPurge \/ HttpPurgeDeadLetter
    BY <1>6, <2>2 DEF Others
  <2> QED
    BY <1>0, <2>1, <2>3 DEF Stay, Die, Fault
<1>7. CASE Crash \/ Restart \/ Elapse \/ UNCHANGED vars
  BY <1>0, <1>7 DEF Crash, Restart, Elapse, Die, Fault, vars
<1> QED
  BY <1>1, <1>2, <1>3, <1>4, <1>5, <1>6, <1>7 DEF Next, EngineStep

LEMMA FlagsTyped ==
  ASSUME Typed, [Next]_vars
  PROVE  swept' \in BOOLEAN /\ skip' \in BOOLEAN
<1>0. swept \in BOOLEAN /\ skip \in BOOLEAN
  BY DEF Typed, TypeOK
<1>1. CASE StartTick \/ Recovered \/ Expired
  BY <1>0, <1>1 DEF StartTick, Recovered, Expired, Goto, Refused, Fault, Commit, Die
<1>2. CASE Dequeue
  BY <1>0, <1>2 DEF Dequeue, Oldest, Eligible, TickEnds, Commit, Die, Fault
<1>3. CASE Invoke \/ FenceFails
  BY <1>0, <1>3 DEF Invoke, FenceFails, Goto, TickEnds, Refused, Commit, Die, Fault
<1>4. CASE Settle
  BY <1>0, <1>4 DEF Settle, Succeed, Doubt, Fail, TargetGone, TickEnds, AckThrows, Refused, Commit, Die, Fault
<1>5. CASE \E m \in Id : RecoverInflight(m) \/ ExpireStale(m)
  BY <1>0, <1>5 DEF RecoverInflight, ExpireStale, Stay, Commit, Die, Fault
<1>6. CASE Others
  BY <1>0, <1>6 DEF Others, HttpPurge, HttpPurgeDeadLetter, Enqueue, HttpAck, CallerTimeout, Stay,
       Commit, Die, Fault
<1>7. CASE Crash \/ Restart \/ Elapse \/ UNCHANGED vars
  BY <1>0, <1>7 DEF Crash, Restart, Elapse, Die, Fault, vars
<1> QED
  BY <1>1, <1>2, <1>3, <1>4, <1>5, <1>6, <1>7 DEF Next, EngineStep

\* Only a call that was counted is taken back.
LEMMA EffectsTyped ==
  ASSUME Typed, [Next]_vars
  PROVE  /\ effects' \in [Id -> Nat] /\ offered' \subseteq Id
         /\ pc' = "awaiting" => effects'[cur'] # 0
<1>0. /\ effects \in [Id -> Nat] /\ offered \subseteq Id /\ (pc = "awaiting" => effects[cur] # 0)
      /\ pc \in {"fence", "awaiting"} => cur \in Id
  BY DEF Typed, TypeOK
<1>1. CASE Invoke
  <2>1. cur \in Id /\ effects' = [effects EXCEPT ![cur] = @ + 1] /\ offered' = offered
    BY <1>0, <1>1 DEF Invoke
  <2>2. pc' = "awaiting" => cur' = cur
    BY <1>1 DEF Invoke, Commit, Goto, Die
  <2> QED
    BY <1>0, <2>1, <2>2
<1>2. CASE Fail \/ TargetGone
  <2>1. cur \in Id /\ effects[cur] # 0 /\ effects' = [effects EXCEPT ![cur] = @ - 1] /\ offered' = offered
    BY <1>0, <1>2 DEF Fail, TargetGone
  <2>2. pc' # "awaiting"
    BY <1>2 DEF Fail, TargetGone, TickEnds, AckThrows, Refused, Commit, Die
  <2> QED
    BY <1>0, <2>1, <2>2
<1>3. CASE ~Invoke /\ ~Fail /\ ~TargetGone
  <2>1. effects' = effects /\ offered' \subseteq Id
    BY <1>0, <1>3 DEF Next, EngineStep, Settle, Others, StartTick, Recovered, Expired, Dequeue, FenceFails,
      RecoverInflight, ExpireStale, Succeed, Doubt, HttpPurge, HttpPurgeDeadLetter, Enqueue, HttpAck,
      CallerTimeout, Crash, Restart, Elapse, vars
  <2>2. pc' = "awaiting" => pc = "awaiting" /\ cur' = cur
    BY <1>3, PcSteps DEF Quiet
  <2> QED
    BY <1>0, <2>1, <2>2
<1> QED
  BY <1>1, <1>2, <1>3

\* Files, states, attempts and delays keep their types: no message is tried more than
\* MaxRetries times, and no call is taken back that was not made.
THEOREM TypeCorrect == Spec => []TypeOK
<1>1. Init => Typed
  <2> SUFFICES ASSUME Init PROVE Typed
    OBVIOUS
  <2>1. EmptyDisk \in Disk
    <3>1. <<>> \in Seq(InboxRow)
      OBVIOUS
    <3> QED
      BY <3>1, EmptyRows DEF EmptyDisk, Disk
  <2>2. /\ pc = "idle" /\ cur = NoId /\ offered = {} /\ faults = 0
        /\ effects = [m \in Id |-> 0] /\ disk = EmptyDisk
    BY DEF Init
  <2>3. swept \in BOOLEAN /\ skip \in BOOLEAN
    BY DEF Init
  <2>4. effects \in [Id -> Nat] /\ faults \in 0 .. MaxFaults
    BY <2>2, DeliveryAssumption
  <2> QED
    BY <2>1, <2>2, <2>3, <2>4 DEF Typed, TypeOK
<1>2. Typed /\ [Next]_vars => Typed'
  BY DiskTyped, PlaceTyped, FlagsTyped, EffectsTyped DEF Typed, TypeOK
<1>3. Typed => TypeOK
  BY DEF Typed
<1> QED
  BY <1>1, <1>2, <1>3, PTL DEF Spec
=============================================================================
