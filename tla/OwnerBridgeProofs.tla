------------------------ MODULE OwnerBridgeProofs ------------------------
(***************************************************************************)
(* Proofs about OwnerBridge for any number of injections, processes,       *)
(* children and failures.                                                  *)
(*                                                                         *)
(* The invariant says how the mailbox, the records, the held bodies and    *)
(* the timers fit together.  Its heart is Ordered: what is written comes   *)
(* before what is on a timer, and that before what is pending; Accounted:  *)
(* the body of a submit that may still be written is written, ahead of it, *)
(* or known to be unwritten; and Doomed: what a dead letter calls not      *)
(* written has no timer, and a flush that finds its row drops it again.    *)
(*                                                                         *)
(* The parts are stated of any bridge s, with the last frame sent n, the   *)
(* failures met f and the frames that arrived G, so that the lemmas follow *)
(* the code: one for each helper (a quarantine, a flush, a direct write,   *)
(* the maintenance, a timer), composed by the lemmas about the actions.    *)
(* A process that ends keeps only what Durable says; a process that starts *)
(* has only that to rebuild the invariant from.                            *)
(***************************************************************************)
EXTENDS OwnerBridge, FiniteSetTheorems, SequenceTheorems, TLAPS

Timer == [frame : Frame, child : 1..MaxChild]

\* What is not sent yet has left no trace.
Unsent(s, n) ==
  \A k \in Frame : k > n =>
    /\ s.box[k] = "none" /\ s.rec[k] = "none" /\ s.grave[k] = {}
    /\ k \notin s.wrote /\ k \notin s.refused /\ k \notin s.held

\* A record says what its row says and belongs to this process; a row that waits from an
\* earlier one is there because the recovery could not withdraw it.
Indexed(s, f) ==
  \A k \in Frame :
    /\ s.rec[k] # "none" => s.rec[k] = s.box[k] /\ k >= first
    /\ k \in Live(s) /\ k < first => "recover" \in f

\* While the process runs, a row of its own that waits has a record.
Own(s) == \A k \in Frame : s.box[k] = "pending" /\ k >= first => s.rec[k] = "pending"

\* A written frame waits no more, a refused one has no row.
Settled(s) ==
  /\ \A k \in s.wrote : s.box[k] # "pending" /\ s.rec[k] = "none" /\ k \notin s.refused
  /\ \A k \in s.refused : s.box[k] = "none"

\* A timer belongs to a row in flight that has not been written.
Armed(s) ==
  \A i \in DOMAIN s.timers :
    /\ s.box[s.timers[i].frame] = "in_flight" /\ s.timers[i].frame \notin s.wrote
    /\ s.timers[i].frame >= first => s.rec[s.timers[i].frame] = "in_flight"
    /\ s.timers[i].child <= s.child

Distinct(s) == \A i, j \in DOMAIN s.timers : i # j => s.timers[i].frame # s.timers[j].frame

\* The count is that of the pending records, or more once a dequeue has failed.
Counted(s, n, f) ==
  /\ Cardinality(Pending(s)) <= s.count /\ s.count <= n
  /\ "dequeue" \notin f => s.count = Cardinality(Pending(s))

\* What a submit may withdraw is a body; what is held is the body of a refused submit.
BodiesHeld(s) ==
  /\ s.queuedBody # 0 => ~IsCr(s.queuedBody)
  /\ \A k \in s.held : ~IsCr(k)
  /\ ids => \A k \in s.held : k + 1 \in s.refused

\* A frame of which a dead letter says "not written" has no timer, and if it still waits it
\* will be dropped: it is stale, or a submit whose body is known to be unwritten.
Excepted(f, k) == "recover" \in f /\ k < first
Doomed(s, f) ==
  (ids \/ "withdraw" \notin f) =>
    \A k \in Frame : "not_written" \in s.grave[k] /\ ~Excepted(f, k) =>
      /\ k \notin s.wrote
      /\ \A i \in DOMAIN s.timers : s.timers[i].frame # k
      /\ s.rec[k] = "pending" => Stale(k) \/ (ids /\ IsCr(k) /\ BodyOf(k) \in s.unwritten)

\* Written, on timers, pending: these frames follow each other.
Ordered(s) ==
  /\ \A i, j \in DOMAIN s.timers :
       i < j /\ s.timers[j].frame >= first => s.timers[i].frame < s.timers[j].frame
  /\ \A i \in DOMAIN s.timers : \A j \in s.wrote : s.timers[i].frame >= first => j < s.timers[i].frame
  /\ \A k \in Frame : s.rec[k] = "pending" =>
       (\A j \in s.wrote : j < k) /\ (\A i \in DOMAIN s.timers : s.timers[i].frame < k)

\* A body of this process that is not among the frames X under way is written, will be, or is
\* known to be unwritten; a submit on a timer has a body of which that is not known.
Answering(f) == f \cap {"withdraw", "dequeue", "recover"} = {}
OnTimer(s, k) == \E i \in DOMAIN s.timers : s.timers[i].frame = k
Accounted(s, n, f, X) ==
  ids /\ s.child = 1 /\ Answering(f) =>
    /\ \A j \in Frame \ X : j >= first /\ j <= n /\ ~IsCr(j) =>
         j \in s.wrote \/ s.box[j] = "pending" \/ j \in s.unwritten \/ OnTimer(s, j)
    /\ \A i \in DOMAIN s.timers : IsCr(s.timers[i].frame) => BodyOf(s.timers[i].frame) \notin s.unwritten

\* CustodyKept for the frames of G but those of X.
Kept(s, G, X) == \A k \in G \ X : k \in s.wrote \cup s.refused \cup Live(s) \/ s.grave[k] # {}

\* The part of the invariant that holds whether or not the process runs, and the rest.
Sound(s, n, f, G, X) ==
  /\ s \in Bridge /\ Unsent(s, n) /\ Indexed(s, f) /\ Settled(s) /\ Armed(s) /\ Distinct(s)
  /\ BodiesHeld(s) /\ Doomed(s, f) /\ Ordered(s) /\ Kept(s, G, X)
Good(s, n, f, G, X) == Sound(s, n, f, G, X) /\ Counted(s, n, f)
Running(s, n, f, X) == Own(s) /\ Accounted(s, n, f, X)

Asleep(s) ==
  /\ s.rec = [k \in Frame |-> "none"] /\ s.held = {} /\ s.unwritten = {} /\ s.timers = <<>>
  /\ s.count = 0

Flags ==
  /\ ids \in BOOLEAN /\ twin \in BOOLEAN /\ up \in BOOLEAN /\ recent \in BOOLEAN
  /\ sent \in 0..2 * MaxInject /\ got \subseteq 1..sent /\ old \in 0..sent
  /\ process \in 1..MaxProcess /\ first \in 1..2 * MaxInject + 1 /\ failed \subseteq Failure
  /\ (~up => sent % 2 = 0) /\ first % 2 = 1 /\ first <= sent + 1

Ticking == "dequeue" \notin failed /\ Pending(b) # {} => b.tick
Inv ==
  /\ Flags /\ Good(b, sent, failed, got, {})
  /\ up => Running(b, sent, failed, {}) /\ Ticking
  /\ ~up => Asleep(b)

-----------------------------------------------------------------------------
(* Sizes and the order of timers. *)

USE BridgeAssumption

\* There are finitely many frames, so each set of them has a size.
LEMMA FramesFinite ==
  ASSUME NEW S \in SUBSET Frame
  PROVE  IsFiniteSet(S) /\ Cardinality(S) \in Nat
<1>1. IsFiniteSet(Frame)
  BY FS_Interval DEF Frame
<1> QED
  BY <1>1, FS_Subset, FS_CardinalityType

\* A part is no larger than the whole, and smaller if it is another set.
LEMMA PartSmaller ==
  ASSUME NEW S \in SUBSET Frame, NEW T \in SUBSET S
  PROVE  Cardinality(T) <= Cardinality(S) /\ (T # S => Cardinality(T) < Cardinality(S))
<1>1. IsFiniteSet(S) /\ Cardinality(S) \in Nat
  BY FramesFinite
<1>2. T \in SUBSET Frame
  OBVIOUS
<1>3. Cardinality(T) \in Nat
  BY <1>2, FramesFinite
<1>4. Cardinality(T) <= Cardinality(S) /\ (Cardinality(S) = Cardinality(T) => S = T)
  BY <1>1, FS_Subset
<1> QED
  BY <1>1, <1>3, <1>4

\* The places of the frames of S are distinct and follow their order.
Place(S, k) == Cardinality({j \in S : j <= k})

\* A later frame has a later place.
LEMMA PlaceGrows ==
  ASSUME NEW S \in SUBSET Frame, NEW j \in S, NEW k \in S, j < k
  PROVE  Place(S, j) < Place(S, k)
<1> DEFINE A == {i \in S : i <= j}
           B == {i \in S : i <= k}
<1>1. A \in SUBSET B /\ k \in B /\ k \notin A /\ B \in SUBSET Frame
  <2>1. \A i \in S : i \in Int
    BY DEF Frame
  <2>2. \A i \in S : i <= j => i <= k
    BY <2>1
  <2>3. k <= k /\ ~(k <= j)
    BY <2>1
  <2> QED
    BY <2>2, <2>3
<1>2. Cardinality(A) < Cardinality(B)
  <2> HIDE DEF A, B
  <2> QED
    BY <1>1, PartSmaller
<1> QED
  BY <1>2 DEF Place

\* No frame of S has a place beyond the size of S.
LEMMA PlaceIn ==
  ASSUME NEW S \in SUBSET Frame, NEW k \in S
  PROVE  Place(S, k) \in 1..Cardinality(S)
<1> DEFINE A == {i \in S : i <= k}
<1>1. A \in SUBSET S /\ k \in A /\ A \in SUBSET Frame
  <2>1. k \in Int
    BY DEF Frame
  <2>2. k <= k
    BY <2>1
  <2> QED
    BY <2>2
<1> HIDE DEF A
<1>2. IsFiniteSet(A) /\ Cardinality(A) \in Nat /\ Cardinality(S) \in Nat
  BY <1>1, FramesFinite
<1>3. Cardinality(A) <= Cardinality(S)
  BY <1>1, PartSmaller
<1>4. Cardinality(A) # 0
  BY <1>1, <1>2, FS_EmptySet
<1>5. Cardinality(A) \in 1..Cardinality(S)
  BY <1>2, <1>3, <1>4
<1> QED
  BY <1>5 DEF A, Place

\* Every place up to the size of S is the place of one frame of S.
LEMMA PlaceTaken ==
  ASSUME NEW S \in SUBSET Frame, NEW i \in 1..Cardinality(S)
  PROVE  \E k \in S : Place(S, k) = i
<1> DEFINE n == Cardinality(S)
           f == [k \in S |-> Place(S, k)]
<1>1. IsFiniteSet(1..n) /\ Cardinality(1..n) = n /\ n \in Nat
  BY FramesFinite, FS_Interval
<1>2. f \in [S -> 1..n]
  BY PlaceIn
<1>3. \A j, k \in S : f[j] = f[k] => j = k
  <2> SUFFICES ASSUME NEW j \in S, NEW k \in S, f[j] = f[k], j # k
               PROVE  FALSE
    OBVIOUS
  <2>1. Place(S, j) = Place(S, k) /\ Place(S, j) \in Int
    BY PlaceIn
  <2>2. j < k \/ k < j
    BY DEF Frame
  <2> QED
    BY <2>1, <2>2, PlaceGrows
<1>4. f \in Injection(S, 1..n)
  <2> HIDE DEF f
  <2> QED
    BY <1>2, <1>3 DEF Injection, IsInjective
<1>5. f \in Surjection(S, 1..n)
  <2> HIDE DEF f
  <2> QED
    BY <1>1, <1>4, FS_Injection
<1>6. \A y \in 1..n : \E x \in S : f[x] = y
  <2> HIDE DEF f
  <2> QED
    BY <1>5 DEF Surjection
<1> QED
  BY <1>6

\* Nth lists S in ascending order.
LEMMA NthIs ==
  ASSUME NEW S \in SUBSET Frame
  PROVE  /\ \A i \in 1..Cardinality(S) : Nth(S, i) \in S
         /\ \A i, j \in 1..Cardinality(S) : i < j => Nth(S, i) < Nth(S, j)
         /\ \A k \in S : \E i \in 1..Cardinality(S) : Nth(S, i) = k
<1>1. \A i \in 1..Cardinality(S) : Nth(S, i) \in S /\ Place(S, Nth(S, i)) = i
  BY PlaceTaken DEF Nth, Place
<1>2. ASSUME NEW i \in 1..Cardinality(S), NEW j \in 1..Cardinality(S), i < j
      PROVE  Nth(S, i) < Nth(S, j)
  <2> DEFINE x == Nth(S, i)
             y == Nth(S, j)
  <2>1. x \in S /\ y \in S /\ Place(S, x) < Place(S, y)
    BY <1>1, <1>2
  <2>2. Place(S, x) \in Int /\ Place(S, y) \in Int
    BY <2>1, PlaceIn
  <2> HIDE DEF x, y
  <2>3. y < x => Place(S, y) < Place(S, x)
    BY <2>1, PlaceGrows
  <2>4. x < y
    BY <2>1, <2>2, <2>3 DEF Frame
  <2> QED
    BY <2>4 DEF x, y
<1>3. ASSUME NEW k \in S
      PROVE  \E i \in 1..Cardinality(S) : Nth(S, i) = k
  <2> DEFINE i == Place(S, k)
             x == Nth(S, i)
  <2>1. i \in 1..Cardinality(S)
    BY PlaceIn
  <2>2. x \in S /\ Place(S, x) = Place(S, k)
    BY <1>1, <2>1
  <2>3. Place(S, k) \in Int
    BY PlaceIn
  <2> HIDE DEF x
  <2>4. x = k
    BY <2>2, <2>3, PlaceGrows DEF Frame
  <2> QED
    BY <2>1, <2>4 DEF x
<1> QED
  BY <1>1, <1>2, <1>3

\* New timers come after those that are set, one for each frame of S, in their order.
Later(q, p, S, c) ==
  /\ q \in Seq(Timer) /\ Len(q) \in Nat /\ Len(p) \in Nat /\ Len(p) <= Len(q)
  /\ DOMAIN q = 1..Len(q) /\ DOMAIN p = 1..Len(p)
  /\ \A i \in 1..Len(p) : q[i] = p[i]
  /\ \A i \in 1..Len(q) : i > Len(p) => q[i].frame \in S /\ q[i].child = c
  /\ \A i, j \in 1..Len(q) : i > Len(p) /\ i < j => q[i].frame < q[j].frame
  /\ \A k \in S : \E i \in 1..Len(q) : i > Len(p) /\ q[i].frame = k

\* The timers that a flush sets.
LEMMA TimersLater ==
  ASSUME NEW s \in Bridge, NEW S \in SUBSET Frame
  PROVE  Later(Timers(s, S), s.timers, S, s.child)
<1> DEFINE n == Cardinality(S)
           p == s.timers
           new == [i \in 1..n |-> [frame |-> Nth(S, i), child |-> s.child]]
           q == p \o new
<1>1. p \in Seq(Timer) /\ s.child \in 1..MaxChild /\ n \in Nat
  BY FramesFinite DEF Bridge, Timer
<1>2. new \in Seq(Timer)
  <2>1. \A i \in 1..n : [frame |-> Nth(S, i), child |-> s.child] \in Timer
    BY <1>1, NthIs DEF Timer
  <2>2. new \in [1..n -> Timer]
    BY <2>1
  <2> QED
    BY <1>1, <2>2
<1>3. Len(new) = n
  BY <1>1
<1>4. /\ q \in Seq(Timer) /\ Len(q) = Len(p) + n /\ Len(p) \in Nat /\ Len(q) \in Nat
      /\ \A i \in 1..Len(p) + n : q[i] = IF i <= Len(p) THEN p[i] ELSE new[i - Len(p)]
  <2> HIDE DEF p, new
  <2>1. Len(p) \in Nat
    BY <1>1
  <2>2. /\ q \in Seq(Timer) /\ Len(q) = Len(p) + Len(new)
        /\ \A i \in 1..Len(p) + Len(new) : q[i] = IF i <= Len(p) THEN p[i] ELSE new[i - Len(p)]
    BY <1>1, <1>2, ConcatProperties
  <2> QED
    BY <1>1, <1>3, <2>1, <2>2
<1>5. DOMAIN q = 1..Len(q) /\ DOMAIN p = 1..Len(p)
  BY <1>1, <1>4
<1>6. ASSUME NEW i \in 1..Len(q), i > Len(p)
      PROVE  i - Len(p) \in 1..n /\ q[i].frame = Nth(S, i - Len(p)) /\ q[i].child = s.child
  <2>1. i - Len(p) \in 1..n /\ q[i] = new[i - Len(p)]
    BY <1>1, <1>4, <1>6
  <2> DEFINE j == i - Len(p)
  <2> HIDE DEF j, q
  <2>2. j \in 1..n /\ q[i] = new[j]
    BY <2>1 DEF j
  <2>3. new[j] = [frame |-> Nth(S, j), child |-> s.child]
    BY <2>2
  <2>4. j \in 1..n /\ q[i].frame = Nth(S, j) /\ q[i].child = s.child
    BY <2>2, <2>3
  <2> QED
    BY <2>4 DEF j
<1>7. \A i \in 1..Len(p) : q[i] = p[i]
  BY <1>1, <1>4
<1> HIDE DEF q, p, new, n
<1>8. \A i \in 1..Len(q) : i > Len(p) => q[i].frame \in S /\ q[i].child = s.child
  BY <1>6, NthIs DEF n
<1>9. ASSUME NEW i \in 1..Len(q), NEW j \in 1..Len(q), i > Len(p), i < j
      PROVE  q[i].frame < q[j].frame
  <2>1. j > Len(p) /\ i - Len(p) < j - Len(p)
    BY <1>4, <1>9
  <2>2. /\ i - Len(p) \in 1..n /\ q[i].frame = Nth(S, i - Len(p))
        /\ j - Len(p) \in 1..n /\ q[j].frame = Nth(S, j - Len(p))
    BY <1>6, <1>9, <2>1
  <2> QED
    BY <2>1, <2>2, NthIs DEF n
<1>10. ASSUME NEW k \in S
       PROVE  \E i \in 1..Len(q) : i > Len(p) /\ q[i].frame = k
  <2>1. PICK i \in 1..n : Nth(S, i) = k
    BY NthIs DEF n
  <2>2. i + Len(p) \in 1..Len(q) /\ i + Len(p) > Len(p) /\ (i + Len(p)) - Len(p) = i
    BY <1>1, <1>4
  <2>3. q[i + Len(p)].frame = k
    BY <1>6, <2>1, <2>2
  <2> QED
    BY <2>2, <2>3
<1>11. Later(q, p, S, s.child)
  <2>1. q \in Seq(Timer) /\ Len(q) \in Nat /\ Len(p) \in Nat /\ Len(p) <= Len(q)
    BY <1>1, <1>4
  <2>2. \A i, j \in 1..Len(q) : i > Len(p) /\ i < j => q[i].frame < q[j].frame
    BY <1>9
  <2>3. \A k \in S : \E i \in 1..Len(q) : i > Len(p) /\ q[i].frame = k
    BY <1>10
  <2> QED
    BY <1>5, <1>7, <1>8, <2>1, <2>2, <2>3 DEF Later
<1> QED
  BY <1>11 DEF q, p, new, n, Timers

-----------------------------------------------------------------------------
(* What the helpers of the model do to the bridge. *)

\* Nothing changes but flags.
Alike(s, t) ==
  /\ t \in Bridge
  /\ t.box = s.box /\ t.grave = s.grave /\ t.refused = s.refused /\ t.wrote = s.wrote
  /\ t.rec = s.rec /\ t.held = s.held /\ t.unwritten = s.unwritten
  /\ t.timers = s.timers /\ t.child = s.child

\* The frames M of S go to the dead letter.
Buries(s, q, S, M, certainty) ==
  /\ q \in Bridge
  /\ \A k \in Frame : q.box[k] = IF k \in M THEN "done" ELSE s.box[k]
  /\ \A k \in Frame : q.rec[k] = IF k \in M THEN "none" ELSE s.rec[k]
  /\ \A k \in Frame : /\ s.grave[k] \subseteq q.grave[k]
                      /\ q.grave[k] \subseteq s.grave[k] \cup {certainty}
                      /\ k \notin S => q.grave[k] = s.grave[k]
                      /\ k \in M => certainty \in q.grave[k]
  /\ q.held = s.held \ M
  /\ s.unwritten \subseteq q.unwritten
  /\ \A k \in q.unwritten : k \in s.unwritten \/ (k \in M /\ ~IsCr(k) /\ s.rec[k] # "none")
  /\ ids => \A k \in M : ~IsCr(k) /\ s.rec[k] # "none" => k \in q.unwritten
  /\ q.refused = s.refused /\ q.wrote = s.wrote /\ q.queuedBody = s.queuedBody
  /\ q.count = s.count /\ q.timers = s.timers /\ q.child = s.child /\ q.ready = s.ready /\ q.tick = s.tick

Moved(S, kind, fault) == {k \in S : ~Throws(fault, kind, k)}

\* The quarantine of the model does that, whatever throws.
LEMMA QuarantineBuries ==
  ASSUME NEW s \in Bridge, NEW S \in SUBSET Frame, NEW certainty \in Certainty, NEW kind, NEW fault,
         ids \in BOOLEAN
  PROVE  Buries(s, Quarantine(s, S, certainty, kind, fault), S, Moved(S, kind, fault), certainty)
<1> DEFINE M == Moved(S, kind, fault)
           Z == M \cup (IF fault.torn THEN S ELSE {})
           bodies == Remembered(s, M)
           q == Quarantine(s, S, certainty, kind, fault)
<1>1. M \subseteq S
  BY DEF Moved
<1>2. M \subseteq Z /\ Z \subseteq S
  BY <1>1
<1>3. bodies \subseteq Frame /\ \A k \in Frame : k \in bodies <=> k \in M /\ s.rec[k] # "none" /\ ~IsCr(k)
  BY <1>1 DEF Remembered
<1>4. q = [s EXCEPT !.box = Assign(s.box, M, "done"),
                !.grave = [k \in Frame |-> s.grave[k] \cup IF k \in Z THEN {certainty} ELSE {}],
                !.rec = Assign(s.rec, M, "none"),
                !.held = s.held \ M,
                !.unwritten = s.unwritten \cup IF ids THEN bodies ELSE {},
                !.adjacent = s.adjacent \/ (bodies # {} /\ certainty = "not_written")]
  BY DEF Quarantine, Moved
<1> HIDE DEF bodies, Z, M, q
<1>5. /\ Assign(s.box, M, "done") \in [Frame -> {"none", "pending", "in_flight", "done"}]
      /\ Assign(s.rec, M, "none") \in [Frame -> {"none", "pending", "in_flight"}]
      /\ \A k \in Frame : Assign(s.box, M, "done")[k] = IF k \in M THEN "done" ELSE s.box[k]
      /\ \A k \in Frame : Assign(s.rec, M, "none")[k] = IF k \in M THEN "none" ELSE s.rec[k]
  BY DEF Assign, Bridge
<1>6. [k \in Frame |-> s.grave[k] \cup IF k \in Z THEN {certainty} ELSE {}] \in [Frame -> SUBSET Certainty]
  BY DEF Bridge
<1>7. s.held \ M \in SUBSET Frame /\ s.unwritten \cup (IF ids THEN bodies ELSE {}) \in SUBSET Frame
  BY <1>3 DEF Bridge
<1>8. (s.adjacent \/ (bodies # {} /\ certainty = "not_written")) \in BOOLEAN
  BY DEF Bridge
<1>9. q \in Bridge
  BY <1>4, <1>5, <1>6, <1>7, <1>8 DEF Bridge
<1>10. /\ q.box = Assign(s.box, M, "done") /\ q.rec = Assign(s.rec, M, "none")
       /\ q.grave = [k \in Frame |-> s.grave[k] \cup IF k \in Z THEN {certainty} ELSE {}]
       /\ q.held = s.held \ M /\ q.unwritten = s.unwritten \cup IF ids THEN bodies ELSE {}
       /\ q.refused = s.refused /\ q.wrote = s.wrote /\ q.queuedBody = s.queuedBody
       /\ q.count = s.count /\ q.timers = s.timers /\ q.child = s.child /\ q.ready = s.ready /\ q.tick = s.tick
  BY <1>4 DEF Bridge
<1>11. \A k \in Frame : /\ s.grave[k] \subseteq q.grave[k]
                        /\ q.grave[k] \subseteq s.grave[k] \cup {certainty}
                        /\ k \notin S => q.grave[k] = s.grave[k]
                        /\ k \in M => certainty \in q.grave[k]
  BY <1>2, <1>10
<1>12. /\ s.unwritten \subseteq q.unwritten
       /\ \A k \in q.unwritten : k \in s.unwritten \/ (k \in M /\ ~IsCr(k) /\ s.rec[k] # "none")
       /\ ids => \A k \in M : ~IsCr(k) /\ s.rec[k] # "none" => k \in q.unwritten
  BY <1>1, <1>3, <1>10
<1>13. Buries(s, q, S, M, certainty)
  BY <1>5, <1>9, <1>10, <1>11, <1>12 DEF Buries
<1> QED
  BY <1>13 DEF q, M

\* The timers are those of frames, for children there were.
LEMMA TimersTyped ==
  ASSUME NEW s \in Bridge
  PROVE  /\ s.timers \in Seq(Timer) /\ DOMAIN s.timers = 1..Len(s.timers) /\ Len(s.timers) \in Nat
         /\ \A i \in DOMAIN s.timers : s.timers[i].frame \in Frame /\ s.timers[i].child \in 1..MaxChild
<1>1. s.timers \in Seq(Timer)
  BY DEF Bridge, Timer
<1>2. \A i \in DOMAIN s.timers : s.timers[i] \in Timer
  BY <1>1
<1> QED
  BY <1>1, <1>2 DEF Timer

\* The rows S are dequeued.
Takes(s, t, S) ==
  /\ t \in Bridge
  /\ \A k \in Frame : t.box[k] = IF k \in S THEN "in_flight" ELSE s.box[k]
  /\ \A k \in Frame : t.rec[k] = IF k \in S /\ s.rec[k] # "none" THEN "in_flight" ELSE s.rec[k]
  /\ t.grave = s.grave /\ t.refused = s.refused /\ t.wrote = s.wrote /\ t.held = s.held
  /\ t.unwritten = s.unwritten /\ t.queuedBody = s.queuedBody /\ t.count = s.count
  /\ t.timers = s.timers /\ t.child = s.child /\ t.ready = s.ready /\ t.tick = s.tick

\* The dequeue of the model does that.
LEMMA InFlightTakes ==
  ASSUME NEW s \in Bridge, NEW S \in SUBSET Frame
  PROVE  Takes(s, InFlight(s, S), S)
<1> DEFINE R == {k \in S : s.rec[k] # "none"}
           t == InFlight(s, S)
<1>1. t = [s EXCEPT !.box = Assign(s.box, S, "in_flight"), !.rec = Assign(s.rec, R, "in_flight")]
  BY DEF InFlight
<1>2. \A k \in Frame : k \in R <=> k \in S /\ s.rec[k] # "none"
  OBVIOUS
<1> HIDE DEF R, t
<1>3. /\ Assign(s.box, S, "in_flight") \in [Frame -> {"none", "pending", "in_flight", "done"}]
      /\ Assign(s.rec, R, "in_flight") \in [Frame -> {"none", "pending", "in_flight"}]
      /\ \A k \in Frame : Assign(s.box, S, "in_flight")[k] = IF k \in S THEN "in_flight" ELSE s.box[k]
      /\ \A k \in Frame : Assign(s.rec, R, "in_flight")[k] = IF k \in R THEN "in_flight" ELSE s.rec[k]
  BY DEF Assign, Bridge
<1>4. t \in Bridge
  BY <1>1, <1>3 DEF Bridge
<1>5. /\ t.box = Assign(s.box, S, "in_flight") /\ t.rec = Assign(s.rec, R, "in_flight")
      /\ t.grave = s.grave /\ t.refused = s.refused /\ t.wrote = s.wrote /\ t.held = s.held
      /\ t.unwritten = s.unwritten /\ t.queuedBody = s.queuedBody /\ t.count = s.count
      /\ t.timers = s.timers /\ t.child = s.child /\ t.ready = s.ready /\ t.tick = s.tick
  BY <1>1 DEF Bridge
<1>6. Takes(s, t, S)
  BY <1>2, <1>3, <1>4, <1>5 DEF Takes
<1> QED
  BY <1>6 DEF t

\* A flush takes the rows B that wait: T get timers, M go to the dead letter, and what is in
\* neither could not be withdrawn.
Waiting(s) == {k \in Frame : s.box[k] = "pending"}
Delivers(s, d, B, T, M, kinds) ==
  /\ d \in Bridge /\ T \subseteq B /\ M \subseteq B \ T
  /\ "withdraw" \notin kinds => M = B \ T
  /\ \A k \in Frame : d.box[k] = IF k \in M THEN "done" ELSE IF k \in B THEN "in_flight" ELSE s.box[k]
  /\ \A k \in Frame : d.rec[k] = IF k \in M THEN "none"
                                 ELSE IF k \in B /\ s.rec[k] # "none" THEN "in_flight" ELSE s.rec[k]
  /\ \A k \in Frame : /\ s.grave[k] \subseteq d.grave[k]
                      /\ k \in T \/ k \notin B => d.grave[k] = s.grave[k]
                      /\ k \in M => d.grave[k] # {}
  /\ d.held = s.held \ M
  /\ s.unwritten \subseteq d.unwritten
  /\ ids => \A k \in M : ~IsCr(k) /\ s.rec[k] # "none" => k \in d.unwritten
  /\ \A k \in d.unwritten : k \in s.unwritten \/ k \in M
  /\ \A k \in T : /\ ~Stale(k) /\ k \notin s.held
                  /\ ids /\ s.rec[k] # "none" /\ IsCr(k) =>
                       /\ BodyOf(k) \notin s.unwritten
                       /\ BodyOf(k) \in d.unwritten => BodyOf(k) \in s.held
  /\ d.refused = s.refused /\ d.wrote = s.wrote /\ d.queuedBody = s.queuedBody
  /\ d.child = s.child /\ d.tick = s.tick
  /\ Later(d.timers, s.timers, T, s.child)
  /\ d.count = IF s.count > Cardinality(B) THEN s.count - Cardinality(B) ELSE 0

\* The delivery of the model does that for some T and M.
LEMMA DeliverIs ==
  ASSUME NEW s \in Bridge, NEW fault, ids \in BOOLEAN, NEW K, fault.kinds = K
  PROVE  \E T, M : Delivers(s, Deliver(s, Waiting(s), fault), Waiting(s), T, M, K)
<1> DEFINE B == Waiting(s)
           D == Dropped(B)
           rest == B \ D
           t == InFlight(s, B)
           u == Quarantine(t, D, "not_written", "withdraw", fault)
           lone == {k \in rest : PairUnwritten(u, B, k)}
           R == lone \cup (rest \cap s.held)
           v == Quarantine(u, R, "not_written", "withdraw", fault)
           T == rest \ R
           M1 == Moved(D, "withdraw", fault)
           M2 == Moved(R, "withdraw", fault)
           M == M1 \cup M2
           c == IF s.count > Cardinality(B) THEN s.count - Cardinality(B) ELSE 0
           d == Deliver(s, B, fault)
<1>1. B \in SUBSET Frame /\ D \in SUBSET B /\ \A k \in B : Stale(k) => k \in D
  BY DEF Waiting, Dropped
<1>2. d = [v EXCEPT !.timers = Timers(s, T), !.count = c, !.ready = FALSE]
  BY DEF Deliver
<1>3. \A k \in T : k \in B /\ k \notin D /\ k \notin s.held /\ ~PairUnwritten(u, B, k)
  OBVIOUS
<1>4. R \in SUBSET B /\ R \cap D = {} /\ T \cap R = {} /\ T \cap D = {} /\ T \subseteq B /\ B = D \cup R \cup T
  BY <1>1
<1>5. \A k \in R : IsCr(k) \/ k \in s.held
  BY DEF PairUnwritten
<1>6. M1 \subseteq D /\ M2 \subseteq R /\ ("withdraw" \notin K => M1 = D /\ M2 = R)
  BY DEF Moved, Throws
<1> HIDE DEF B, D, rest, t, u, lone, R, v, T, M1, M2, c, d
<1>7. Takes(s, t, B)
  BY <1>1, InFlightTakes DEF t
<1>8. Buries(t, u, D, M1, "not_written")
  <2>1. t \in Bridge /\ D \in SUBSET Frame /\ "not_written" \in Certainty
    BY <1>1, <1>7 DEF Takes, Certainty
  <2> QED
    BY <2>1, QuarantineBuries DEF u, M1
<1>9. Buries(u, v, R, M2, "not_written")
  <2>1. u \in Bridge /\ R \in SUBSET Frame /\ "not_written" \in Certainty
    BY <1>1, <1>4, <1>8 DEF Buries, Certainty
  <2> QED
    BY <2>1, QuarantineBuries DEF v, M2
<1>10. Later(Timers(s, T), s.timers, T, s.child)
  <2>1. T \in SUBSET Frame
    BY <1>1, <1>4
  <2> QED
    BY <2>1, TimersLater
<1>11. c \in 0..2 * MaxInject
  <2>1. s.count \in 0..2 * MaxInject /\ Cardinality(B) \in Nat
    BY <1>1, FramesFinite DEF Bridge
  <2> QED
    BY <2>1 DEF c
<1>12. d \in Bridge
  <2>1. v \in Bridge /\ Timers(s, T) \in Seq(Timer)
    BY <1>9, <1>10 DEF Buries, Later
  <2> QED
    BY <1>2, <1>11, <2>1 DEF Bridge, Timer
<1>13. /\ d.box = v.box /\ d.rec = v.rec /\ d.grave = v.grave /\ d.held = v.held /\ d.unwritten = v.unwritten
       /\ d.refused = v.refused /\ d.wrote = v.wrote /\ d.queuedBody = v.queuedBody
       /\ d.child = v.child /\ d.tick = v.tick /\ d.timers = Timers(s, T) /\ d.count = c
  <2>1. v \in Bridge
    BY <1>9 DEF Buries
  <2> QED
    BY <1>2, <2>1 DEF Bridge
<1>14. \A k \in Frame : d.box[k] = IF k \in M THEN "done" ELSE IF k \in B THEN "in_flight" ELSE s.box[k]
  BY <1>7, <1>8, <1>9, <1>13 DEF Takes, Buries
<1>15. \A k \in Frame : d.rec[k] = IF k \in M THEN "none"
                                   ELSE IF k \in B /\ s.rec[k] # "none" THEN "in_flight" ELSE s.rec[k]
  BY <1>7, <1>8, <1>9, <1>13 DEF Takes, Buries
<1>16. \A k \in Frame : /\ s.grave[k] \subseteq d.grave[k]
                        /\ k \in T \/ k \notin B => d.grave[k] = s.grave[k]
                        /\ k \in M => d.grave[k] # {}
  <2> TAKE k \in Frame
  <2>1. /\ t.grave[k] = s.grave[k] /\ t.grave[k] \subseteq u.grave[k] /\ u.grave[k] \subseteq v.grave[k]
        /\ d.grave[k] = v.grave[k]
    BY <1>7, <1>8, <1>9, <1>13 DEF Takes, Buries
  <2>2. k \in T \/ k \notin B => k \notin D /\ k \notin R
    BY <1>4
  <2>3. (k \notin D => u.grave[k] = t.grave[k]) /\ (k \notin R => v.grave[k] = u.grave[k])
    BY <1>8, <1>9 DEF Buries
  <2>4. (k \in M1 => "not_written" \in u.grave[k]) /\ (k \in M2 => "not_written" \in v.grave[k])
    BY <1>8, <1>9 DEF Buries
  <2> QED
    BY <2>1, <2>2, <2>3, <2>4
<1>17. /\ d.held = s.held \ M /\ s.unwritten \subseteq d.unwritten
       /\ \A k \in d.unwritten : k \in s.unwritten \/ k \in M
  BY <1>7, <1>8, <1>9, <1>13 DEF Takes, Buries
<1>18. ids => \A k \in M : ~IsCr(k) /\ s.rec[k] # "none" => k \in d.unwritten
  <2> SUFFICES ASSUME ids, NEW k \in M, ~IsCr(k), s.rec[k] # "none"
               PROVE  k \in d.unwritten
    OBVIOUS
  <2>1. k \in Frame /\ k \in B /\ t.rec[k] = "in_flight" /\ d.unwritten = v.unwritten
    BY <1>1, <1>4, <1>6, <1>7, <1>13 DEF Takes
  <2>2. CASE k \in M1
    BY <2>1, <2>2, <1>8, <1>9 DEF Buries
  <2>3. CASE k \in M2 /\ k \notin M1
    <3>1. u.rec[k] = t.rec[k]
      BY <2>1, <2>3, <1>8 DEF Buries
    <3> QED
      BY <2>1, <2>3, <3>1, <1>9 DEF Buries
  <2> QED
    BY <2>2, <2>3
<1>19. ASSUME NEW k \in T, ids, s.rec[k] # "none", IsCr(k)
       PROVE  /\ BodyOf(k) \notin s.unwritten
              /\ BodyOf(k) \in d.unwritten => BodyOf(k) \in s.held
  <2>1. k \in Frame /\ k \in B /\ k \notin M1
    BY <1>1, <1>4, <1>6
  <2>2. u.rec[k] = "in_flight"
    BY <1>7, <1>8, <1>19, <2>1 DEF Takes, Buries
  <2>3. BodyOf(k) \notin u.unwritten
    BY <1>3, <1>19, <2>2 DEF PairUnwritten
  <2>4. s.unwritten \subseteq u.unwritten
    BY <1>7, <1>8 DEF Takes, Buries
  <2>5. BodyOf(k) \in d.unwritten => BodyOf(k) \in M2 /\ ~IsCr(BodyOf(k))
    BY <1>9, <1>13, <2>3 DEF Buries
  <2> QED
    BY <1>5, <1>6, <2>3, <2>4, <2>5
<1>20. \A k \in T : ~Stale(k) /\ k \notin s.held
  BY <1>1, <1>3
<1>21. /\ d.refused = s.refused /\ d.wrote = s.wrote /\ d.queuedBody = s.queuedBody
       /\ d.child = s.child /\ d.tick = s.tick
  BY <1>7, <1>8, <1>9, <1>13 DEF Takes, Buries
<1>22. M \subseteq B \ T /\ ("withdraw" \notin K => M = B \ T)
  BY <1>4, <1>6
<1> HIDE DEF M
<1>23. Delivers(s, d, B, T, M, K)
  BY <1>4, <1>10, <1>12, <1>13, <1>14, <1>15, <1>16, <1>17, <1>18, <1>19, <1>20, <1>21, <1>22 DEF Delivers, c
<1> QED
  BY <1>23 DEF d, B

-----------------------------------------------------------------------------
(* Each helper preserves the invariant. *)

\* A flush: what waited is on a timer, in the dead letter or in flight without either.
LEMMA DeliverGood ==
  ASSUME ids \in BOOLEAN, first \in Nat, NEW n \in Nat, NEW f, NEW G \in SUBSET Frame, NEW s,
         Good(s, n, f, G, {}), Running(s, n, f, {}),
         NEW d, NEW T, NEW M, NEW K \in SUBSET f, Delivers(s, d, Waiting(s), T, M, K)
  PROVE  Good(d, n, f, G, {}) /\ Running(d, n, f, {}) /\ Pending(d) = {}
<1> DEFINE B == Waiting(s)
           p == s.timers
           q == d.timers
<1>0. s \in Bridge /\ d \in Bridge
  BY DEF Good, Sound, Delivers
<1>1. /\ \A k \in Frame : k \in B <=> s.box[k] = "pending"
      /\ B \subseteq Frame /\ T \subseteq B /\ M \subseteq B \ T /\ ("withdraw" \notin K => M = B \ T)
  BY DEF Delivers, Waiting
<1>2. /\ \A k \in Frame : d.box[k] = IF k \in M THEN "done" ELSE IF k \in B THEN "in_flight" ELSE s.box[k]
      /\ \A k \in Frame : d.rec[k] = IF k \in M THEN "none"
                                 ELSE IF k \in B /\ s.rec[k] # "none" THEN "in_flight" ELSE s.rec[k]
  BY DEF Delivers
<1>3. \A k \in Frame : /\ s.grave[k] \subseteq d.grave[k]
                       /\ k \in T \/ k \notin B => d.grave[k] = s.grave[k]
                       /\ k \in M => d.grave[k] # {}
  BY DEF Delivers
<1>4. /\ d.held = s.held \ M /\ s.unwritten \subseteq d.unwritten
      /\ ids => \A k \in M : ~IsCr(k) /\ s.rec[k] # "none" => k \in d.unwritten
      /\ \A k \in d.unwritten : k \in s.unwritten \/ k \in M
  BY DEF Delivers
<1>5. \A k \in T : /\ ~Stale(k) /\ k \notin s.held
                   /\ ids /\ s.rec[k] # "none" /\ IsCr(k) =>
                       /\ BodyOf(k) \notin s.unwritten
                       /\ BodyOf(k) \in d.unwritten => BodyOf(k) \in s.held
  BY DEF Delivers
<1>6. d.refused = s.refused /\ d.wrote = s.wrote /\ d.queuedBody = s.queuedBody /\ d.child = s.child
  BY DEF Delivers
<1>7. Later(q, p, T, s.child)
  BY DEF Delivers
<1>8. d.count = IF s.count > Cardinality(B) THEN s.count - Cardinality(B) ELSE 0
  BY DEF Delivers
<1>9. /\ DOMAIN q = 1..Len(q) /\ DOMAIN p = 1..Len(p) /\ Len(p) \in Nat /\ Len(q) \in Nat /\ Len(p) <= Len(q)
      /\ \A i \in DOMAIN q : i \in DOMAIN p \/ i > Len(p)
      /\ \A i \in DOMAIN p : i \in DOMAIN q /\ q[i] = p[i] /\ ~(i > Len(p))
      /\ \A i \in DOMAIN q : i > Len(p) => q[i].frame \in T /\ q[i].child = s.child
      /\ \A i, j \in DOMAIN q : i > Len(p) /\ i < j => q[i].frame < q[j].frame
      /\ \A k \in T : \E i \in DOMAIN q : i > Len(p) /\ q[i].frame = k
  BY <1>7 DEF Later
<1>10. \A i \in DOMAIN p : p[i].frame \in Frame /\ p[i].frame \notin B
  <2>1. \A i \in DOMAIN p : p[i].frame \in Frame
    BY <1>0, TimersTyped
  <2>2. \A i \in DOMAIN p : s.box[p[i].frame] = "in_flight"
    BY DEF Good, Sound, Armed
  <2> QED
    BY <1>1, <2>1, <2>2
<1>11. \A k \in B : k \in Frame /\ k \notin s.wrote /\ k \notin s.refused
  BY <1>1 DEF Good, Sound, Settled
<1>12. \A k \in B : k >= first => s.rec[k] = "pending"
  BY <1>1 DEF Running, Own
<1>13. \A k \in B : k < first => "recover" \in f
  BY <1>1 DEF Good, Sound, Indexed, Live
<1>14. Pending(d) = {} /\ \A k \in Frame : d.rec[k] # "pending" /\ d.box[k] # "pending"
  <2>1. \A k \in Frame : s.rec[k] = "pending" => k \in B
    BY <1>1 DEF Good, Sound, Indexed
  <2> QED
    BY <1>1, <1>2, <2>1 DEF Pending
<1>15. Unsent(d, n)
  <2>1. Unsent(s, n) /\ \A k \in Frame : k > n => k \notin B
    BY <1>1 DEF Good, Sound, Unsent
  <2>2. \A k \in Frame : k > n => k \notin M /\ k \notin T
    BY <1>1, <2>1
  <2> QED
    BY <1>2, <1>3, <1>4, <1>6, <2>1, <2>2 DEF Unsent
<1>16. Indexed(d, f)
  BY <1>1, <1>2 DEF Good, Sound, Indexed, Live
<1>17. Settled(d)
  <2>1. s.wrote \subseteq Frame /\ s.refused \subseteq Frame
    BY <1>0 DEF Bridge
  <2>2. Settled(s) /\ \A k \in s.wrote \cup s.refused : k \notin B /\ k \notin M
    BY <1>1, <2>1 DEF Good, Sound, Settled
  <2> QED
    BY <1>2, <1>6, <2>1, <2>2 DEF Settled
<1>18. Armed(d)
  <2> SUFFICES ASSUME NEW i \in DOMAIN q
               PROVE  /\ d.box[q[i].frame] = "in_flight" /\ q[i].frame \notin d.wrote
                      /\ q[i].frame >= first => d.rec[q[i].frame] = "in_flight"
                      /\ q[i].child <= d.child
    BY DEF Armed
  <2>1. CASE i \in DOMAIN p
    <3>1. /\ s.box[p[i].frame] = "in_flight" /\ p[i].frame \notin s.wrote
          /\ p[i].frame >= first => s.rec[p[i].frame] = "in_flight"
          /\ p[i].child <= s.child
      BY <2>1 DEF Good, Sound, Armed
    <3> QED
      BY <1>1, <1>2, <1>6, <1>9, <1>10, <2>1, <3>1
  <2>2. CASE i > Len(p)
    <3>1. q[i].frame \in T /\ q[i].child = s.child /\ s.child <= s.child
      BY <1>0, <1>9, <2>2 DEF Bridge
    <3> QED
      BY <1>1, <1>2, <1>6, <1>11, <1>12, <3>1
  <2> QED
    BY <1>9, <2>1, <2>2
<1>19. ASSUME NEW i \in DOMAIN q, NEW j \in DOMAIN q, i < j, q[j].frame >= first
       PROVE  q[i].frame < q[j].frame
  <2>1. CASE i > Len(p)
    BY <1>9, <1>19, <2>1
  <2>2. CASE i \in DOMAIN p /\ j \in DOMAIN p
    BY <1>9, <1>19, <2>2 DEF Good, Sound, Ordered
  <2>3. CASE i \in DOMAIN p /\ j > Len(p)
    <3>1. q[j].frame \in Frame /\ s.rec[q[j].frame] = "pending"
      BY <1>1, <1>9, <1>11, <1>12, <1>19, <2>3
    <3> QED
      BY <1>9, <2>3, <3>1 DEF Good, Sound, Ordered
  <2> QED
    BY <1>9, <2>1, <2>2, <2>3
<1>20. Ordered(d)
  <2>1. ASSUME NEW i \in DOMAIN q, NEW j \in d.wrote, q[i].frame >= first
        PROVE  j < q[i].frame
    <3>1. CASE i \in DOMAIN p
      BY <1>6, <1>9, <2>1, <3>1 DEF Good, Sound, Ordered
    <3>2. CASE i > Len(p)
      <4>1. q[i].frame \in Frame /\ s.rec[q[i].frame] = "pending"
        BY <1>1, <1>9, <1>11, <1>12, <2>1, <3>2
      <4> QED
        BY <1>6, <4>1 DEF Good, Sound, Ordered
    <3> QED
      BY <1>9, <3>1, <3>2
  <2> QED
    BY <1>14, <1>19, <2>1 DEF Ordered
<1>21. Distinct(d)
  <2>1. ASSUME NEW i \in DOMAIN q, NEW j \in DOMAIN q, i < j
        PROVE  q[i].frame # q[j].frame
    <3>1. CASE i > Len(p)
      <4>1. q[i].frame < q[j].frame /\ q[i].frame \in Int
        <5>1. d.timers \in Seq(Timer)
          BY <1>7 DEF Later
        <5> QED
          BY <1>1, <1>9, <2>1, <3>1 DEF Frame
      <4> QED
        BY <4>1
    <3>2. CASE i \in DOMAIN p /\ j \in DOMAIN p
      BY <1>9, <2>1, <3>2 DEF Good, Sound, Distinct
    <3>3. CASE i \in DOMAIN p /\ j > Len(p)
      BY <1>1, <1>9, <1>10, <3>3
    <3> QED
      BY <1>9, <3>1, <3>2, <3>3
  <2>2. \A i, j \in DOMAIN q : i # j => i < j \/ j < i
    BY <1>9
  <2> QED
    BY <2>1, <2>2 DEF Distinct
<1>22. Counted(d, n, f)
  <2>1. Pending(s) \in SUBSET B /\ B \in SUBSET Frame
    BY <1>1 DEF Good, Sound, Indexed, Pending
  <2>2. Cardinality(Pending(s)) <= Cardinality(B) /\ Cardinality(B) \in Nat /\ Cardinality(Pending(s)) \in Nat
    BY <2>1, PartSmaller, FramesFinite
  <2>3. s.count \in Nat /\ s.count <= n /\ ("dequeue" \notin f => s.count = Cardinality(Pending(s)))
    BY <1>0 DEF Good, Sound, Counted, Bridge
  <2>4. Cardinality(Pending(d)) = 0
    BY <1>14, FS_EmptySet
  <2> QED
    BY <1>8, <2>2, <2>3, <2>4 DEF Counted
<1>23. BodiesHeld(d)
  BY <1>4, <1>6 DEF Good, Sound, BodiesHeld
<1>24. Doomed(d, f)
  <2> SUFFICES ASSUME ids \/ "withdraw" \notin f, NEW k \in Frame, "not_written" \in d.grave[k], ~Excepted(f, k)
               PROVE  k \notin d.wrote /\ \A i \in DOMAIN q : q[i].frame # k
    BY <1>14 DEF Doomed
  <2>1. CASE k \in B /\ k \notin T
    BY <1>6, <1>9, <1>10, <1>11, <2>1
  <2>2. CASE k \notin B
    <3>1. k \notin s.wrote /\ \A i \in DOMAIN p : p[i].frame # k
      BY <1>3, <2>2 DEF Good, Sound, Doomed
    <3> QED
      BY <1>1, <1>6, <1>9, <2>2, <3>1
  <2>3. CASE k \in T
    <3>1. k \in B /\ k >= first
      BY <1>1, <1>13, <2>3 DEF Excepted, Frame
    <3>2. s.rec[k] = "pending" /\ "not_written" \in s.grave[k]
      BY <1>3, <1>12, <2>3, <3>1
    <3>3. Stale(k) \/ (ids /\ IsCr(k) /\ BodyOf(k) \in s.unwritten)
      BY <3>2 DEF Good, Sound, Doomed
    <3> QED
      BY <1>5, <2>3, <3>2, <3>3
  <2> QED
    BY <2>1, <2>2, <2>3
<1>25. Kept(d, G, {})
  <2>1. Kept(s, G, {}) /\ Unsent(s, n)
    BY DEF Good, Sound
  <2> SUFFICES ASSUME NEW k \in G \ {}
               PROVE  k \in d.wrote \cup d.refused \cup Live(d) \/ d.grave[k] # {}
    BY DEF Kept
  <2>2. k \in Frame
    OBVIOUS
  <2> QED
    BY <1>1, <1>2, <1>3, <1>6, <2>1, <2>2 DEF Kept, Live
<1>26. Good(d, n, f, G, {})
  BY <1>0, <1>15, <1>16, <1>17, <1>18, <1>20, <1>21, <1>22, <1>23, <1>24, <1>25 DEF Good, Sound
<1>27. ASSUME ids, s.child = 1, Answering(f), NEW j \in Frame, j >= first, j <= n, ~IsCr(j)
       PROVE  j \in d.wrote \/ d.box[j] = "pending" \/ j \in d.unwritten \/ OnTimer(d, j)
  <2>1. j \in s.wrote \/ s.box[j] = "pending" \/ j \in s.unwritten \/ OnTimer(s, j)
    BY <1>27 DEF Running, Accounted
  <2>2. CASE j \in B
    <3>1. CASE j \in T
      BY <1>9, <3>1 DEF OnTimer
    <3>2. CASE j \notin T
      <4>1. j \in M
        BY <1>1, <1>27, <2>2, <3>2 DEF Answering
      <4> QED
        BY <1>4, <1>12, <1>27, <2>2, <4>1
    <3> QED
      BY <3>1, <3>2
  <2>3. CASE OnTimer(s, j)
    BY <1>9, <2>3 DEF OnTimer
  <2> QED
    BY <1>1, <1>4, <1>6, <2>1, <2>2, <2>3
<1>28. ASSUME ids, s.child = 1, Answering(f), NEW i \in DOMAIN q, IsCr(q[i].frame)
       PROVE  BodyOf(q[i].frame) \notin d.unwritten
  <2> DEFINE k == q[i].frame
  <2>1. k \in Frame /\ BodyOf(k) \in Int /\ BodyOf(k) + 1 = k /\ BodyOf(k) < k
    BY <1>1, <1>9, <1>10, SMTT(30) DEF Frame, BodyOf
  <2>2. CASE i \in DOMAIN p
    <3>1. k = p[i].frame /\ BodyOf(k) \notin s.unwritten
      BY <1>9, <1>28, <2>2 DEF Running, Accounted
    <3>2. ASSUME BodyOf(k) \in M
          PROVE  FALSE
      <4>1. BodyOf(k) \in B /\ BodyOf(k) \in Frame
        BY <1>1, <3>2
      <4>2. BodyOf(k) >= first
        BY <1>13, <1>28, <2>1, <4>1 DEF Answering
      <4>3. s.rec[BodyOf(k)] = "pending"
        BY <1>12, <4>1, <4>2
      <4>4. p[i].frame < BodyOf(k)
        BY <2>2, <4>1, <4>3 DEF Good, Sound, Ordered
      <4> QED
        BY <2>1, <3>1, <4>4
    <3> QED
      BY <1>4, <3>1, <3>2
  <2>3. CASE i > Len(p)
    <3>1. k \in T /\ k \in B
      BY <1>1, <1>9, <2>3
    <3>2. k >= first
      BY <1>13, <1>28, <2>1, <3>1 DEF Answering
    <3>3. s.rec[k] = "pending"
      BY <1>12, <3>1, <3>2
    <3>4. BodyOf(k) \in d.unwritten => BodyOf(k) \in s.held
      BY <1>5, <1>28, <3>1, <3>3
    <3>5. BodyOf(k) \in s.held => BodyOf(k) + 1 \in s.refused
      BY <1>28 DEF Good, Sound, BodiesHeld
    <3> QED
      BY <1>11, <2>1, <3>1, <3>4, <3>5
  <2> QED
    BY <1>9, <2>2, <2>3
<1>29. Running(d, n, f, {})
  <2>1. Own(d)
    BY <1>14 DEF Own
  <2>2. Accounted(d, n, f, {})
    BY <1>6, <1>27, <1>28 DEF Accounted
  <2> QED
    BY <2>1, <2>2 DEF Running
<1> QED
  BY <1>14, <1>26, <1>29

\* Flags do not matter.
LEMMA AlikeGood ==
  ASSUME NEW n, NEW f, NEW G, NEW X, NEW s, Sound(s, n, f, G, X),
         NEW t, Alike(s, t), Counted(t, n, f), t.queuedBody # 0 => ~IsCr(t.queuedBody)
  PROVE  Good(t, n, f, G, X) /\ (Running(s, n, f, X) => Running(t, n, f, X))
<1>0. /\ t \in Bridge
      /\ t.box = s.box /\ t.grave = s.grave /\ t.refused = s.refused /\ t.wrote = s.wrote
      /\ t.rec = s.rec /\ t.held = s.held /\ t.unwritten = s.unwritten
      /\ t.timers = s.timers /\ t.child = s.child
  BY DEF Alike
<1>1. Unsent(t, n) /\ Indexed(t, f) /\ Settled(t)
  BY <1>0 DEF Good, Sound, Unsent, Indexed, Settled, Live
<1>2. Armed(t) /\ Distinct(t) /\ BodiesHeld(t)
  BY <1>0 DEF Good, Sound, Armed, Distinct, BodiesHeld
<1>3. Doomed(t, f) /\ Ordered(t)
  BY <1>0 DEF Good, Sound, Doomed, Ordered
<1>4. Kept(t, G, X)
  BY <1>0 DEF Good, Sound, Kept, Live
<1>5. Running(s, n, f, X) => Running(t, n, f, X)
  BY <1>0 DEF Running, Own, Accounted, OnTimer
<1> QED
  BY <1>0, <1>1, <1>2, <1>3, <1>4, <1>5 DEF Good, Sound

\* Rows are dequeued, and the process ends or the next dequeue fails.
LEMMA TakesSound ==
  ASSUME NEW n, NEW f, NEW G \in SUBSET Frame, NEW s, Sound(s, n, f, G, {}),
         NEW S \in SUBSET Waiting(s), NEW t, Takes(s, t, S)
  PROVE  /\ Sound(t, n, f, G, {}) /\ Pending(t) \subseteq Pending(s)
         /\ Own(s) => Own(t)
<1>0. /\ s \in Bridge /\ t \in Bridge
      /\ \A k \in Frame : t.box[k] = IF k \in S THEN "in_flight" ELSE s.box[k]
      /\ \A k \in Frame : t.rec[k] = IF k \in S /\ s.rec[k] # "none" THEN "in_flight" ELSE s.rec[k]
      /\ t.grave = s.grave /\ t.refused = s.refused /\ t.wrote = s.wrote /\ t.held = s.held
      /\ t.unwritten = s.unwritten /\ t.queuedBody = s.queuedBody
      /\ t.timers = s.timers /\ t.child = s.child
  BY DEF Sound, Takes
<1>1. S \subseteq Frame /\ \A k \in S : s.box[k] = "pending"
  BY DEF Waiting
<1>2. \A i \in DOMAIN s.timers : s.timers[i].frame \in Frame /\ s.timers[i].frame \notin S
  BY <1>0, <1>1, TimersTyped DEF Sound, Armed
<1>3. Unsent(t, n) /\ Indexed(t, f) /\ Settled(t)
  <2>1. Unsent(t, n)
    BY <1>0, <1>1 DEF Sound, Unsent
  <2>2. Indexed(t, f)
    BY <1>0, <1>1 DEF Sound, Indexed, Live
  <2>3. Settled(t)
    BY <1>0, <1>1 DEF Sound, Settled, Bridge
  <2> QED
    BY <2>1, <2>2, <2>3
<1>4. Armed(t) /\ Distinct(t) /\ BodiesHeld(t)
  BY <1>0, <1>2 DEF Sound, Armed, Distinct, BodiesHeld
<1>5. Doomed(t, f) /\ Ordered(t)
  BY <1>0 DEF Sound, Doomed, Ordered
<1>6. Kept(t, G, {})
  BY <1>0, <1>1 DEF Sound, Kept, Live
<1>7. Pending(t) \subseteq Pending(s) /\ (Own(s) => Own(t))
  BY <1>0, <1>1 DEF Pending, Own
<1> QED
  BY <1>0, <1>3, <1>4, <1>5, <1>6, <1>7 DEF Sound

\* Frame n is under way: it has arrived and left no trace yet.
Arriving(s, n, f, G) ==
  /\ Good(s, n, f, G, {n}) /\ Running(s, n, f, {n})
  /\ Unsent(s, n - 1) /\ Counted(s, n - 1, f) /\ n \in Frame /\ n >= first

\* The frame that arrives comes after all that is written or on a timer.
LEMMA ArrivingIs ==
  ASSUME NEW n, NEW f, NEW G, NEW s, Arriving(s, n, f, G)
  PROVE  /\ s.box[n] = "none" /\ s.rec[n] = "none" /\ s.grave[n] = {}
         /\ n \notin s.wrote /\ n \notin s.refused /\ n \notin s.held
         /\ \A k \in s.wrote : k < n
         /\ \A i \in DOMAIN s.timers : s.timers[i].frame \in Frame /\ s.timers[i].frame < n
<1>1. n \in Frame /\ n \in Int /\ n > n - 1 /\ s \in Bridge /\ Unsent(s, n - 1)
  BY DEF Arriving, Good, Sound, Frame
<1>2. /\ s.box[n] = "none" /\ s.rec[n] = "none" /\ s.grave[n] = {}
      /\ n \notin s.wrote /\ n \notin s.refused /\ n \notin s.held
  BY <1>1 DEF Unsent
<1>3. \A k \in Frame : k < n \/ k > n - 1
  BY <1>1 DEF Frame
<1>4. \A k \in s.wrote : k < n
  BY <1>1, <1>3 DEF Unsent, Bridge
<1>5. \A i \in DOMAIN s.timers : s.timers[i].frame \in Frame /\ s.timers[i].frame < n
  <2> TAKE i \in DOMAIN s.timers
  <2>1. s.timers[i].frame \in Frame /\ s.box[s.timers[i].frame] = "in_flight"
    BY <1>1, TimersTyped DEF Arriving, Good, Sound, Armed
  <2> QED
    BY <1>1, <1>3, <2>1 DEF Unsent
<1> QED
  BY <1>2, <1>4, <1>5

\* A frame that is parked is accounted for by its row and its record.
LEMMA ParkedGood ==
  ASSUME ids \in BOOLEAN, first \in Nat, NEW n, NEW f, NEW G \in SUBSET Frame, NEW s, Arriving(s, n, f, G)
  PROVE  Good(Parked(s, n), n, f, G, {}) /\ Running(Parked(s, n), n, f, {})
<1> DEFINE t == Parked(s, n)
           qb == IF IsCr(n) \/ ids THEN 0 ELSE n
<1>0. s \in Bridge /\ n \in Frame /\ n \in Nat /\ n >= first
  BY DEF Arriving, Good, Sound, Frame
<1>1. s.count \in Nat /\ s.count <= n - 1 /\ s.count + 1 \in 0..2 * MaxInject
  <2>1. s.count \in Nat /\ s.count <= n - 1
    BY <1>0 DEF Arriving, Counted, Bridge
  <2> QED
    BY <1>0, <2>1 DEF Frame
<1>2. t = [s EXCEPT !.box[n] = "pending", !.rec[n] = "pending", !.count = s.count + 1,
            !.queuedBody = qb, !.refusedBody = FALSE]
  BY DEF Parked
<1>3. qb \in 0..2 * MaxInject /\ (qb # 0 => ~IsCr(qb))
  BY <1>0 DEF Frame
<1> HIDE DEF qb, t
<1>4. t \in Bridge
  BY <1>0, <1>1, <1>2, <1>3 DEF Bridge
<1>5. /\ \A k \in Frame : t.box[k] = IF k = n THEN "pending" ELSE s.box[k]
      /\ \A k \in Frame : t.rec[k] = IF k = n THEN "pending" ELSE s.rec[k]
      /\ t.grave = s.grave /\ t.refused = s.refused /\ t.wrote = s.wrote /\ t.held = s.held
      /\ t.unwritten = s.unwritten /\ t.queuedBody = qb /\ t.count = s.count + 1
      /\ t.timers = s.timers /\ t.child = s.child
  BY <1>0, <1>2 DEF Bridge
<1>6. /\ s.box[n] = "none" /\ s.rec[n] = "none" /\ s.grave[n] = {}
      /\ n \notin s.wrote /\ n \notin s.refused /\ n \notin s.held
      /\ \A k \in s.wrote : k < n
      /\ \A i \in DOMAIN s.timers : s.timers[i].frame \in Frame /\ s.timers[i].frame < n
  BY ArrivingIs
<1>7. Sound(s, n, f, G, {n}) /\ Running(s, n, f, {n}) /\ Counted(s, n - 1, f)
  BY DEF Arriving, Good
<1>8. \A i \in DOMAIN s.timers : s.timers[i].frame # n
  BY <1>0, <1>6
<1>9. Unsent(t, n)
  BY <1>0, <1>5, <1>7 DEF Sound, Unsent
<1>10. Indexed(t, f)
  BY <1>0, <1>5, <1>7 DEF Sound, Indexed, Live
<1>11. Settled(t)
  <2>1. s.wrote \subseteq Frame /\ s.refused \subseteq Frame
    BY <1>0 DEF Bridge
  <2>2. Settled(s)
    BY <1>7 DEF Sound
  <2>3. ASSUME NEW k \in s.wrote
        PROVE  t.box[k] # "pending" /\ t.rec[k] = "none" /\ k \notin s.refused
    <3>1. k \in Frame /\ k # n
      BY <1>6, <2>1
    <3>2. t.box[k] = s.box[k] /\ t.rec[k] = s.rec[k]
      BY <1>5, <3>1
    <3> QED
      BY <2>2, <3>2 DEF Settled
  <2>4. \A k \in s.refused : t.box[k] = "none"
    BY <1>5, <1>6, <2>1, <2>2 DEF Settled
  <2> QED
    BY <1>5, <2>3, <2>4 DEF Settled
<1>12. Armed(t) /\ Distinct(t)
  BY <1>5, <1>6, <1>7, <1>8 DEF Sound, Armed, Distinct
<1>13. BodiesHeld(t)
  BY <1>3, <1>5, <1>7 DEF Sound, BodiesHeld
<1>14. Doomed(t, f)
  BY <1>5, <1>6, <1>7 DEF Sound, Doomed
<1>15. Ordered(t)
  BY <1>5, <1>6, <1>7 DEF Sound, Ordered
<1>16. Kept(t, G, {})
  BY <1>0, <1>5, <1>7 DEF Sound, Kept, Live
<1>17. Counted(t, n, f)
  <2>1. Pending(t) = Pending(s) \cup {n} /\ n \notin Pending(s) /\ Pending(s) \in SUBSET Frame
    <3>1. \A k \in Frame : k \in Pending(t) <=> k \in Pending(s) \/ k = n
      BY <1>5 DEF Pending
    <3> QED
      BY <1>0, <1>6, <3>1 DEF Pending
  <2>2. IsFiniteSet(Pending(s)) /\ Cardinality(Pending(s)) \in Nat
    BY <2>1, FramesFinite
  <2>3. Cardinality(Pending(t)) = Cardinality(Pending(s)) + 1
    BY <2>1, <2>2, FS_AddElement
  <2> QED
    BY <1>0, <1>1, <1>5, <1>7, <2>2, <2>3 DEF Counted
<1>18. Running(t, n, f, {})
  <2>1. Own(t)
    BY <1>5, <1>7 DEF Running, Own
  <2>2. Accounted(t, n, f, {})
    BY <1>5, <1>7 DEF Running, Accounted, OnTimer
  <2> QED
    BY <2>1, <2>2 DEF Running
<1>19. Good(t, n, f, G, {})
  BY <1>4, <1>9, <1>10, <1>11, <1>12, <1>13, <1>14, <1>15, <1>16, <1>17 DEF Good, Sound
<1> QED
  BY <1>18, <1>19 DEF t

\* Frames that wait, on no timer, go to the dead letter as not written.
LEMMA BuriesSound ==
  ASSUME NEW n, NEW f, NEW G \in SUBSET Frame, NEW s, Sound(s, n, f, G, {}),
         NEW S \in SUBSET Frame, NEW M \in SUBSET S, NEW q, Buries(s, q, S, M, "not_written"),
         \A k \in S : s.box[k] # "none",
         \A k \in S : \A i \in DOMAIN s.timers : s.timers[i].frame # k,
         \A k \in S : k \notin s.wrote,
         ids \/ "withdraw" \notin f =>
           \A k \in S \ M : s.rec[k] = "pending" =>
             Stale(k) \/ (ids /\ IsCr(k) /\ BodyOf(k) \in q.unwritten)
  PROVE  Sound(q, n, f, G, {}) /\ Pending(q) = Pending(s) \ M
<1>0. /\ s \in Bridge /\ q \in Bridge
      /\ \A k \in Frame : q.box[k] = IF k \in M THEN "done" ELSE s.box[k]
      /\ \A k \in Frame : q.rec[k] = IF k \in M THEN "none" ELSE s.rec[k]
  BY DEF Sound, Buries
<1>1. \A k \in Frame : /\ s.grave[k] \subseteq q.grave[k]
                       /\ q.grave[k] \subseteq s.grave[k] \cup {"not_written"}
                       /\ k \notin S => q.grave[k] = s.grave[k]
                       /\ k \in M => "not_written" \in q.grave[k]
  BY DEF Buries
<1>2. q.held = s.held \ M /\ s.unwritten \subseteq q.unwritten
  BY DEF Buries
<1>3. /\ q.refused = s.refused /\ q.wrote = s.wrote /\ q.queuedBody = s.queuedBody
      /\ q.timers = s.timers /\ q.child = s.child
  BY DEF Buries
<1>4. /\ \A i \in DOMAIN s.timers : s.timers[i].frame \in Frame /\ s.timers[i].frame \notin M
      /\ s.wrote \subseteq Frame /\ s.refused \subseteq Frame
  <2>1. s.wrote \subseteq Frame /\ s.refused \subseteq Frame
    BY <1>0 DEF Bridge
  <2>2. \A i \in DOMAIN s.timers : s.timers[i].frame \in Frame
    BY <1>0, TimersTyped
  <2> QED
    BY <2>1, <2>2
<1>5. \A k \in S : k \in Frame /\ k \notin s.refused /\ ~(k > n)
  <2>1. Settled(s) /\ Unsent(s, n)
    BY DEF Sound
  <2> QED
    BY <2>1 DEF Settled, Unsent
<1>6. Unsent(q, n)
  <2>1. Unsent(s, n)
    BY DEF Sound
  <2>2. \A k \in Frame : k > n => k \notin S /\ k \notin M
    BY <1>5
  <2> QED
    BY <1>0, <1>1, <1>2, <1>3, <2>1, <2>2 DEF Unsent
<1>7. Indexed(q, f)
  BY <1>0 DEF Sound, Indexed, Live
<1>8. Settled(q)
  <2>1. Settled(s)
    BY DEF Sound
  <2>2. ASSUME NEW k \in s.wrote
        PROVE  q.box[k] # "pending" /\ q.rec[k] = "none" /\ k \notin s.refused
    BY <1>0, <1>4, <2>1 DEF Settled
  <2>3. \A k \in s.refused : q.box[k] = "none"
    BY <1>0, <1>4, <1>5, <2>1 DEF Settled
  <2> QED
    BY <1>3, <2>2, <2>3 DEF Settled
<1>9. Armed(q) /\ Distinct(q)
  BY <1>0, <1>3, <1>4 DEF Sound, Armed, Distinct
<1>10. BodiesHeld(q)
  BY <1>2, <1>3 DEF Sound, BodiesHeld
<1>11. Doomed(q, f)
  <2>1. Doomed(s, f)
    BY DEF Sound
  <2> SUFFICES ASSUME ids \/ "withdraw" \notin f, NEW k \in Frame, "not_written" \in q.grave[k], ~Excepted(f, k)
               PROVE  /\ k \notin q.wrote
                      /\ \A i \in DOMAIN q.timers : q.timers[i].frame # k
                      /\ q.rec[k] = "pending" => Stale(k) \/ (ids /\ IsCr(k) /\ BodyOf(k) \in q.unwritten)
    BY DEF Doomed
  <2>2. CASE "not_written" \in s.grave[k]
    BY <1>0, <1>2, <1>3, <2>1, <2>2 DEF Doomed
  <2>3. CASE "not_written" \notin s.grave[k]
    <3>1. k \in S
      BY <1>1, <2>3
    <3> QED
      BY <1>0, <1>3, <3>1
  <2> QED
    BY <2>2, <2>3
<1>12. Ordered(q)
  BY <1>0, <1>3 DEF Sound, Ordered
<1>13. Kept(q, G, {})
  <2>1. Kept(s, G, {})
    BY DEF Sound
  <2> QED
    BY <1>0, <1>1, <1>3, <2>1 DEF Kept, Live
<1>14. Pending(q) = Pending(s) \ M
  BY <1>0 DEF Pending
<1> QED
  BY <1>0, <1>6, <1>7, <1>8, <1>9, <1>10, <1>11, <1>12, <1>13, <1>14 DEF Sound

\* A body that is buried while it waits, or whose submit was refused, stays accounted for.
LEMMA BuriesRunning ==
  ASSUME first \in Nat, NEW n, NEW f, NEW G, NEW X, NEW s, Sound(s, n, f, G, {}), Running(s, n, f, X),
         NEW S \in SUBSET Frame, NEW M \in SUBSET S, NEW c, NEW q, Buries(s, q, S, M, c),
         ids => \A k \in M : s.rec[k] = "pending" \/ k + 1 \in s.refused
  PROVE  Running(q, n, f, X)
<1>0. /\ s \in Bridge
      /\ \A k \in Frame : q.box[k] = IF k \in M THEN "done" ELSE s.box[k]
      /\ \A k \in Frame : q.rec[k] = IF k \in M THEN "none" ELSE s.rec[k]
      /\ s.unwritten \subseteq q.unwritten
      /\ \A k \in q.unwritten : k \in s.unwritten \/ k \in M
      /\ ids => \A k \in M : ~IsCr(k) /\ s.rec[k] # "none" => k \in q.unwritten
      /\ q.wrote = s.wrote /\ q.timers = s.timers /\ q.child = s.child
  BY DEF Sound, Buries
<1>1. Own(s) /\ Accounted(s, n, f, X) /\ Ordered(s) /\ Armed(s) /\ Settled(s)
  BY DEF Sound, Running
<1>2. Own(q)
  BY <1>0, <1>1 DEF Own
<1>3. ASSUME ids, s.child = 1, Answering(f), NEW j \in Frame \ X, j >= first, j <= n, ~IsCr(j)
      PROVE  j \in q.wrote \/ q.box[j] = "pending" \/ j \in q.unwritten \/ OnTimer(q, j)
  <2>1. j \in s.wrote \/ s.box[j] = "pending" \/ j \in s.unwritten \/ OnTimer(s, j)
    BY <1>1, <1>3 DEF Accounted
  <2>2. OnTimer(s, j) => OnTimer(q, j)
    BY <1>0 DEF OnTimer
  <2>3. s.box[j] = "pending" /\ j \in M => j \in q.unwritten
    BY <1>0, <1>1, <1>3 DEF Own
  <2> QED
    BY <1>0, <1>3, <2>1, <2>2, <2>3
<1>4. ASSUME ids, s.child = 1, Answering(f), NEW i \in DOMAIN s.timers, IsCr(s.timers[i].frame)
      PROVE  BodyOf(s.timers[i].frame) \notin q.unwritten
  <2> DEFINE k == s.timers[i].frame
  <2>1. k \in Frame /\ k \in Int /\ BodyOf(k) \in Int /\ BodyOf(k) + 1 = k /\ ~(k < BodyOf(k))
    BY <1>0, TimersTyped DEF Frame, BodyOf
  <2>2. BodyOf(k) \notin s.unwritten
    BY <1>1, <1>4 DEF Accounted
  <2>3. ASSUME BodyOf(k) \in M
        PROVE  FALSE
    <3>1. CASE s.rec[BodyOf(k)] = "pending"
      BY <1>1, <2>1, <2>3, <3>1 DEF Ordered
    <3>2. CASE k \in s.refused
      BY <1>1, <3>2 DEF Armed, Settled
    <3> QED
      BY <1>4, <2>1, <2>3, <3>1, <3>2
  <2> QED
    BY <1>0, <2>2, <2>3
<1>5. Accounted(q, n, f, X)
  BY <1>0, <1>3, <1>4 DEF Accounted
<1> QED
  BY <1>2, <1>5 DEF Running

\* A submit and the body it names are different kinds of frame.
LEMMA Parity ==
  ASSUME NEW k \in Frame, IsCr(k)
  PROVE  BodyOf(k) \in Frame /\ ~IsCr(BodyOf(k)) /\ BodyOf(k) + 1 = k
<1>1. k \in 1..2 * MaxInject /\ k % 2 = 0
  BY DEF Frame, IsCr
<1>2. k # 1 /\ (k - 1) % 2 # 0
  BY <1>1
<1> QED
  BY <1>1, <1>2 DEF Frame, IsCr, BodyOf

\* Frame n is refused with a receipt.
Refuses(s, t, n) ==
  /\ t \in Bridge
  /\ t.box = s.box /\ t.rec = s.rec /\ t.grave = s.grave /\ t.wrote = s.wrote /\ t.held = s.held
  /\ t.timers = s.timers /\ t.child = s.child /\ t.count = s.count
  /\ t.refused = s.refused \cup {n}
  /\ s.unwritten \subseteq t.unwritten /\ t.unwritten \subseteq s.unwritten \cup {n}
  /\ ids /\ ~IsCr(n) => n \in t.unwritten
  /\ t.queuedBody # 0 => ~IsCr(t.queuedBody)

\* A refused body is known to be unwritten; a refused submit needs no body.
LEMMA RefusedGood ==
  ASSUME first \in Nat, NEW n, NEW f, NEW G \in SUBSET Frame, NEW s, Arriving(s, n, f, G),
         NEW t, Refuses(s, t, n)
  PROVE  Good(t, n, f, G, {}) /\ Running(t, n, f, {})
<1>0. /\ t \in Bridge
      /\ t.box = s.box /\ t.rec = s.rec /\ t.grave = s.grave /\ t.wrote = s.wrote /\ t.held = s.held
      /\ t.timers = s.timers /\ t.child = s.child /\ t.count = s.count
      /\ t.refused = s.refused \cup {n}
      /\ s.unwritten \subseteq t.unwritten /\ t.unwritten \subseteq s.unwritten \cup {n}
      /\ ids /\ ~IsCr(n) => n \in t.unwritten
      /\ t.queuedBody # 0 => ~IsCr(t.queuedBody)
  BY DEF Refuses
<1>1. /\ s.box[n] = "none" /\ s.rec[n] = "none" /\ s.grave[n] = {}
      /\ n \notin s.wrote /\ n \notin s.refused /\ n \notin s.held
      /\ \A k \in s.wrote : k < n
      /\ \A i \in DOMAIN s.timers : s.timers[i].frame \in Frame /\ s.timers[i].frame < n
  BY ArrivingIs
<1>2. n \in Frame /\ n \in Int /\ ~(n > n)
  BY DEF Arriving, Frame
<1>3. /\ Sound(s, n, f, G, {n}) /\ Running(s, n, f, {n}) /\ Counted(s, n, f)
  BY DEF Arriving, Good
<1>4. Unsent(t, n)
  BY <1>0, <1>2, <1>3 DEF Sound, Unsent
<1>5. Indexed(t, f) /\ Armed(t) /\ Distinct(t) /\ Ordered(t)
  <2>1. Indexed(t, f)
    BY <1>0, <1>3 DEF Sound, Indexed, Live
  <2> QED
    BY <1>0, <1>3, <2>1 DEF Sound, Armed, Distinct, Ordered
<1>6. Settled(t) /\ BodiesHeld(t) /\ Doomed(t, f)
  <2>1. Settled(t)
    BY <1>0, <1>1, <1>3 DEF Sound, Settled
  <2>2. BodiesHeld(t)
    BY <1>0, <1>3 DEF Sound, BodiesHeld
  <2> QED
    BY <1>0, <1>3, <2>1, <2>2 DEF Sound, Doomed
<1>7. Kept(t, G, {})
  BY <1>0, <1>3 DEF Sound, Kept, Live
<1>8. Counted(t, n, f)
  BY <1>0, <1>3 DEF Counted, Pending
<1>9. ASSUME ids, s.child = 1, Answering(f), NEW j \in Frame, j >= first, j <= n, ~IsCr(j)
      PROVE  j \in t.wrote \/ t.box[j] = "pending" \/ j \in t.unwritten \/ OnTimer(t, j)
  <2>1. CASE j = n
    BY <1>0, <1>9, <2>1
  <2>2. CASE j # n
    <3>1. j \in s.wrote \/ s.box[j] = "pending" \/ j \in s.unwritten \/ OnTimer(s, j)
      BY <1>3, <1>9, <2>2 DEF Running, Accounted
    <3> QED
      BY <1>0, <3>1 DEF OnTimer
  <2> QED
    BY <2>1, <2>2
<1>10. ASSUME ids, s.child = 1, Answering(f), NEW i \in DOMAIN s.timers, IsCr(s.timers[i].frame)
       PROVE  BodyOf(s.timers[i].frame) \notin t.unwritten
  <2>1. BodyOf(s.timers[i].frame) \notin s.unwritten
    BY <1>3, <1>10 DEF Running, Accounted
  <2>2. s.timers[i].frame \in Int /\ s.timers[i].frame < n
    BY <1>1 DEF Frame
  <2>3. BodyOf(s.timers[i].frame) # n
    BY <1>2, <2>2 DEF BodyOf
  <2> QED
    BY <1>0, <2>1, <2>3
<1>11. Running(t, n, f, {})
  <2>1. Own(t)
    BY <1>0, <1>3 DEF Running, Own
  <2>2. Accounted(t, n, f, {})
    BY <1>0, <1>9, <1>10 DEF Accounted
  <2> QED
    BY <2>1, <2>2 DEF Running
<1> QED
  BY <1>0, <1>4, <1>5, <1>6, <1>7, <1>8, <1>11 DEF Good, Sound

\* The body of a refused submit is withdrawn with it, or held.
LEMMA WithdrawGood ==
  ASSUME ids \in BOOLEAN, first \in Nat, NEW n \in Frame, NEW f, NEW G \in SUBSET Frame, NEW s,
         Good(s, n, f, G, {}), Running(s, n, f, {}), n \in s.refused, IsCr(n),
         NEW fault
  PROVE  LET t == WithdrawPairedBody(s, n, fault) IN
         Good(t, n, f, G, {}) /\ Running(t, n, f, {}) /\ t.wrote = s.wrote
<1> DEFINE body == IF ids THEN BodyOf(n) ELSE s.queuedBody
           q == Quarantine(s, {body}, "not_written", "withdraw", fault)
           t == WithdrawPairedBody(s, n, fault)
<1>0. s \in Bridge /\ Sound(s, n, f, G, {}) /\ Counted(s, n, f) /\ n \in Nat
  BY DEF Good, Sound, Frame
<1>1. body # 0 => body \in Frame /\ ~IsCr(body)
  <2>1. CASE ids
    BY <2>1, Parity
  <2>2. CASE ~ids
    <3>1. s.queuedBody \in 0..2 * MaxInject /\ (s.queuedBody # 0 => ~IsCr(s.queuedBody))
      BY <1>0 DEF Sound, BodiesHeld, Bridge
    <3> QED
      BY <2>2, <3>1 DEF Frame
  <2> QED
    BY <2>1, <2>2
<1>2. t = IF body = 0 \/ s.rec[body] \notin {"pending", "in_flight"} THEN s
          ELSE IF s.rec[body] = "pending" /\ ~Throws(fault, "withdraw", body)
               THEN [q EXCEPT !.count = q.count - 1]
               ELSE [s EXCEPT !.held = s.held \cup {body}]
  BY DEF WithdrawPairedBody
<1>3. ids => body + 1 = n
  BY Parity
<1>4. {body} \ Moved({body}, "withdraw", fault) = {} \/ Throws(fault, "withdraw", body)
  BY DEF Moved
<1> HIDE DEF t
<1>5. CASE body # 0 /\ s.rec[body] = "pending" /\ ~Throws(fault, "withdraw", body)
  <2>0. body \in Frame /\ t = [q EXCEPT !.count = q.count - 1] /\ Moved({body}, "withdraw", fault) = {body}
    BY <1>1, <1>2, <1>5 DEF Moved
  <2> HIDE DEF body
  <2>1. Buries(s, q, {body}, {body}, "not_written")
    <3>1. {body} \in SUBSET Frame /\ "not_written" \in Certainty
      BY <2>0 DEF Certainty
    <3> QED
      BY <1>0, <2>0, <3>1, QuarantineBuries
  <2> HIDE DEF q
  <2>2. s.box[body] = "pending" /\ body \notin s.wrote
    <3>1. s.box[body] = "pending"
      BY <1>0, <1>5, <2>0 DEF Sound, Indexed
    <3> QED
      BY <1>0, <3>1 DEF Sound, Settled
  <2>3. \A i \in DOMAIN s.timers : s.timers[i].frame # body
    BY <1>0, <2>2 DEF Sound, Armed
  <2>4. Sound(q, n, f, G, {}) /\ Pending(q) = Pending(s) \ {body}
    <3> DEFINE S == {body}
    <3>1. /\ S \in SUBSET Frame /\ S \in SUBSET S
          /\ \A k \in S \ S : s.rec[k] = "pending" =>
               Stale(k) \/ (ids /\ IsCr(k) /\ BodyOf(k) \in q.unwritten)
      BY <2>0
    <3>2. /\ \A k \in S : s.box[k] # "none"
          /\ \A k \in S : \A i \in DOMAIN s.timers : s.timers[i].frame # k
          /\ \A k \in S : k \notin s.wrote
      BY <2>2, <2>3
    <3>3. Buries(s, q, S, S, "not_written")
      BY <2>1
    <3> HIDE DEF S
    <3>4. Sound(q, n, f, G, {}) /\ Pending(q) = Pending(s) \ S
      BY <1>0, <3>1, <3>2, <3>3, BuriesSound, SMTT(40)
    <3> QED
      BY <3>4 DEF S
  <2>5. Running(q, n, f, {})
    BY <1>0, <1>5, <2>0, <2>1, BuriesRunning
  <2>6. Pending(s) \in SUBSET Frame /\ body \in Pending(s)
    BY <1>5, <2>0 DEF Pending
  <2>7. Cardinality(Pending(q)) = Cardinality(Pending(s)) - 1 /\ Cardinality(Pending(q)) \in Nat
    <3>1. IsFiniteSet(Pending(s))
      BY <2>6, FramesFinite
    <3>2. Pending(q) \in SUBSET Frame
      BY <2>4, <2>6
    <3> QED
      BY <2>4, <2>6, <3>1, <3>2, FramesFinite, FS_RemoveElement
  <2>8. q \in Bridge /\ q.count = s.count /\ q.wrote = s.wrote /\ s.count \in 0..2 * MaxInject
    BY <1>0, <2>1 DEF Buries, Bridge
  <2>9. s.count - 1 \in 0..2 * MaxInject /\ Cardinality(Pending(q)) <= s.count - 1 /\ s.count - 1 <= n
        /\ ("dequeue" \notin f => s.count - 1 = Cardinality(Pending(q)))
    <3>1. Cardinality(Pending(s)) <= s.count /\ s.count <= n
          /\ ("dequeue" \notin f => s.count = Cardinality(Pending(s)))
      BY <1>0 DEF Counted
    <3>2. Cardinality(Pending(s)) \in Nat
      BY <2>6, FramesFinite
    <3> QED
      BY <1>0, <2>7, <2>8, <3>1, <3>2
  <2>10. t \in Bridge /\ t.count = s.count - 1 /\ t.wrote = s.wrote
    BY <2>0, <2>8, <2>9 DEF Bridge
  <2>11. Alike(q, t) /\ t.queuedBody = q.queuedBody /\ t.rec = q.rec
    BY <2>0, <2>8, <2>10 DEF Alike, Bridge
  <2>12. Counted(t, n, f)
    BY <2>9, <2>10, <2>11 DEF Counted, Pending
  <2>13. t.queuedBody # 0 => ~IsCr(t.queuedBody)
    BY <2>4, <2>11 DEF Sound, BodiesHeld
  <2>14. Good(t, n, f, G, {}) /\ Running(t, n, f, {})
    BY <2>4, <2>5, <2>11, <2>12, <2>13, AlikeGood
  <2> QED
    BY <2>10, <2>14 DEF t
<1>6. CASE body # 0 /\ s.rec[body] # "none" /\ (s.rec[body] = "in_flight" \/ Throws(fault, "withdraw", body))
  <2>0. body \in Frame /\ ~IsCr(body) /\ t = [s EXCEPT !.held = s.held \cup {body}]
    <3>1. s.rec[body] \in {"none", "pending", "in_flight"}
      BY <1>0, <1>1, <1>6 DEF Bridge
    <3> QED
      BY <1>1, <1>2, <1>6, <3>1
  <2> HIDE DEF body
  <2>1. t \in Bridge
    <3> DEFINE h == s.held \cup {body}
    <3>1. h \in SUBSET Frame
      BY <1>0, <2>0 DEF Bridge
    <3>2. t = [s EXCEPT !.held = h]
      BY <2>0
    <3> HIDE DEF h, t
    <3> QED
      BY <1>0, <3>1, <3>2 DEF Bridge
  <2>2. /\ t.box = s.box /\ t.grave = s.grave /\ t.refused = s.refused /\ t.wrote = s.wrote
        /\ t.rec = s.rec /\ t.unwritten = s.unwritten /\ t.held = s.held \cup {body}
        /\ t.timers = s.timers /\ t.child = s.child /\ t.count = s.count /\ t.queuedBody = s.queuedBody
    BY <1>0, <2>0 DEF Bridge
  <2>3. ~(body > n)
    BY <1>0, <1>6, <2>0 DEF Sound, Unsent
  <2>4. Unsent(t, n)
    BY <1>0, <2>2, <2>3 DEF Sound, Unsent
  <2>5. BodiesHeld(t)
    BY <1>0, <1>3, <2>0, <2>2 DEF Sound, BodiesHeld
  <2>6. Indexed(t, f) /\ Settled(t) /\ Armed(t) /\ Distinct(t)
    BY <1>0, <2>2 DEF Sound, Indexed, Settled, Armed, Distinct, Live
  <2>7. Doomed(t, f) /\ Ordered(t) /\ Kept(t, G, {})
    <3>1. Kept(t, G, {})
      BY <1>0, <2>2 DEF Sound, Kept, Live
    <3> QED
      BY <1>0, <2>2, <3>1 DEF Sound, Doomed, Ordered
  <2>8. Counted(t, n, f)
    BY <1>0, <2>2 DEF Counted, Pending
  <2>9. Running(t, n, f, {})
    BY <2>2 DEF Running, Own, Accounted, OnTimer
  <2> QED
    BY <2>1, <2>2, <2>4, <2>5, <2>6, <2>7, <2>8, <2>9 DEF Good, Sound, t
<1>7. CASE body = 0 \/ s.rec[body] = "none"
  <2>1. t = s
    BY <1>2, <1>7
  <2> QED
    BY <2>1 DEF t
<1>8. body = 0 \/ s.rec[body] = "none" \/ s.rec[body] = "pending" \/ s.rec[body] = "in_flight"
  BY <1>0, <1>1 DEF Bridge
<1> QED
  BY <1>5, <1>6, <1>7, <1>8

\* A frame whose enqueue throws is refused, a submit with its body.
LEMMA NotParkedGood ==
  ASSUME ids \in BOOLEAN, first \in Nat, NEW n, NEW f, NEW G \in SUBSET Frame, NEW s, Arriving(s, n, f, G),
         NEW fault
  PROVE  LET t == NotParked(s, n, fault) IN
         Good(t, n, f, G, {}) /\ Running(t, n, f, {}) /\ t.wrote = s.wrote
<1> DEFINE r == [s EXCEPT !.refused = s.refused \cup {n},
                     !.unwritten = s.unwritten \cup IF IsCr(n) \/ ~ids THEN {} ELSE {n},
                     !.adjacent = s.adjacent \/ ~IsCr(n),
                     !.refusedBody = ~IsCr(n) /\ ~ids]
           w == IF IsCr(n) THEN WithdrawPairedBody(r, n, fault) ELSE r
           t == NotParked(s, n, fault)
<1>0. s \in Bridge /\ n \in Frame /\ (s.queuedBody # 0 => ~IsCr(s.queuedBody))
  BY DEF Arriving, Good, Sound, BodiesHeld
<1>1. t = [w EXCEPT !.queuedBody = 0]
  BY DEF NotParked
<1>2. r \in Bridge
  <2>1. (s.adjacent \/ ~IsCr(n)) \in BOOLEAN /\ (~IsCr(n) /\ ~ids) \in BOOLEAN
    OBVIOUS
  <2>2. s.refused \cup {n} \in SUBSET Frame /\ s.unwritten \cup (IF IsCr(n) \/ ~ids THEN {} ELSE {n}) \in SUBSET Frame
    BY <1>0 DEF Bridge
  <2> QED
    BY <1>0, <2>1, <2>2 DEF Bridge
<1>3. Refuses(s, r, n)
  <2>1. /\ r.box = s.box /\ r.rec = s.rec /\ r.grave = s.grave /\ r.wrote = s.wrote /\ r.held = s.held
        /\ r.timers = s.timers /\ r.child = s.child /\ r.count = s.count /\ r.queuedBody = s.queuedBody
        /\ r.refused = s.refused \cup {n}
        /\ r.unwritten = s.unwritten \cup (IF IsCr(n) \/ ~ids THEN {} ELSE {n})
    BY <1>0 DEF Bridge
  <2> HIDE DEF r
  <2> QED
    BY <1>0, <1>2, <2>1 DEF Refuses
<1>4. r.wrote = s.wrote /\ n \in r.refused
  BY <1>3 DEF Refuses
<1> HIDE DEF r
<1>5. Good(r, n, f, G, {}) /\ Running(r, n, f, {})
  BY <1>3, RefusedGood
<1>6. Good(w, n, f, G, {}) /\ Running(w, n, f, {}) /\ w.wrote = s.wrote
  <2>1. CASE IsCr(n)
    BY <1>0, <1>4, <1>5, <2>1, WithdrawGood
  <2> QED
    BY <1>4, <1>5, <2>1
<1> HIDE DEF w, t
<1>7. w \in Bridge /\ Sound(w, n, f, G, {}) /\ Counted(w, n, f)
  BY <1>6 DEF Good, Sound
<1>8. t.queuedBody = 0 /\ t.count = w.count /\ Alike(w, t) /\ t.wrote = s.wrote
  <2>1. 0 \in 0..2 * MaxInject
    OBVIOUS
  <2>2. t \in Bridge
    BY <1>1, <1>7, <2>1 DEF Bridge
  <2> QED
    BY <1>1, <1>6, <1>7, <2>2 DEF Bridge, Alike
<1>9. Counted(t, n, f)
  BY <1>7, <1>8 DEF Counted, Pending, Alike
<1>10. Good(t, n, f, G, {}) /\ Running(t, n, f, {})
  BY <1>6, <1>7, <1>8, <1>9, AlikeGood
<1> QED
  BY <1>8, <1>10 DEF t

\* Parked or not, the frame is accounted for.
LEMMA EnqueueGood ==
  ASSUME ids \in BOOLEAN, first \in Nat, NEW n, NEW f, NEW G \in SUBSET Frame, NEW s, Arriving(s, n, f, G),
         NEW fault
  PROVE  LET t == Enqueue(s, n, fault) IN
         Good(t, n, f, G, {}) /\ Running(t, n, f, {}) /\ t.wrote = s.wrote
<1>1. Parked(s, n).wrote = s.wrote
  <2>1. s \in Bridge
    BY DEF Arriving, Good, Sound
  <2> QED
    BY <2>1 DEF Parked, Bridge
<1> QED
  BY <1>1, ParkedGood, NotParkedGood DEF Enqueue

\* A flag or the count changes.
LEMMA TickGood ==
  ASSUME NEW n, NEW f, NEW G, NEW s, Good(s, n, f, G, {}),
         NEW t, t = [s EXCEPT !.tick = TRUE] \/ t = [s EXCEPT !.tick = FALSE]
  PROVE  /\ Good(t, n, f, G, {}) /\ (Running(s, n, f, {}) => Running(t, n, f, {}))
         /\ t.wrote = s.wrote /\ Pending(t) = Pending(s) /\ t.count = s.count
         /\ Waiting(t) = Waiting(s)
<1>1. s \in Bridge /\ Sound(s, n, f, G, {}) /\ Counted(s, n, f)
  BY DEF Good, Sound
<1>2. Alike(s, t) /\ t.count = s.count /\ t.queuedBody = s.queuedBody
  <2>1. CASE t = [s EXCEPT !.tick = TRUE]
    BY <1>1, <2>1 DEF Bridge, Alike
  <2>2. CASE t = [s EXCEPT !.tick = FALSE]
    BY <1>1, <2>2 DEF Bridge, Alike
  <2> QED
    BY <2>1, <2>2
<1>3. Pending(t) = Pending(s) /\ Waiting(t) = Waiting(s) /\ t.wrote = s.wrote
  BY <1>2 DEF Pending, Alike, Waiting
<1>4. Counted(t, n, f)
  BY <1>1, <1>2, <1>3 DEF Counted
<1>5. t.queuedBody # 0 => ~IsCr(t.queuedBody)
  BY <1>1, <1>2 DEF Sound, BodiesHeld
<1>6. Good(t, n, f, G, {}) /\ (Running(s, n, f, {}) => Running(t, n, f, {}))
  BY <1>1, <1>2, <1>4, <1>5, AlikeGood
<1> QED
  BY <1>2, <1>3, <1>6

\* What a flush does to the dispatch order is said by Ordered; it writes nothing itself, and
\* nothing is pending after it unless a dequeue threw.
Flushed(s, t, n, f, G, K) ==
  /\ Good(t, n, f, G, {}) /\ Running(t, n, f, {}) /\ t.wrote = s.wrote
  /\ "dequeue" \notin K => Pending(t) = {}

\* Whatever throws, a flush keeps the invariant.
LEMMA FlushGood ==
  ASSUME ids \in BOOLEAN, first \in Nat, NEW n \in Nat, NEW f, NEW G \in SUBSET Frame, NEW s,
         Good(s, n, f, G, {}), Running(s, n, f, {}), NEW fault, NEW K \in SUBSET f, fault.kinds = K
  PROVE  Flushed(s, Flush(s, fault), n, f, G, K)
<1> DEFINE idle == [s EXCEPT !.tick = FALSE]
           B == Waiting(s)
           torn == {k \in B : Throws(fault, "dequeue", k)}
           P == {k \in B : k < Min(torn)}
           t == Flush(s, fault)
<1>0. /\ Good(idle, n, f, G, {}) /\ Running(idle, n, f, {}) /\ idle.wrote = s.wrote
      /\ Pending(idle) = Pending(s) /\ Waiting(idle) = B /\ idle.count = s.count
  BY TickGood
<1>1. t = IF s.count = 0 THEN idle
          ELSE IF B = {} THEN [idle EXCEPT !.count = 0]
          ELSE IF torn # {} THEN InFlight(idle, P)
          ELSE Deliver(idle, B, fault)
  BY DEF Flush, Waiting
<1>2. torn # {} => "dequeue" \in K
  BY DEF Throws
<1>3. P \in SUBSET B
  OBVIOUS
<1> HIDE DEF idle, B, torn, P, t
<1>4. idle \in Bridge /\ Sound(idle, n, f, G, {}) /\ Counted(idle, n, f)
  BY <1>0 DEF Good, Sound
<1>5. Pending(s) \in SUBSET Frame /\ Pending(s) \in SUBSET B
  BY <1>0, <1>4 DEF Pending, Sound, Indexed, Waiting
<1>6. CASE s.count = 0
  <2>1. Cardinality(Pending(s)) = 0
    <3>1. Cardinality(Pending(s)) <= 0 /\ Cardinality(Pending(s)) \in Nat
      BY <1>0, <1>4, <1>5, <1>6, FramesFinite DEF Counted
    <3> QED
      BY <3>1
  <2>2. Pending(s) = {}
    BY <1>5, <2>1, FramesFinite, FS_EmptySet
  <2> QED
    BY <1>0, <1>1, <1>6, <2>2 DEF t, Flushed
<1>7. CASE s.count # 0 /\ B = {}
  <2>1. t = [idle EXCEPT !.count = 0]
    BY <1>1, <1>7
  <2>2. Alike(idle, t) /\ t.count = 0 /\ t.queuedBody = idle.queuedBody
    <3>1. 0 \in 0..2 * MaxInject
      OBVIOUS
    <3>2. t \in Bridge
      BY <1>4, <2>1, <3>1 DEF Bridge
    <3> QED
      BY <1>4, <2>1, <3>2 DEF Bridge, Alike
  <2>3. Pending(t) = {}
    BY <1>0, <1>5, <1>7, <2>2 DEF Alike, Pending
  <2>4. Cardinality(Pending(t)) = 0
    BY <2>3, FS_EmptySet
  <2>5. Counted(t, n, f)
    BY <2>2, <2>4 DEF Counted
  <2>6. t.queuedBody # 0 => ~IsCr(t.queuedBody)
    BY <1>4, <2>2 DEF Sound, BodiesHeld
  <2>7. Good(t, n, f, G, {}) /\ Running(t, n, f, {})
    BY <1>0, <1>4, <2>2, <2>5, <2>6, AlikeGood
  <2>8. t.wrote = s.wrote
    BY <1>0, <2>2 DEF Alike
  <2> QED
    BY <2>3, <2>7, <2>8 DEF t, Flushed
<1>8. CASE s.count # 0 /\ B # {} /\ torn # {}
  <2>1. t = InFlight(idle, P) /\ "dequeue" \in f
    BY <1>1, <1>2, <1>8
  <2>2. P \in SUBSET Frame /\ P \in SUBSET Waiting(idle)
    BY <1>0, <1>3 DEF Waiting
  <2>3. Takes(idle, t, P)
    BY <1>4, <2>1, <2>2, InFlightTakes
  <2>4. Sound(t, n, f, G, {}) /\ Pending(t) \subseteq Pending(idle) /\ Own(t)
    BY <1>0, <1>4, <2>2, <2>3, TakesSound DEF Running
  <2>5. t.count = s.count /\ t.wrote = s.wrote
    BY <1>0, <2>3 DEF Takes
  <2>6. Counted(t, n, f)
    <3>1. Cardinality(Pending(t)) <= Cardinality(Pending(idle))
      BY <1>0, <1>5, <2>4, PartSmaller
    <3>2. Cardinality(Pending(t)) \in Nat /\ Cardinality(Pending(idle)) \in Nat /\ s.count \in Nat
      <4>1. Pending(t) \in SUBSET Frame /\ Pending(idle) \in SUBSET Frame
        BY DEF Pending
      <4>2. idle.count \in 0..2 * MaxInject
        BY <1>4 DEF Bridge
      <4> QED
        BY <1>0, <4>1, <4>2, FramesFinite
    <3> QED
      BY <1>0, <1>4, <2>1, <2>5, <3>1, <3>2 DEF Counted
  <2>7. Running(t, n, f, {})
    BY <2>1, <2>4 DEF Running, Accounted, Answering
  <2> QED
    BY <1>2, <1>8, <2>4, <2>5, <2>6, <2>7 DEF Good, t, Flushed
<1>9. CASE s.count # 0 /\ B # {} /\ torn = {}
  <2>1. t = Deliver(idle, Waiting(idle), fault)
    BY <1>0, <1>1, <1>9
  <2>2. PICK T, M : Delivers(idle, t, Waiting(idle), T, M, K)
    BY <1>4, <2>1, DeliverIs
  <2>0. Good(idle, n, f, G, {}) /\ Running(idle, n, f, {})
    BY <1>0
  <2>3. Good(t, n, f, G, {}) /\ Running(t, n, f, {}) /\ Pending(t) = {}
    BY <2>0, <2>2, DeliverGood
  <2>4. t.wrote = s.wrote
    BY <1>0, <2>2 DEF Delivers
  <2> QED
    BY <2>3, <2>4 DEF t, Flushed
<1> QED
  BY <1>6, <1>7, <1>8, <1>9

\* What a step from s to t may write: nothing but frame n, after all that is written; and a
\* submit only after its body, as long as the calls that would drop that body succeed.
Writes(s, t, f) ==
  \A k \in t.wrote \ s.wrote :
    /\ Excepted(f, k) \/ \A j \in s.wrote : j < k
    /\ ids /\ IsCr(k) /\ s.child = 1 /\ Answering(f) => BodyOf(k) \in s.wrote

\* A direct write finds nothing ahead of it.
LEMMA WriteDirectGood ==
  ASSUME ids \in BOOLEAN, first \in Nat, first % 2 = 1,
         NEW n, NEW f, NEW G \in SUBSET Frame, NEW s, Arriving(s, n, f, G),
         ~Behind(s, n)
  PROVE  LET t == WriteDirect(s, n) IN
         Good(t, n, f, G, {}) /\ Running(t, n, f, {}) /\ Writes(s, t, f) /\ Pending(t) = {}
<1> DEFINE t == WriteDirect(s, n)
<1>0. /\ s \in Bridge /\ n \in Frame /\ n \in Nat /\ n >= first /\ Own(s)
      /\ Sound(s, n, f, G, {n}) /\ Running(s, n, f, {n}) /\ Counted(s, n, f)
      /\ (s.queuedBody # 0 => ~IsCr(s.queuedBody))
  BY DEF Arriving, Good, Sound, Running, Frame, BodiesHeld
<1>1. /\ s.box[n] = "none" /\ s.rec[n] = "none" /\ s.grave[n] = {}
      /\ n \notin s.wrote /\ n \notin s.refused /\ n \notin s.held
      /\ \A k \in s.wrote : k < n
  BY ArrivingIs
<1>2. s.timers = <<>> /\ Pending(s) = {}
  <2>1. s.timers = <<>> /\ ~(s.count > 0)
    BY DEF Behind
  <2>2. Pending(s) \in SUBSET Frame /\ s.count \in Nat
    BY <1>0 DEF Pending, Bridge
  <2>3. Cardinality(Pending(s)) = 0
    BY <1>0, <2>1, <2>2, FramesFinite DEF Counted
  <2> QED
    BY <2>1, <2>2, <2>3, FramesFinite, FS_EmptySet
<1>3. \A k \in Frame : s.rec[k] # "pending"
  BY <1>2 DEF Pending
<1>4. CASE LoneSubmit(s, n)
  <2>1. t = [s EXCEPT !.refused = s.refused \cup {n}] /\ IsCr(n)
    BY <1>4 DEF WriteDirect, LoneSubmit
  <2> HIDE DEF t
  <2>2. t \in Bridge
    BY <1>0, <2>1 DEF Bridge
  <2>3. Refuses(s, t, n) /\ t.wrote = s.wrote
    BY <1>0, <2>1, <2>2 DEF Bridge, Refuses
  <2>4. Good(t, n, f, G, {}) /\ Running(t, n, f, {})
    BY <2>3, RefusedGood
  <2>5. Pending(t) = {}
    BY <1>2, <2>3 DEF Pending, Refuses
  <2> QED
    BY <2>3, <2>4, <2>5 DEF Writes, t
<1>5. CASE ~LoneSubmit(s, n)
  <2>1. t = [s EXCEPT !.wrote = s.wrote \cup {n}, !.adjacent = FALSE, !.queuedBody = 0, !.refusedBody = FALSE,
                      !.ready = s.ready /\ IsCr(n)]
    <3>1. t = [Written(s, n) EXCEPT !.queuedBody = 0, !.refusedBody = FALSE, !.ready = @ /\ IsCr(n)]
      BY <1>5 DEF WriteDirect
    <3> QED
      BY <1>0, <3>1 DEF Written, Bridge
  <2> HIDE DEF t
  <2>2. t \in Bridge
    <3>1. s.wrote \cup {n} \in SUBSET Frame /\ 0 \in 0..2 * MaxInject /\ (s.ready /\ IsCr(n)) \in BOOLEAN
      BY <1>0 DEF Bridge
    <3> QED
      BY <1>0, <2>1, <3>1 DEF Bridge
  <2>3. /\ t.box = s.box /\ t.rec = s.rec /\ t.grave = s.grave /\ t.refused = s.refused /\ t.held = s.held
        /\ t.unwritten = s.unwritten /\ t.timers = s.timers /\ t.child = s.child /\ t.count = s.count
        /\ t.wrote = s.wrote \cup {n} /\ t.queuedBody = 0
    BY <1>0, <2>1 DEF Bridge
  <2>4. Pending(t) = {} /\ DOMAIN t.timers = {}
    BY <1>2, <2>3 DEF Pending
  <2>5. Unsent(t, n)
    BY <1>0, <2>3 DEF Sound, Unsent
  <2>6. Indexed(t, f) /\ Armed(t) /\ Distinct(t) /\ BodiesHeld(t)
    <3>1. Indexed(t, f)
      BY <1>0, <2>3 DEF Sound, Indexed, Live
    <3>2. Armed(t) /\ Distinct(t)
      BY <2>4 DEF Armed, Distinct
    <3> QED
      BY <1>0, <2>3, <3>1, <3>2 DEF Sound, BodiesHeld
  <2>7. Settled(t)
    <3>1. Settled(s)
      BY <1>0 DEF Sound
    <3>2. \A k \in t.wrote : t.box[k] # "pending" /\ t.rec[k] = "none" /\ k \notin t.refused
      BY <1>1, <2>3, <3>1 DEF Settled
    <3> QED
      BY <2>3, <3>1, <3>2 DEF Settled
  <2>8. Doomed(t, f)
    BY <1>0, <1>1, <1>3, <2>3, <2>4 DEF Sound, Doomed
  <2>9. Ordered(t)
    BY <1>3, <2>3, <2>4 DEF Ordered
  <2>10. Kept(t, G, {})
    BY <1>0, <2>3 DEF Sound, Kept, Live
  <2>11. Counted(t, n, f)
    BY <1>0, <1>2, <2>3, <2>4 DEF Counted
  <2>12. Good(t, n, f, G, {})
    BY <2>2, <2>5, <2>6, <2>7, <2>8, <2>9, <2>10, <2>11 DEF Good, Sound
  <2>13. Running(t, n, f, {})
    <3>1. Own(t)
      BY <1>0, <2>3 DEF Own
    <3>2. ASSUME ids, s.child = 1, Answering(f), NEW j \in Frame, j >= first, j <= n, ~IsCr(j)
          PROVE  j \in t.wrote \/ t.box[j] = "pending" \/ j \in t.unwritten \/ OnTimer(t, j)
      <4>1. CASE j = n
        BY <2>3, <4>1
      <4>2. CASE j # n
        <5>1. j \in s.wrote \/ s.box[j] = "pending" \/ j \in s.unwritten \/ OnTimer(s, j)
          BY <1>0, <3>2, <4>2 DEF Running, Accounted
        <5> QED
          BY <2>3, <5>1 DEF OnTimer
      <4> QED
        BY <4>1, <4>2
    <3>3. Accounted(t, n, f, {})
      BY <2>3, <2>4, <3>2 DEF Accounted
    <3> QED
      BY <3>1, <3>3 DEF Running
  <2>14. ASSUME ids, IsCr(n), s.child = 1, Answering(f)
         PROVE  BodyOf(n) \in s.wrote
    <3>1. BodyOf(n) \in Frame /\ ~IsCr(BodyOf(n)) /\ BodyOf(n) + 1 = n /\ BodyOf(n) \in Int
      BY <1>0, <2>14, Parity DEF Frame
    <3>2. BodyOf(n) >= first /\ BodyOf(n) <= n /\ BodyOf(n) # n
      <4>1. n # first
        BY <2>14 DEF IsCr
      <4> QED
        BY <1>0, <3>1, <4>1
    <3>3. BodyOf(n) \in s.wrote \/ s.box[BodyOf(n)] = "pending" \/ BodyOf(n) \in s.unwritten \/ OnTimer(s, BodyOf(n))
      BY <1>0, <2>14, <3>1, <3>2 DEF Running, Accounted
    <3>4. s.box[BodyOf(n)] # "pending"
      BY <1>0, <1>3, <3>1, <3>2 DEF Own
    <3>5. BodyOf(n) \notin s.unwritten
      BY <1>5, <2>14 DEF LoneSubmit
    <3>6. ~OnTimer(s, BodyOf(n))
      BY <1>2 DEF OnTimer
    <3> QED
      BY <3>3, <3>4, <3>5, <3>6
  <2>15. Writes(s, t, f)
    BY <1>1, <2>3, <2>14 DEF Writes
  <2> QED
    BY <2>4, <2>12, <2>13, <2>15 DEF t
<1> QED
  BY <1>4, <1>5

\* The handler of a frame, with the tick that it leaves armed.
TickFor(s, f) == "dequeue" \notin f /\ Pending(s) # {} => s.tick

\* Whichever way the handler takes.
LEMMA HandleGood ==
  ASSUME ids \in BOOLEAN, first \in Nat, first % 2 = 1,
         NEW n, NEW f, NEW G \in SUBSET Frame, NEW s, Arriving(s, n, f, G), TickFor(s, f),
         NEW fault, NEW K \in SUBSET f, fault.kinds = K
  PROVE  LET t == Handle(s, n, fault) IN
         Good(t, n, f, G, {}) /\ Running(t, n, f, {}) /\ Writes(s, t, f) /\ TickFor(t, f)
<1> DEFINE t == Handle(s, n, fault)
           e == Enqueue(s, n, fault)
<1>0. s \in Bridge /\ n \in Nat /\ (s.queuedBody # 0 => ~IsCr(s.queuedBody))
  BY DEF Arriving, Good, Sound, Frame, BodiesHeld
<1>1. Good(e, n, f, G, {}) /\ Running(e, n, f, {}) /\ e.wrote = s.wrote
  BY EnqueueGood
<1>2. e \in Bridge
  BY <1>1 DEF Good, Sound
<1> HIDE DEF e
<1>3. CASE t = WriteDirect(s, n) /\ ~Behind(s, n)
  BY <1>3, WriteDirectGood DEF TickFor
<1>4. CASE t = [e EXCEPT !.tick = TRUE]
  <2>1. Good(t, n, f, G, {}) /\ Running(t, n, f, {}) /\ t.wrote = e.wrote
    <3> HIDE DEF t
    <3> QED
      BY <1>1, <1>4, TickGood
  <2>2. t.tick = TRUE
    BY <1>2, <1>4 DEF Bridge
  <2> HIDE DEF t
  <2>3. Writes(s, t, f) /\ TickFor(t, f)
    BY <1>1, <2>1, <2>2 DEF Writes, TickFor
  <2> QED
    BY <2>1, <2>3 DEF t
<1>5. CASE t = Flush(e, fault)
  <2>1. /\ Good(t, n, f, G, {}) /\ Running(t, n, f, {}) /\ t.wrote = e.wrote
        /\ "dequeue" \notin K => Pending(t) = {}
    <3>1. n \in Nat /\ Good(e, n, f, G, {}) /\ Running(e, n, f, {})
      BY <1>0, <1>1
    <3>2. Flushed(e, Flush(e, fault), n, f, G, K)
      BY <3>1, FlushGood
    <3> HIDE DEF t
    <3>3. Flushed(e, t, n, f, G, K)
      BY <1>5, <3>2
    <3> QED
      BY <3>3 DEF Flushed
  <2> HIDE DEF t
  <2>2. Writes(s, t, f) /\ TickFor(t, f)
    BY <1>1, <2>1 DEF Writes, TickFor
  <2> QED
    BY <2>1, <2>2 DEF t
<1>6. CASE t = [s EXCEPT !.refused = s.refused \cup {n}, !.refusedBody = FALSE] /\ IsCr(n)
  <2> HIDE DEF t
  <2>1. n \in Frame
    BY DEF Arriving
  <2>2. t \in Bridge
    BY <1>0, <1>6, <2>1 DEF Bridge
  <2>3. Refuses(s, t, n) /\ t.wrote = s.wrote /\ t.tick = s.tick
    BY <1>0, <1>6, <2>2 DEF Bridge, Refuses
  <2>4. Good(t, n, f, G, {}) /\ Running(t, n, f, {})
    BY <2>3, RefusedGood
  <2>5. Writes(s, t, f) /\ TickFor(t, f)
    BY <2>3 DEF Writes, TickFor, Refuses, Pending
  <2> QED
    BY <2>4, <2>5 DEF t
<1>7. \/ t = WriteDirect(s, n) /\ ~Behind(s, n)
      \/ t = [e EXCEPT !.tick = TRUE]
      \/ t = Flush(e, fault)
      \/ t = [s EXCEPT !.refused = s.refused \cup {n}, !.refusedBody = FALSE] /\ IsCr(n)
  BY DEF Handle, e
<1> QED
  BY <1>3, <1>4, <1>5, <1>6, <1>7

\* The tick's maintenance: records that expired go, with the submits of their bodies.
Maintained(s, t, n, f, G) ==
  Good(t, n, f, G, {}) /\ Running(t, n, f, {}) /\ t.wrote = s.wrote /\ t.tick = s.tick

\* The maintenance keeps the invariant, and the count with it.
LEMMA MaintainGood ==
  ASSUME ids \in BOOLEAN, first \in Nat, NEW n \in Nat, NEW f, NEW G \in SUBSET Frame, NEW s,
         Good(s, n, f, G, {}), Running(s, n, f, {}), NEW fault, NEW K \in SUBSET f, fault.kinds = K
  PROVE  Maintained(s, Maintain(s, fault), n, f, G)
<1> DEFINE expired == {k \in Pending(s) : Stale(k)}
           gone == {k \in expired : ~Throws(fault, "withdraw", k)}
           S == expired \cup {k \in Pending(s) : Paired(s, k, gone)}
           q == Quarantine(s, S, "not_written", "withdraw", fault)
           M == Moved(S, "withdraw", fault)
           t == Maintain(s, fault)
<1>0. s \in Bridge /\ Sound(s, n, f, G, {}) /\ Counted(s, n, f)
  BY DEF Good, Sound
<1>1. S \in SUBSET Pending(s) /\ S \in SUBSET Frame /\ M \in SUBSET S /\ gone \in SUBSET M
  BY DEF Moved, Pending
<1>2. t = [q EXCEPT !.count = Left(s, Pending(s) \ Pending(q))]
  BY DEF Maintain
<1>3. \A k \in S : Stale(k) \/ Paired(s, k, gone)
  OBVIOUS
<1>4. "withdraw" \notin f => M = S
  BY DEF Moved, Throws
<1>5. Buries(s, q, S, M, "not_written")
  <2>1. "not_written" \in Certainty
    BY DEF Certainty
  <2> HIDE DEF S
  <2> QED
    BY <1>0, <1>1, <2>1, QuarantineBuries
<1> HIDE DEF expired, gone, S, q, M, t
<1>6. \A k \in S : k \in Frame /\ s.rec[k] = "pending" /\ s.box[k] = "pending" /\ k \notin s.wrote
  <2>1. \A k \in S : k \in Frame /\ s.rec[k] = "pending" /\ s.box[k] = "pending"
    BY <1>0, <1>1 DEF Sound, Indexed, Pending
  <2> QED
    BY <1>0, <2>1 DEF Sound, Settled
<1>7. \A k \in S : \A i \in DOMAIN s.timers : s.timers[i].frame # k
  BY <1>0, <1>6 DEF Sound, Armed
<1>8. ASSUME ids \/ "withdraw" \notin f, NEW k \in S \ M
      PROVE  Stale(k) \/ (ids /\ IsCr(k) /\ BodyOf(k) \in q.unwritten)
  <2>1. ids
    BY <1>4, <1>8
  <2>2. CASE Paired(s, k, gone)
    <3>1. IsCr(k) /\ BodyOf(k) \in M
      BY <1>1, <2>1, <2>2 DEF Paired
    <3>2. ~IsCr(BodyOf(k)) /\ s.rec[BodyOf(k)] # "none"
      BY <1>1, <1>6, <3>1, Parity
    <3>3. BodyOf(k) \in q.unwritten
      BY <1>5, <2>1, <3>1, <3>2 DEF Buries
    <3> QED
      BY <2>1, <3>1, <3>3
  <2> QED
    BY <1>3, <2>2
<1>9. Sound(q, n, f, G, {}) /\ Pending(q) = Pending(s) \ M
  <2>1. /\ \A k \in S : s.box[k] # "none"
        /\ \A k \in S : k \notin s.wrote
    BY <1>6
  <2>2. ids \/ "withdraw" \notin f =>
           \A k \in S \ M : s.rec[k] = "pending" =>
             Stale(k) \/ (ids /\ IsCr(k) /\ BodyOf(k) \in q.unwritten)
    BY <1>8
  <2> QED
    BY <1>0, <1>1, <1>5, <1>7, <2>1, <2>2, BuriesSound
<1>10. Running(q, n, f, {})
  <2>1. ids => \A k \in M : s.rec[k] = "pending" \/ k + 1 \in s.refused
    BY <1>1, <1>6
  <2> QED
    BY <1>0, <1>1, <1>5, <2>1, BuriesRunning
<1>11. /\ Left(s, Pending(s) \ Pending(q)) = s.count - Cardinality(M)
       /\ Cardinality(Pending(q)) = Cardinality(Pending(s)) - Cardinality(M)
       /\ Cardinality(Pending(q)) \in Nat /\ Cardinality(M) \in Nat /\ Cardinality(Pending(s)) \in Nat
  <2>1. Pending(s) \in SUBSET Frame /\ M \in SUBSET Pending(s)
    BY <1>1 DEF Pending
  <2>2. Pending(s) \ Pending(q) = M /\ Pending(s) \cap M = M /\ M \in SUBSET Frame /\ Pending(q) \in SUBSET Frame
    BY <1>9, <2>1
  <2>3. IsFiniteSet(Pending(s)) /\ Cardinality(Pending(q)) \in Nat /\ Cardinality(M) \in Nat /\ Cardinality(Pending(s)) \in Nat
    BY <2>1, <2>2, FramesFinite
  <2>4. Cardinality(Pending(s) \ M) = Cardinality(Pending(s)) - Cardinality(M)
    <3> DEFINE P == Pending(s)
    <3> HIDE DEF P
    <3>1. IsFiniteSet(P) /\ P \cap M = M
      BY <2>2, <2>3 DEF P
    <3>2. Cardinality(P \ M) = Cardinality(P) - Cardinality(P \cap M)
      BY <3>1, FS_Difference
    <3> QED
      BY <3>1, <3>2 DEF P
  <2> QED
    BY <1>9, <2>2, <2>3, <2>4 DEF Left
<1>12. /\ s.count - Cardinality(M) \in 0..2 * MaxInject /\ s.count - Cardinality(M) <= n
       /\ Cardinality(Pending(q)) <= s.count - Cardinality(M)
       /\ "dequeue" \notin f => s.count - Cardinality(M) = Cardinality(Pending(q))
  <2>1. s.count \in 0..2 * MaxInject
    BY <1>0 DEF Bridge
  <2> QED
    BY <1>0, <1>11, <2>1 DEF Counted
<1>13. q \in Bridge /\ q.wrote = s.wrote /\ q.tick = s.tick
  BY <1>5 DEF Buries
<1>14. t \in Bridge
  BY <1>2, <1>11, <1>12, <1>13 DEF Bridge
<1>15. Alike(q, t) /\ t.count = s.count - Cardinality(M) /\ t.queuedBody = q.queuedBody /\ t.tick = s.tick /\ t.wrote = s.wrote
  BY <1>2, <1>11, <1>13, <1>14 DEF Bridge, Alike
<1>16. Counted(t, n, f)
  <2>1. Pending(t) = Pending(q)
    BY <1>15 DEF Pending, Alike
  <2> QED
    BY <1>12, <1>15, <2>1 DEF Counted
<1>17. t.queuedBody # 0 => ~IsCr(t.queuedBody)
  BY <1>9, <1>15 DEF Sound, BodiesHeld
<1>18. Good(t, n, f, G, {}) /\ Running(t, n, f, {})
  BY <1>9, <1>10, <1>15, <1>16, <1>17, AlikeGood
<1> QED
  BY <1>15, <1>18 DEF t, Maintained

\* A delivery timer fires: the child may be another one by now, the body may be held.
LEMMA TailFacts ==
  ASSUME NEW s \in Bridge, s.timers # <<>>
  PROVE  LET p == s.timers
             q == Tail(s.timers)
         IN  /\ 1 \in DOMAIN p /\ Head(p) = p[1] /\ p[1].frame \in Frame /\ q \in Seq(Timer)
             /\ \A i \in DOMAIN q : i + 1 \in DOMAIN p /\ q[i] = p[i + 1] /\ 1 < i + 1 /\ i \in Int
             /\ \A i \in DOMAIN p : i # 1 => i - 1 \in DOMAIN q /\ q[i - 1] = p[i] /\ i > 1
<1> DEFINE p == s.timers
           q == Tail(p)
<1>1. /\ p \in Seq(Timer) /\ DOMAIN p = 1..Len(p) /\ Len(p) \in Nat
      /\ \A i \in DOMAIN p : p[i].frame \in Frame
  BY TimersTyped
<1> HIDE DEF p
<1>2. p # <<>>
  BY DEF p
<1>3. Len(p) >= 1
  BY <1>1, <1>2
<1>4. Head(p) = p[1] /\ q \in Seq(Timer) /\ Len(q) = Len(p) - 1 /\ \A i \in 1..Len(q) : q[i] = p[i + 1]
  BY <1>1, <1>2, <1>3, HeadTailProperties
<1>5. DOMAIN q = 1..Len(q)
  BY <1>4
<1> HIDE DEF q
<1>6. \A i \in DOMAIN q : i + 1 \in DOMAIN p /\ q[i] = p[i + 1] /\ 1 < i + 1 /\ i \in Int
  BY <1>1, <1>3, <1>4, <1>5
<1>7. ASSUME NEW i \in DOMAIN p, i # 1
      PROVE  i - 1 \in DOMAIN q /\ q[i - 1] = p[i] /\ i > 1
  <2>1. i - 1 \in 1..Len(q) /\ (i - 1) + 1 = i /\ i > 1
    BY <1>1, <1>3, <1>4, <1>7
  <2> QED
    BY <1>4, <1>5, <2>1
<1>8. 1 \in DOMAIN p /\ p[1].frame \in Frame
  BY <1>1, <1>3
<1>9. /\ 1 \in DOMAIN p /\ Head(p) = p[1] /\ p[1].frame \in Frame /\ q \in Seq(Timer)
      /\ \A i \in DOMAIN q : i + 1 \in DOMAIN p /\ q[i] = p[i + 1] /\ 1 < i + 1 /\ i \in Int
      /\ \A i \in DOMAIN p : i # 1 => i - 1 \in DOMAIN q /\ q[i - 1] = p[i] /\ i > 1
  BY <1>4, <1>6, <1>7, <1>8
<1> QED
  BY <1>9 DEF p, q

\* The timer of frame k is taken off the list; k itself is under way.
Pops(s, t, k) ==
  /\ t \in Bridge /\ k = s.timers[1].frame /\ k \in Frame
  /\ t.box = s.box /\ t.grave = s.grave /\ t.refused = s.refused /\ t.wrote = s.wrote
  /\ t.rec = s.rec /\ t.held = s.held /\ t.unwritten = s.unwritten
  /\ t.child = s.child /\ t.count = s.count /\ t.queuedBody = s.queuedBody /\ t.tick = s.tick
  /\ 1 \in DOMAIN s.timers
  /\ \A i \in DOMAIN t.timers :
       i + 1 \in DOMAIN s.timers /\ t.timers[i] = s.timers[i + 1] /\ 1 < i + 1 /\ i \in Int
  /\ \A i \in DOMAIN s.timers :
       i # 1 => i - 1 \in DOMAIN t.timers /\ t.timers[i - 1] = s.timers[i] /\ i > 1

\* Taking the head of the queue does that.
LEMMA PopIs ==
  ASSUME NEW s \in Bridge, s.timers # <<>>
  PROVE  LET t == [s EXCEPT !.timers = Tail(s.timers)] IN Pops(s, t, Head(s.timers).frame)
<1> DEFINE q == Tail(s.timers)
           t == [s EXCEPT !.timers = q]
<1>1. /\ 1 \in DOMAIN s.timers /\ Head(s.timers) = s.timers[1] /\ s.timers[1].frame \in Frame /\ q \in Seq(Timer)
      /\ \A i \in DOMAIN q : i + 1 \in DOMAIN s.timers /\ q[i] = s.timers[i + 1] /\ 1 < i + 1 /\ i \in Int
      /\ \A i \in DOMAIN s.timers : i # 1 => i - 1 \in DOMAIN q /\ q[i - 1] = s.timers[i] /\ i > 1
  BY TailFacts
<1> HIDE DEF q
<1>2. t \in Bridge
  BY <1>1 DEF Bridge, Timer
<1>3. /\ t.box = s.box /\ t.grave = s.grave /\ t.refused = s.refused /\ t.wrote = s.wrote
      /\ t.rec = s.rec /\ t.held = s.held /\ t.unwritten = s.unwritten /\ t.timers = q
      /\ t.child = s.child /\ t.count = s.count /\ t.queuedBody = s.queuedBody /\ t.tick = s.tick
  BY DEF Bridge
<1> HIDE DEF t
<1>4. Pops(s, t, Head(s.timers).frame)
  BY <1>1, <1>2, <1>3 DEF Pops
<1> QED
  BY <1>4 DEF t, q

\* Without its timer the frame is the only one that may be unaccounted for.
LEMMA PopGood ==
  ASSUME NEW n, NEW f, NEW G, NEW s, Good(s, n, f, G, {}), NEW t, NEW k, Pops(s, t, k)
  PROVE  /\ Good(t, n, f, G, {})
         /\ Running(s, n, f, {}) => Running(t, n, f, {k})
<1>0. /\ t \in Bridge /\ k = s.timers[1].frame /\ k \in Frame
      /\ t.box = s.box /\ t.grave = s.grave /\ t.refused = s.refused /\ t.wrote = s.wrote
      /\ t.rec = s.rec /\ t.held = s.held /\ t.unwritten = s.unwritten
      /\ t.child = s.child /\ t.count = s.count /\ t.queuedBody = s.queuedBody
  BY DEF Pops
<1>1. /\ \A i \in DOMAIN t.timers :
           i + 1 \in DOMAIN s.timers /\ t.timers[i] = s.timers[i + 1] /\ i \in Int
      /\ \A i \in DOMAIN s.timers : i # 1 => i - 1 \in DOMAIN t.timers /\ t.timers[i - 1] = s.timers[i]
  BY DEF Pops
<1>2. Sound(s, n, f, G, {}) /\ Counted(s, n, f)
  BY DEF Good
<1>3. Unsent(t, n) /\ Indexed(t, f) /\ Settled(t)
  BY <1>0, <1>2 DEF Sound, Unsent, Indexed, Settled, Live
<1>4. Armed(t)
  BY <1>0, <1>1, <1>2 DEF Sound, Armed
<1>5. Distinct(t)
  <2>1. Distinct(s)
    BY <1>2 DEF Sound
  <2> SUFFICES ASSUME NEW i \in DOMAIN t.timers, NEW j \in DOMAIN t.timers, i # j
               PROVE  t.timers[i].frame # t.timers[j].frame
    BY DEF Distinct
  <2>2. i + 1 # j + 1 /\ i + 1 \in DOMAIN s.timers /\ j + 1 \in DOMAIN s.timers
    BY <1>1
  <2> QED
    BY <1>1, <2>1, <2>2 DEF Distinct
<1>6. BodiesHeld(t) /\ Doomed(t, f)
  <2>1. Doomed(s, f)
    BY <1>2 DEF Sound
  <2> QED
    BY <1>0, <1>1, <1>2, <2>1 DEF Sound, BodiesHeld, Doomed
<1>7. Ordered(t)
  <2>1. Ordered(s)
    BY <1>2 DEF Sound
  <2>2. ASSUME NEW i \in DOMAIN t.timers, NEW j \in DOMAIN t.timers, i < j, t.timers[j].frame >= first
        PROVE  t.timers[i].frame < t.timers[j].frame
    <3>1. i + 1 < j + 1 /\ i + 1 \in DOMAIN s.timers /\ j + 1 \in DOMAIN s.timers
      BY <1>1, <2>2
    <3> QED
      BY <1>1, <2>1, <2>2, <3>1 DEF Ordered
  <2> QED
    BY <1>0, <1>1, <2>1, <2>2 DEF Ordered
<1>8. Kept(t, G, {}) /\ Counted(t, n, f)
  BY <1>0, <1>2 DEF Sound, Kept, Live, Counted, Pending
<1>9. ASSUME Running(s, n, f, {})
      PROVE  Running(t, n, f, {k})
  <2>1. Own(t)
    BY <1>0, <1>9 DEF Running, Own
  <2>2. ASSUME NEW j \in Frame \ {k}, OnTimer(s, j)
        PROVE  OnTimer(t, j)
    <3>1. PICK i \in DOMAIN s.timers : s.timers[i].frame = j
      BY <2>2 DEF OnTimer
    <3>2. i # 1
      BY <1>0, <3>1
    <3> QED
      BY <1>1, <3>1, <3>2 DEF OnTimer
  <2>3. Accounted(t, n, f, {k})
    BY <1>0, <1>1, <1>9, <2>2 DEF Running, Accounted
  <2> QED
    BY <2>1, <2>3 DEF Running
<1> QED
  BY <1>0, <1>3, <1>4, <1>5, <1>6, <1>7, <1>8, <1>9 DEF Good, Sound

\* Frame k, which was first in the queue of timers, is written.
Strikes(t, w, k) ==
  /\ w \in Bridge /\ w.wrote = t.wrote \cup {k}
  /\ \A j \in Frame : w.box[j] = t.box[j] \/ (j = k /\ w.box[j] = "done")
  /\ \A j \in Frame : w.rec[j] = IF j = k THEN "none" ELSE t.rec[j]
  /\ w.grave = t.grave /\ w.refused = t.refused /\ w.held = t.held /\ w.unwritten = t.unwritten
  /\ w.timers = t.timers /\ w.child = t.child /\ w.count = t.count /\ w.queuedBody = t.queuedBody
  /\ w.tick = t.tick

\* Nothing that is pending or on a later timer comes before it, and its body is written.
LEMMA StrikeGood ==
  ASSUME first \in Nat, first % 2 = 1, NEW n \in Nat, NEW f, NEW G \in SUBSET Frame, NEW s,
         Good(s, n, f, G, {}), Running(s, n, f, {}),
         NEW t, NEW k, Pops(s, t, k), NEW w, Strikes(t, w, k)
  PROVE  Good(w, n, f, G, {}) /\ Running(w, n, f, {}) /\ Writes(s, w, f) /\ Pending(w) = Pending(s)
<1>0. /\ t \in Bridge /\ k = s.timers[1].frame /\ k \in Frame /\ 1 \in DOMAIN s.timers
      /\ t.box = s.box /\ t.grave = s.grave /\ t.refused = s.refused /\ t.wrote = s.wrote
      /\ t.rec = s.rec /\ t.held = s.held /\ t.unwritten = s.unwritten
      /\ t.child = s.child /\ t.count = s.count /\ t.queuedBody = s.queuedBody
      /\ \A i \in DOMAIN t.timers :
           i + 1 \in DOMAIN s.timers /\ t.timers[i] = s.timers[i + 1] /\ 1 < i + 1
      /\ \A i \in DOMAIN s.timers :
           i # 1 => i - 1 \in DOMAIN t.timers /\ t.timers[i - 1] = s.timers[i] /\ i > 1
  BY DEF Pops
<1>1. /\ w \in Bridge /\ w.wrote = s.wrote \cup {k}
      /\ \A j \in Frame : w.box[j] = s.box[j] \/ (j = k /\ w.box[j] = "done")
      /\ \A j \in Frame : w.rec[j] = IF j = k THEN "none" ELSE s.rec[j]
      /\ w.grave = s.grave /\ w.refused = s.refused /\ w.held = s.held /\ w.unwritten = s.unwritten
      /\ w.timers = t.timers /\ w.child = s.child /\ w.count = s.count /\ w.queuedBody = s.queuedBody
  BY <1>0 DEF Strikes
<1>2. Good(t, n, f, G, {}) /\ Running(t, n, f, {k})
  BY PopGood
<1>3. /\ Sound(s, n, f, G, {}) /\ Counted(s, n, f) /\ Sound(t, n, f, G, {}) /\ s \in Bridge
      /\ Own(s) /\ Accounted(s, n, f, {})
  BY <1>2 DEF Good, Sound, Running
<1>4. s.box[k] = "in_flight" /\ s.rec[k] # "pending" /\ k \notin s.wrote /\ k \notin s.refused
  <2>1. s.box[k] = "in_flight" /\ k \notin s.wrote
    BY <1>0, <1>3 DEF Sound, Armed
  <2>2. s.rec[k] # "pending"
    BY <1>0, <1>3, <2>1 DEF Sound, Indexed
  <2> QED
    BY <1>3, <2>1, <2>2 DEF Sound, Settled
<1>5. \A i \in DOMAIN t.timers : t.timers[i].frame # k /\ t.timers[i].frame \in Frame
  <2>1. Distinct(s) /\ \A i \in DOMAIN t.timers : t.timers[i].frame \in Frame
    BY <1>0, <1>3, TimersTyped DEF Sound
  <2>2. ASSUME NEW i \in DOMAIN t.timers
        PROVE  t.timers[i].frame # k
    <3>1. i + 1 \in DOMAIN s.timers /\ t.timers[i] = s.timers[i + 1] /\ i + 1 # 1
      BY <1>0
    <3> QED
      BY <1>0, <2>1, <3>1 DEF Distinct
  <2> QED
    BY <2>1, <2>2
<1>6. k >= first \/ ("recover" \in f /\ k < first)
  BY <1>0, <1>3, <1>4 DEF Sound, Indexed, Live, Frame
<1>7. Unsent(w, n)
  <2>1. ~(k > n)
    BY <1>0, <1>3, <1>4 DEF Sound, Unsent
  <2> QED
    BY <1>0, <1>1, <1>3, <2>1 DEF Sound, Unsent
<1>8. Indexed(w, f)
  BY <1>0, <1>1, <1>3, <1>4 DEF Sound, Indexed, Live
<1>9. Settled(w)
  <2>1. s.wrote \subseteq Frame /\ s.refused \subseteq Frame /\ Settled(s)
    BY <1>3 DEF Bridge, Sound
  <2>2. ASSUME NEW j \in w.wrote
        PROVE  w.box[j] # "pending" /\ w.rec[j] = "none" /\ j \notin s.refused
    <3>1. CASE j = k
      BY <1>0, <1>1, <1>4, <3>1
    <3>2. CASE j # k
      <4>1. j \in s.wrote /\ j \in Frame
        BY <1>1, <2>1, <3>2
      <4>2. s.box[j] # "pending" /\ s.rec[j] = "none" /\ j \notin s.refused
        BY <2>1, <4>1 DEF Settled
      <4> QED
        BY <1>1, <3>2, <4>1, <4>2
    <3> QED
      BY <3>1, <3>2
  <2>3. ASSUME NEW j \in s.refused
        PROVE  w.box[j] = "none"
    <3>1. j \in Frame /\ j # k /\ s.box[j] = "none"
      BY <1>4, <2>1 DEF Settled
    <3> QED
      BY <1>1, <3>1
  <2> QED
    BY <1>1, <2>2, <2>3 DEF Settled
<1>10. Armed(w) /\ Distinct(w)
  BY <1>0, <1>1, <1>3, <1>5 DEF Sound, Armed, Distinct
<1>11. BodiesHeld(w)
  BY <1>1, <1>3 DEF Sound, BodiesHeld
<1>12. Doomed(w, f)
  BY <1>0, <1>1, <1>3 DEF Sound, Doomed
<1>13. Ordered(w)
  <2>1. Ordered(s) /\ Ordered(t)
    BY <1>3 DEF Sound
  <2>2. \A i \in DOMAIN t.timers : t.timers[i].frame >= first => k < t.timers[i].frame
    BY <1>0, <2>1 DEF Ordered
  <2>3. \A j \in Frame : s.rec[j] = "pending" => k < j
    BY <1>0, <2>1 DEF Ordered
  <2>4. \A j \in Frame : w.rec[j] = "pending" => s.rec[j] = "pending"
    BY <1>1
  <2>5. \A i \in DOMAIN w.timers : \A j \in w.wrote : w.timers[i].frame >= first => j < w.timers[i].frame
    BY <1>0, <1>1, <2>1, <2>2 DEF Ordered
  <2>6. \A j \in Frame : w.rec[j] = "pending" =>
          (\A x \in w.wrote : x < j) /\ (\A i \in DOMAIN w.timers : w.timers[i].frame < j)
    BY <1>0, <1>1, <2>1, <2>3, <2>4 DEF Ordered
  <2>7. \A i, j \in DOMAIN w.timers :
          i < j /\ w.timers[j].frame >= first => w.timers[i].frame < w.timers[j].frame
    BY <1>1, <2>1 DEF Ordered
  <2> QED
    BY <2>5, <2>6, <2>7 DEF Ordered
<1>14. Kept(w, G, {})
  BY <1>0, <1>1, <1>3 DEF Sound, Kept, Live
<1>15. Pending(w) = Pending(s)
  BY <1>0, <1>1, <1>4 DEF Pending
<1>16. Counted(w, n, f)
  BY <1>1, <1>3, <1>15 DEF Counted
<1>17. Running(w, n, f, {})
  <2>1. Own(w)
    BY <1>0, <1>1, <1>3, <1>4 DEF Own
  <2>2. Accounted(w, n, f, {})
    <3>1. Accounted(t, n, f, {k})
      BY <1>2 DEF Running
    <3>2. ASSUME ids, s.child = 1, Answering(f), NEW j \in Frame, j >= first, j <= n, ~IsCr(j)
          PROVE  j \in w.wrote \/ w.box[j] = "pending" \/ j \in w.unwritten \/ OnTimer(w, j)
      <4>1. CASE j = k
        BY <1>1, <4>1
      <4>2. CASE j # k
        <5>1. j \in t.wrote \/ t.box[j] = "pending" \/ j \in t.unwritten \/ OnTimer(t, j)
          BY <1>0, <3>1, <3>2, <4>2 DEF Accounted
        <5> QED
          BY <1>0, <1>1, <4>2, <5>1 DEF OnTimer
      <4> QED
        BY <4>1, <4>2
    <3> QED
      BY <1>0, <1>1, <3>1, <3>2 DEF Accounted
  <2> QED
    BY <2>1, <2>2 DEF Running
<1>18. Excepted(f, k) \/ \A j \in s.wrote : j < k
  <2>1. Ordered(s)
    BY <1>3 DEF Sound
  <2> QED
    BY <1>0, <1>6, <2>1 DEF Excepted, Ordered
<1>19. ASSUME ids, IsCr(k), s.child = 1, Answering(f)
       PROVE  BodyOf(k) \in s.wrote
  <2> DEFINE j == BodyOf(k)
  <2>0. j \in Frame /\ ~IsCr(j) /\ j + 1 = k /\ j \in Int /\ k \in Int /\ j < k
    BY <1>0, <1>19, Parity DEF Frame
  <2>1. k >= first /\ k # first
    BY <1>6, <1>19 DEF Answering, IsCr
  <2>2. j >= first /\ j <= n
    <3>1. ~(k > n)
      BY <1>0, <1>3, <1>4 DEF Sound, Unsent
    <3>2. j >= first
      BY <2>0, <2>1
    <3> QED
      BY <2>0, <3>1, <3>2
  <2>3. j \in s.wrote \/ s.box[j] = "pending" \/ j \in s.unwritten \/ OnTimer(s, j)
    BY <1>3, <1>19, <2>0, <2>2 DEF Accounted
  <2>4. s.box[j] # "pending"
    <3>1. s.box[j] = "pending" => s.rec[j] = "pending"
      BY <1>3, <2>0, <2>2 DEF Own
    <3>2. s.rec[j] = "pending" => k < j
      BY <1>0, <1>3, <2>0 DEF Sound, Ordered
    <3> QED
      BY <2>0, <3>1, <3>2
  <2>5. j \notin s.unwritten
    BY <1>0, <1>3, <1>19 DEF Accounted
  <2>6. ~OnTimer(s, j)
    <3> SUFFICES ASSUME NEW i \in DOMAIN s.timers, s.timers[i].frame = j
                 PROVE  FALSE
      BY DEF OnTimer
    <3>1. i # 1
      BY <1>0, <2>0
    <3>2. 1 < i
      BY <1>0, <3>1
    <3>3. k < j
      BY <1>0, <1>3, <2>2, <3>2 DEF Sound, Ordered
    <3> QED
      BY <2>0, <3>3
  <2> QED
    BY <2>3, <2>4, <2>5, <2>6
<1>20. Writes(s, w, f)
  BY <1>1, <1>18, <1>19 DEF Writes
<1>21. Good(w, n, f, G, {})
  BY <1>1, <1>7, <1>8, <1>9, <1>10, <1>11, <1>12, <1>13, <1>14, <1>16 DEF Good, Sound
<1> QED
  BY <1>15, <1>17, <1>20, <1>21

\* The timer of the first frame in the queue fires.
LEMMA FiredGood ==
  ASSUME ids \in BOOLEAN, first \in Nat, first % 2 = 1, NEW n \in Nat, NEW f, NEW G \in SUBSET Frame, NEW s,
         Good(s, n, f, G, {}), Running(s, n, f, {}), TickFor(s, f), s.timers # <<>>,
         NEW fault, NEW K \in SUBSET f, fault.kinds = K
  PROVE  LET w == Fired(s, fault) IN
         Good(w, n, f, G, {}) /\ Running(w, n, f, {}) /\ Writes(s, w, f) /\ TickFor(w, f)
<1> DEFINE k == Head(s.timers).frame
           t == [s EXCEPT !.timers = Tail(s.timers)]
           q == Quarantine(t, {k}, "not_written", "withdraw", fault)
           v == [Written(t, k) EXCEPT !.rec[k] = "none"]
           z == [v EXCEPT !.box[k] = "done"]
           w == Fired(s, fault)
<1>0. s \in Bridge /\ Sound(s, n, f, G, {}) /\ Counted(s, n, f) /\ Own(s) /\ Accounted(s, n, f, {})
  BY DEF Good, Sound, Running
<1>1. Pops(s, t, k)
  BY <1>0, PopIs
<1>2. w = IF s.timers[1].child # s.child THEN t
          ELSE IF k \in s.held THEN q
          ELSE IF Throws(fault, "ack", k) THEN v ELSE z
  <2>1. Head(s.timers) = s.timers[1]
    BY <1>0, TailFacts
  <2> QED
    BY <2>1 DEF Fired, Writable
<1> HIDE DEF k, t, w
<1>3. /\ t \in Bridge /\ k = s.timers[1].frame /\ k \in Frame /\ 1 \in DOMAIN s.timers
      /\ t.box = s.box /\ t.grave = s.grave /\ t.refused = s.refused /\ t.wrote = s.wrote
      /\ t.rec = s.rec /\ t.held = s.held /\ t.unwritten = s.unwritten
      /\ t.child = s.child /\ t.count = s.count /\ t.queuedBody = s.queuedBody /\ t.tick = s.tick
  BY <1>1 DEF Pops
<1>4. Good(t, n, f, G, {}) /\ Running(t, n, f, {k})
  BY <1>1, PopGood
<1>5. s.box[k] = "in_flight" /\ s.rec[k] # "pending" /\ k \notin s.wrote /\ ~(k > n)
      /\ (k >= first => s.rec[k] = "in_flight") /\ s.timers[1].child <= s.child
  <2>1. s.box[k] = "in_flight" /\ k \notin s.wrote /\ (k >= first => s.rec[k] = "in_flight")
        /\ s.timers[1].child <= s.child
    BY <1>0, <1>3 DEF Sound, Armed
  <2>2. s.rec[k] # "pending"
    BY <1>0, <1>3, <2>1 DEF Sound, Indexed
  <2>3. ~(k > n)
    BY <1>0, <1>3, <2>1 DEF Sound, Unsent
  <2> QED
    BY <2>1, <2>2, <2>3
<1>6. TickFor(t, f)
  BY <1>3 DEF TickFor, Pending
<1>7. CASE s.timers[1].child # s.child
  <2>1. w = t
    BY <1>2, <1>7
  <2>2. s.child # 1
    <3>1. s.timers[1].child \in 1..MaxChild
      BY <1>0, <1>3, TimersTyped
    <3> QED
      BY <1>5, <1>7, <3>1
  <2>3. Running(t, n, f, {})
    BY <1>3, <1>4, <2>2 DEF Running, Accounted
  <2>4. Writes(s, t, f)
    BY <1>3 DEF Writes
  <2>5. Good(w, n, f, G, {}) /\ Running(w, n, f, {}) /\ Writes(s, w, f) /\ TickFor(w, f)
    BY <1>4, <1>6, <2>1, <2>3, <2>4
  <2> QED
    BY <2>5 DEF w
<1>8. CASE s.timers[1].child = s.child /\ k \in s.held
  <2> DEFINE S == {k}
             M == Moved(S, "withdraw", fault)
  <2>1. S \in SUBSET Frame /\ M \in SUBSET S /\ "not_written" \in Certainty
    BY <1>3 DEF Moved, Certainty
  <2>2. Buries(t, q, S, M, "not_written")
    BY <1>3, <2>1, QuarantineBuries
  <2>3. "withdraw" \notin K => M = S
    BY DEF Moved, Throws
  <2>4. \A j \in S : j = k
    OBVIOUS
  <2> HIDE DEF q, S, M
  <2>5. /\ \A j \in S : t.box[j] # "none"
        /\ \A j \in S : \A i \in DOMAIN t.timers : t.timers[i].frame # j
        /\ \A j \in S : j \notin t.wrote
        /\ \A j \in S \ M : t.rec[j] = "pending" =>
             Stale(j) \/ (ids /\ IsCr(j) /\ BodyOf(j) \in q.unwritten)
    <3>1. \A i \in DOMAIN t.timers : t.timers[i].frame # k
      <4>1. ASSUME NEW i \in DOMAIN t.timers
            PROVE  i + 1 \in DOMAIN s.timers /\ t.timers[i] = s.timers[i + 1] /\ i + 1 # 1
        BY <1>1 DEF Pops
      <4>2. Distinct(s)
        BY <1>0 DEF Sound
      <4> QED
        BY <1>3, <4>1, <4>2 DEF Distinct
    <3> QED
      BY <1>3, <1>5, <2>4, <3>1
  <2>6. Sound(t, n, f, G, {}) /\ Counted(t, n, f)
    BY <1>4 DEF Good
  <2>7. Sound(q, n, f, G, {}) /\ Pending(q) = Pending(t) \ M
    BY <2>1, <2>2, <2>5, <2>6, BuriesSound
  <2>8. Running(q, n, f, {k})
    <3>1. ids => \A j \in M : t.rec[j] = "pending" \/ j + 1 \in t.refused
      BY <1>0, <1>3, <1>8, <2>1, <2>4 DEF Sound, BodiesHeld
    <3> DEFINE X == {k}
    <3> HIDE DEF X
    <3>2. Running(t, n, f, X)
      BY <1>4 DEF X
    <3>3. Running(q, n, f, X)
      BY <2>1, <2>2, <2>6, <3>1, <3>2, BuriesRunning
    <3> QED
      BY <3>3 DEF X
  <2>9. ids /\ Answering(f) /\ k >= first => k \in q.unwritten
    <3> SUFFICES ASSUME ids, Answering(f), k >= first
                 PROVE  k \in q.unwritten
      OBVIOUS
    <3>1. k \in M
      BY <2>3 DEF Answering, S
    <3>2. t.rec[k] # "none" /\ ~IsCr(k)
      BY <1>0, <1>3, <1>5, <1>8 DEF Sound, BodiesHeld
    <3> QED
      BY <2>2, <3>1, <3>2 DEF Buries
  <2>10. Running(q, n, f, {})
    BY <2>8, <2>9 DEF Running, Accounted
  <2>11. q.count = t.count /\ q.tick = t.tick /\ q.wrote = t.wrote /\ Pending(q) = Pending(t)
    <3>1. k \notin Pending(t)
      BY <1>3, <1>5 DEF Pending
    <3>2. M \subseteq {k}
      BY <2>1 DEF S
    <3> QED
      BY <2>2, <2>7, <3>1, <3>2 DEF Buries
  <2>12. Good(q, n, f, G, {})
    BY <2>6, <2>7, <2>11 DEF Good, Counted
  <2>13. TickFor(q, f) /\ Writes(s, q, f)
    BY <1>3, <1>6, <2>11 DEF TickFor, Writes
  <2>14. w = q
    BY <1>2, <1>8
  <2>15. Good(w, n, f, G, {}) /\ Running(w, n, f, {}) /\ Writes(s, w, f) /\ TickFor(w, f)
    BY <2>10, <2>12, <2>13, <2>14
  <2> QED
    BY <2>15 DEF w
<1>9. CASE s.timers[1].child = s.child /\ k \notin s.held
  <2> DEFINE y == Written(t, k)
  <2>1. /\ y \in Bridge /\ y.wrote = t.wrote \cup {k} /\ y.box = t.box /\ y.rec = t.rec
        /\ y.grave = t.grave /\ y.refused = t.refused /\ y.held = t.held /\ y.unwritten = t.unwritten
        /\ y.timers = t.timers /\ y.child = t.child /\ y.count = t.count /\ y.queuedBody = t.queuedBody
        /\ y.tick = t.tick
    BY <1>3 DEF Written, Bridge
  <2> HIDE DEF y
  <2>2. v = [y EXCEPT !.rec[k] = "none"]
    BY DEF y
  <2> HIDE DEF v
  <2>3. /\ v \in Bridge /\ v.wrote = y.wrote /\ v.box = y.box
        /\ \A j \in Frame : v.rec[j] = IF j = k THEN "none" ELSE y.rec[j]
        /\ v.grave = y.grave /\ v.refused = y.refused /\ v.held = y.held /\ v.unwritten = y.unwritten
        /\ v.timers = y.timers /\ v.child = y.child /\ v.count = y.count /\ v.queuedBody = y.queuedBody
        /\ v.tick = y.tick
    <3> DEFINE x == [y.rec EXCEPT ![k] = "none"]
    <3>1. /\ x \in [Frame -> {"none", "pending", "in_flight"}]
          /\ \A j \in Frame : x[j] = IF j = k THEN "none" ELSE y.rec[j]
      BY <1>3, <2>1 DEF Bridge
    <3>2. v = [y EXCEPT !.rec = x]
      BY <2>2
    <3> HIDE DEF x
    <3>3. v \in Bridge
      BY <2>1, <3>1, <3>2 DEF Bridge
    <3>4. /\ v.wrote = y.wrote /\ v.box = y.box /\ v.rec = x
          /\ v.grave = y.grave /\ v.refused = y.refused /\ v.held = y.held /\ v.unwritten = y.unwritten
          /\ v.timers = y.timers /\ v.child = y.child /\ v.count = y.count /\ v.queuedBody = y.queuedBody
          /\ v.tick = y.tick
      BY <2>1, <3>2 DEF Bridge
    <3> QED
      BY <3>1, <3>3, <3>4
  <2>4. /\ z \in Bridge /\ z.wrote = v.wrote /\ z.rec = v.rec
        /\ \A j \in Frame : z.box[j] = IF j = k THEN "done" ELSE v.box[j]
        /\ z.grave = v.grave /\ z.refused = v.refused /\ z.held = v.held /\ z.unwritten = v.unwritten
        /\ z.timers = v.timers /\ z.child = v.child /\ z.count = v.count /\ z.queuedBody = v.queuedBody
        /\ z.tick = v.tick
    <3> DEFINE x == [v.box EXCEPT ![k] = "done"]
    <3>1. /\ x \in [Frame -> {"none", "pending", "in_flight", "done"}]
          /\ \A j \in Frame : x[j] = IF j = k THEN "done" ELSE v.box[j]
      BY <1>3, <2>3 DEF Bridge
    <3>2. z = [v EXCEPT !.box = x]
      OBVIOUS
    <3> HIDE DEF x, z
    <3>3. z \in Bridge
      BY <2>3, <3>1, <3>2 DEF Bridge
    <3>4. /\ z.wrote = v.wrote /\ z.rec = v.rec /\ z.box = x
          /\ z.grave = v.grave /\ z.refused = v.refused /\ z.held = v.held /\ z.unwritten = v.unwritten
          /\ z.timers = v.timers /\ z.child = v.child /\ z.count = v.count /\ z.queuedBody = v.queuedBody
          /\ z.tick = v.tick
      BY <2>3, <3>2 DEF Bridge
    <3> QED
      BY <3>1, <3>3, <3>4
  <2> HIDE DEF z
  <2>5. Strikes(t, v, k) /\ Strikes(t, z, k)
    <3>1. Strikes(t, v, k)
      BY <2>1, <2>3 DEF Strikes
    <3>2. Strikes(t, z, k)
      BY <2>1, <2>3, <2>4 DEF Strikes
    <3> QED
      BY <3>1, <3>2
  <2>6. w = v \/ w = z
    BY <1>2, <1>9
  <2>7. Strikes(t, w, k)
    BY <2>5, <2>6
  <2>8. Good(w, n, f, G, {}) /\ Running(w, n, f, {}) /\ Writes(s, w, f) /\ Pending(w) = Pending(s)
    BY <1>1, <2>7, StrikeGood
  <2>9. w.tick = s.tick
    BY <1>3, <2>7 DEF Strikes
  <2>10. TickFor(w, f)
    BY <2>8, <2>9 DEF TickFor
  <2>11. Good(w, n, f, G, {}) /\ Running(w, n, f, {}) /\ Writes(s, w, f) /\ TickFor(w, f)
    BY <2>8, <2>10
  <2> QED
    BY <2>11 DEF w
<1> QED
  BY <1>7, <1>8, <1>9

-----------------------------------------------------------------------------
(* From the state before a step to the state after it. *)

\* More failures, another frame that was sent or given up.
LEMMA FailsGood ==
  ASSUME NEW n, NEW f, NEW g, f \subseteq g, NEW G, NEW X, NEW s
  PROVE  /\ Sound(s, n, f, G, X) => Sound(s, n, g, G, X)
         /\ Counted(s, n, f) => Counted(s, n, g)
         /\ Running(s, n, f, X) => Running(s, n, g, X)
         /\ TickFor(s, f) => TickFor(s, g)
<1>1. Indexed(s, f) => Indexed(s, g)
  BY DEF Indexed
<1>2. Doomed(s, f) => Doomed(s, g)
  <2>1. \A k : Excepted(f, k) => Excepted(g, k)
    BY DEF Excepted
  <2> QED
    BY <2>1 DEF Doomed
<1>3. Counted(s, n, f) => Counted(s, n, g)
  BY DEF Counted
<1>4. Accounted(s, n, f, X) => Accounted(s, n, g, X)
  <2>1. Answering(g) => Answering(f)
    BY DEF Answering
  <2> QED
    BY <2>1 DEF Accounted
<1>5. TickFor(s, f) => TickFor(s, g)
  BY DEF TickFor
<1> QED
  BY <1>1, <1>2, <1>3, <1>4, <1>5 DEF Sound, Running

\* A frame that has arrived is under way; a submit that is given up needs no account.
LEMMA SentGood ==
  ASSUME NEW n \in Nat, NEW f, NEW G, NEW s
  PROVE  /\ Sound(s, n, f, G, {}) => Sound(s, n + 1, f, G, {}) /\ Sound(s, n + 1, f, G \cup {n + 1}, {n + 1})
         /\ Sound(s, n, f, G, {}) /\ Counted(s, n, f) => Counted(s, n + 1, f)
         /\ Running(s, n, f, {}) => Running(s, n + 1, f, {n + 1})
         /\ Running(s, n, f, {}) /\ IsCr(n + 1) => Running(s, n + 1, f, {})
<1>1. Unsent(s, n) => Unsent(s, n + 1)
  BY DEF Unsent, Frame
<1>2. Kept(s, G, {}) => Kept(s, G \cup {n + 1}, {n + 1})
  BY DEF Kept
<1>3. s \in Bridge /\ Counted(s, n, f) => Counted(s, n + 1, f)
  BY DEF Counted, Bridge
<1>4. \A j \in Frame : j <= n + 1 /\ j # n + 1 => j <= n
  BY DEF Frame
<1>5. Accounted(s, n, f, {}) => Accounted(s, n + 1, f, {n + 1})
  BY <1>4 DEF Accounted
<1>6. Accounted(s, n, f, {}) /\ IsCr(n + 1) => Accounted(s, n + 1, f, {})
  BY <1>4 DEF Accounted
<1> QED
  BY <1>1, <1>2, <1>3, <1>5, <1>6 DEF Sound, Running

\* The state in which the handler of the next frame starts.
LEMMA ArrivesGood ==
  ASSUME NEW n \in Nat, n + 1 \in Frame, first <= n + 1, NEW f, NEW G, NEW s, Good(s, n, f, G, {}), Running(s, n, f, {})
  PROVE  Arriving(s, n + 1, f, G \cup {n + 1})
<1>1. Sound(s, n, f, G, {}) /\ Counted(s, n, f) /\ Unsent(s, n)
  BY DEF Good, Sound
<1>2. Good(s, n + 1, f, G \cup {n + 1}, {n + 1}) /\ Running(s, n + 1, f, {n + 1})
  BY <1>1, SentGood DEF Good
<1>3. (n + 1) - 1 = n
  OBVIOUS
<1>4. n + 1 >= first
  OBVIOUS
<1> QED
  BY <1>1, <1>2, <1>3, <1>4 DEF Arriving

\* What a step may meet.
LEMMA FaultKinds ==
  ASSUME NEW K, NEW S, NEW fault \in Faults(K, S), failed \subseteq Failure
  PROVE  fault.kinds \subseteq K /\ failed \cup fault.kinds \subseteq Failure
<1>1. fault = NoFault \/ fault.kinds \in Kinds(K)
  BY DEF Faults
<1>2. CASE fault = NoFault
  BY <1>2 DEF NoFault
<1>3. CASE fault.kinds \in Kinds(K)
  BY <1>3 DEF Kinds
<1> QED
  BY <1>1, <1>2, <1>3

\* The invariant speaks of the state after a step with the variables of that state.
LEMMA SoundNext ==
  ASSUME ids' = ids, first' = first, old' = old \/ (\A k \in Frame : k <= old => k <= old')
  PROVE  /\ Sound(b', sent', failed', got', {}) => Sound(b, sent, failed, got, {})'
         /\ Running(b', sent', failed', {}) => Running(b, sent, failed, {})'
         /\ Counted(b', sent', failed') => Counted(b, sent, failed)'
<1>1. Unsent(b', sent') => Unsent(b, sent)'
  BY DEF Unsent, Frame
<1>2. Indexed(b', failed') => Indexed(b, failed)'
  BY DEF Indexed, Frame, Live
<1>3. Own(b') => Own(b)'
  BY DEF Own, Frame
<1>4. Settled(b') => Settled(b)'
  BY DEF Settled
<1>5. Armed(b') => Armed(b)'
  BY DEF Armed
<1>6. Distinct(b') => Distinct(b)'
  BY DEF Distinct
<1>7. Counted(b', sent', failed') => Counted(b, sent, failed)'
  BY DEF Counted, Pending, Frame
<1>8. BodiesHeld(b') => BodiesHeld(b)'
  BY DEF BodiesHeld, IsCr
<1>9. Doomed(b', failed') => Doomed(b, failed)'
  BY DEF Doomed, Excepted, Stale, Frame, IsCr, BodyOf
<1>10. Ordered(b') => Ordered(b)'
  BY DEF Ordered, Frame
<1>11. Accounted(b', sent', failed', {}) => Accounted(b, sent, failed, {})'
  BY DEF Accounted, Answering, OnTimer, Frame, IsCr, BodyOf
<1>12. Kept(b', got', {}) => Kept(b, got, {})'
  BY DEF Kept, Live, Frame
<1>13. b' \in Bridge => (b \in Bridge)'
  BY DEF Bridge, Frame, Certainty
<1> QED
  BY <1>1, <1>2, <1>3, <1>4, <1>5, <1>6, <1>7, <1>8, <1>9, <1>10, <1>11, <1>12, <1>13 DEF Sound, Running

-----------------------------------------------------------------------------
(* The actions of a process that runs. *)

\* What a step of a running process shows: the invariant, and what it may write.
Shows(K) ==
  /\ Good(b, sent, failed, got, {})' /\ (Running(b, sent, failed, {}) /\ Ticking)'
  /\ failed' \subseteq Failure /\ failed' \subseteq failed \cup K /\ Writes(b, b', failed')
Typed ==
  /\ ids \in BOOLEAN /\ first \in Nat /\ first % 2 = 1 /\ first <= sent + 1
  /\ sent \in Nat /\ sent <= 2 * MaxInject
  /\ got \in SUBSET Frame /\ failed \subseteq Failure /\ b \in Bridge

\* The invariant implies the types that the lemmas ask for.
LEMMA InvTyped ==
  ASSUME Inv
  PROVE  Typed
<1>1. Flags /\ b \in Bridge
  BY DEF Inv, Good, Sound
<1>2. sent \in 0..2 * MaxInject /\ got \subseteq 1..sent /\ first \in 1..2 * MaxInject + 1
  BY <1>1 DEF Flags
<1>3. got \in SUBSET Frame
  BY <1>2 DEF Frame
<1> QED
  BY <1>1, <1>2, <1>3 DEF Flags, Typed

\* The state before a step, with the failures that the step meets.
LEMMA Before ==
  ASSUME Inv, up, NEW K, NEW S, NEW fault \in Faults(K, S), Meet(fault)
  PROVE  /\ Good(b, sent, failed', got, {}) /\ Running(b, sent, failed', {}) /\ TickFor(b, failed')
         /\ fault.kinds \subseteq failed' /\ failed' \subseteq Failure /\ fault.kinds \subseteq K
         /\ failed' \subseteq failed \cup K
<1>1. failed' = failed \cup fault.kinds
  BY DEF Meet
<1>2. fault.kinds \subseteq K /\ failed' \subseteq Failure
  BY <1>1, FaultKinds DEF Inv, Flags
<1>3. Sound(b, sent, failed, got, {}) /\ Counted(b, sent, failed) /\ Running(b, sent, failed, {}) /\ TickFor(b, failed)
  BY DEF Inv, Good, Ticking, TickFor
<1>4. failed \subseteq failed'
  BY <1>1
<1> HIDE DEF Meet
<1> DEFINE g == failed'
<1>5. g = failed' /\ failed \subseteq g
  BY <1>4
<1> HIDE DEF g
<1>6. Sound(b, sent, g, got, {}) /\ Counted(b, sent, g) /\ Running(b, sent, g, {}) /\ TickFor(b, g)
  BY <1>3, <1>5, FailsGood
<1> QED
  BY <1>1, <1>2, <1>5, <1>6 DEF Good

\* The step's result, in the words of the next state.
LEMMA After ==
  ASSUME ids' = ids, first' = first, old' = old,
         Good(b', sent', failed', got', {}), Running(b', sent', failed', {}), TickFor(b', failed'),
         Writes(b, b', failed'), NEW K, failed' \subseteq failed \cup K, failed' \subseteq Failure
  PROVE  Shows(K)
<1>1. Good(b, sent, failed, got, {})' /\ Running(b, sent, failed, {})'
  BY SoundNext DEF Good
<1>2. Ticking'
  BY DEF Ticking, TickFor, Pending, Frame
<1> QED
  BY <1>1, <1>2 DEF Shows

\* A frame arrives.
LEMMA ReceiveShows ==
  ASSUME Inv, Receive
  PROVE  Shows({"enqueue", "withdraw", "dequeue"})
<1> DEFINE K == {"enqueue", "withdraw", "dequeue"}
<1>1. PICK fault \in Faults(K, Live(b) \cup {sent + 1}) :
        /\ up /\ sent < 2 * MaxInject
        /\ sent' = sent + 1 /\ got' = got \cup {sent'}
        /\ b' = Handle(b, sent', fault) /\ Meet(fault)
        /\ UNCHANGED <<ids, twin, process, first, up, old, recent>>
  BY DEF Receive
<1> HIDE DEF K
<1>2. Typed
  BY InvTyped
<1>3. /\ Good(b, sent, failed', got, {}) /\ Running(b, sent, failed', {}) /\ TickFor(b, failed')
      /\ fault.kinds \subseteq failed' /\ failed' \subseteq Failure /\ failed' \subseteq failed \cup K
  BY <1>1, Before
<1> DEFINE g == failed'
           n == sent + 1
           G == got \cup {n}
           L == fault.kinds
<1>4. sent \in Nat /\ n \in Frame /\ first <= n /\ first \in Nat /\ first % 2 = 1 /\ G \in SUBSET Frame /\ L \in SUBSET g
      /\ ids \in BOOLEAN
  BY <1>1, <1>2, <1>3 DEF Typed, Frame
<1> HIDE DEF g, L
<1>5. Good(b, sent, g, got, {}) /\ Running(b, sent, g, {}) /\ TickFor(b, g)
  BY <1>3 DEF g
<1>6. Arriving(b, n, g, G)
  BY <1>4, <1>5, ArrivesGood
<1> HIDE DEF n, G
<1> DEFINE t == Handle(b, n, fault)
<1>7. Good(t, n, g, G, {}) /\ Running(t, n, g, {}) /\ Writes(b, t, g) /\ TickFor(t, g)
  BY <1>1, <1>4, <1>5, <1>6, HandleGood DEF L
<1>8. b' = t /\ sent' = n /\ got' = G /\ failed' = g
  BY <1>1 DEF n, G, g
<1> HIDE DEF t
<1>9. Good(b', sent', failed', got', {}) /\ Running(b', sent', failed', {}) /\ TickFor(b', failed') /\ Writes(b, b', failed')
  BY <1>7, <1>8
<1>10. Shows(K)
  BY <1>1, <1>3, <1>9, After
<1> QED
  BY <1>10 DEF K

\* A step of which the result t is known, when nothing is sent.
LEMMA Stays ==
  ASSUME NEW K, NEW t, b' = t, Good(t, sent, failed', got, {}), Running(t, sent, failed', {}), TickFor(t, failed'),
         Writes(b, t, failed'), failed' \subseteq failed \cup K, failed' \subseteq Failure,
         UNCHANGED <<ids, first, old, sent, got>>
  PROVE  Shows(K)
<1>1. /\ Good(b', sent', failed', got', {}) /\ Running(b', sent', failed', {}) /\ TickFor(b', failed')
      /\ Writes(b, b', failed')
  OBVIOUS
<1> QED
  BY <1>1, After

\* A flush of which no dequeue throws leaves nothing pending.
LEMMA FlushLeaves ==
  ASSUME Typed, NEW g, NEW s, Good(s, sent, g, got, {}), Running(s, sent, g, {}),
         NEW fault, fault.kinds \subseteq g, fault.kinds \subseteq {"withdraw"}
  PROVE  /\ Good(Flush(s, fault), sent, g, got, {}) /\ Running(Flush(s, fault), sent, g, {})
         /\ Flush(s, fault).wrote = s.wrote /\ Pending(Flush(s, fault)) = {}
<1> DEFINE L == fault.kinds
<1>1. L \in SUBSET g /\ "dequeue" \notin L
  OBVIOUS
<1>2. fault.kinds = L
  OBVIOUS
<1> HIDE DEF L
<1>3. ids \in BOOLEAN /\ first \in Nat /\ sent \in Nat /\ got \in SUBSET Frame
  BY DEF Typed
<1>4. Flushed(s, Flush(s, fault), sent, g, got, L)
  BY <1>1, <1>2, <1>3, FlushGood
<1> QED
  BY <1>1, <1>4 DEF Flushed

\* The tick maintains the records and flushes if the prompt is free.
LEMMA TickShows ==
  ASSUME Inv, Tick
  PROVE  Shows({"withdraw"})
<1> DEFINE K == {"withdraw"}
           M(fault) == Maintain(b, fault)
           F(fault) == IF M(fault).count > 0 /\ Idle(M(fault)) THEN Flush(M(fault), fault) ELSE M(fault)
<1>1. PICK fault \in Faults(K, Live(b)) :
        /\ up /\ b.tick
        /\ b' = [F(fault) EXCEPT !.tick = F(fault).tick /\ (F(fault).count > 0 \/ Pending(F(fault)) # {})]
        /\ Meet(fault)
        /\ UNCHANGED <<ids, twin, sent, got, process, first, up, old, recent>>
  BY DEF Tick
<1> HIDE DEF K
<1>2. Typed
  BY InvTyped
<1>3. /\ Good(b, sent, failed', got, {}) /\ Running(b, sent, failed', {}) /\ TickFor(b, failed')
      /\ fault.kinds \subseteq failed' /\ failed' \subseteq Failure /\ fault.kinds \subseteq K
      /\ failed' \subseteq failed \cup K
  BY <1>1, Before
<1> DEFINE g == failed'
           L == fault.kinds
           m == M(fault)
           f == F(fault)
           v == f.tick /\ (f.count > 0 \/ Pending(f) # {})
           t == [f EXCEPT !.tick = v]
<1>4. L \in SUBSET g /\ fault.kinds = L
  BY <1>3
<1>5. Good(b, sent, g, got, {}) /\ Running(b, sent, g, {})
  BY <1>3
<1>6. ids \in BOOLEAN /\ first \in Nat /\ sent \in Nat /\ got \in SUBSET Frame /\ b \in Bridge
  BY <1>2 DEF Typed
<1> HIDE DEF g, L
<1>7. Good(m, sent, g, got, {}) /\ Running(m, sent, g, {}) /\ m.wrote = b.wrote /\ m.tick = b.tick
  <2>1. Maintained(b, m, sent, g, got)
    BY <1>4, <1>5, <1>6, MaintainGood
  <2> QED
    BY <2>1 DEF Maintained
<1>8. f = IF m.count > 0 /\ Idle(m) THEN Flush(m, fault) ELSE m
  OBVIOUS
<1> HIDE DEF m, M
<1>9. /\ Good(Flush(m, fault), sent, g, got, {}) /\ Running(Flush(m, fault), sent, g, {})
      /\ Flush(m, fault).wrote = m.wrote /\ Pending(Flush(m, fault)) = {}
  BY <1>1, <1>2, <1>3, <1>4, <1>7, FlushLeaves DEF K, g
<1> HIDE DEF f, F
<1>10. Good(f, sent, g, got, {}) /\ Running(f, sent, g, {}) /\ f.wrote = b.wrote /\ (Pending(f) # {} => f.tick)
  BY <1>1, <1>7, <1>8, <1>9
<1>11. f \in Bridge
  BY <1>10 DEF Good, Sound
<1>12. v \in BOOLEAN /\ (Pending(f) # {} => v)
  BY <1>10, <1>11 DEF Bridge
<1> HIDE DEF v
<1>13. t = [f EXCEPT !.tick = TRUE] \/ t = [f EXCEPT !.tick = FALSE]
  BY <1>12
<1>14. t.tick = v
  BY <1>11 DEF Bridge
<1> HIDE DEF t
<1>15. Good(t, sent, g, got, {}) /\ Running(t, sent, g, {}) /\ t.wrote = f.wrote /\ Pending(t) = Pending(f)
  <2>1. Good(t, sent, g, got, {}) /\ Running(t, sent, g, {})
    BY <1>10, <1>13, TickGood
  <2>2. t.wrote = f.wrote
    BY <1>10, <1>13, TickGood
  <2>3. Pending(t) = Pending(f)
    BY <1>10, <1>13, TickGood
  <2> QED
    BY <2>1, <2>2, <2>3
<1>16. TickFor(t, g) /\ Writes(b, t, g)
  BY <1>10, <1>12, <1>14, <1>15 DEF TickFor, Writes
<1>17. b' = t
  BY <1>1 DEF t, v, f
<1>18. Shows(K)
  BY <1>1, <1>3, <1>15, <1>16, <1>17, Stays DEF g
<1> QED
  BY <1>18 DEF K

\* A prompt shows, or the fallback flushes.
LEMMA FlushShows ==
  ASSUME Inv, up, NEW S, NEW fault \in Faults({"withdraw"}, S), Meet(fault), NEW s, s = b \/ s = [b EXCEPT !.ready = TRUE],
         b' = Flush(s, fault), UNCHANGED <<ids, twin, sent, got, process, first, up, old, recent>>
  PROVE  Shows({"withdraw"})
<1> DEFINE K == {"withdraw"}
<1>1. fault \in Faults(K, S)
  OBVIOUS
<1> HIDE DEF K
<1>2. Typed
  BY InvTyped
<1>3. /\ Good(b, sent, failed', got, {}) /\ Running(b, sent, failed', {})
      /\ fault.kinds \subseteq failed' /\ failed' \subseteq Failure /\ fault.kinds \subseteq K
      /\ failed' \subseteq failed \cup K
  BY <1>1, Before
<1> DEFINE g == failed'
<1>4. Good(b, sent, g, got, {}) /\ Running(b, sent, g, {}) /\ fault.kinds \subseteq g
  BY <1>3
<1> HIDE DEF g
<1>5. Good(s, sent, g, got, {}) /\ Running(s, sent, g, {}) /\ s.wrote = b.wrote
  <2>1. b \in Bridge /\ Sound(b, sent, g, got, {}) /\ Counted(b, sent, g) /\ (b.queuedBody # 0 => ~IsCr(b.queuedBody))
    BY <1>4 DEF Good, Sound, BodiesHeld
  <2>2. Alike(b, s) /\ s.queuedBody = b.queuedBody /\ s.count = b.count
    <3>1. CASE s = b
      BY <2>1, <3>1 DEF Alike
    <3>2. CASE s = [b EXCEPT !.ready = TRUE]
      BY <2>1, <3>2 DEF Alike, Bridge
    <3> QED
      BY <3>1, <3>2
  <2>3. Counted(s, sent, g)
    BY <2>1, <2>2 DEF Counted, Pending, Alike
  <2>4. Good(s, sent, g, got, {}) /\ Running(s, sent, g, {})
    BY <1>4, <2>1, <2>2, <2>3, AlikeGood
  <2> QED
    BY <2>2, <2>4 DEF Alike
<1> DEFINE t == Flush(s, fault)
<1>6. Good(t, sent, g, got, {}) /\ Running(t, sent, g, {}) /\ t.wrote = s.wrote /\ Pending(t) = {}
  BY <1>2, <1>3, <1>4, <1>5, FlushLeaves DEF K
<1> HIDE DEF t
<1>7. TickFor(t, g) /\ Writes(b, t, g)
  BY <1>5, <1>6 DEF TickFor, Writes
<1>8. b' = t
  BY DEF t
<1>9. Shows(K)
  BY <1>3, <1>6, <1>7, <1>8, Stays DEF g
<1> QED
  BY <1>9 DEF K

\* A delivery timer fires.
LEMMA FireShows ==
  ASSUME Inv, Fire
  PROVE  Shows({"withdraw", "ack"})
<1> DEFINE K == {"withdraw", "ack"}
           S == {Head(b.timers).frame}
<1>1. PICK fault \in Faults(K, S) :
        /\ up /\ b.timers # <<>> /\ b' = Fired(b, fault) /\ Meet(fault)
        /\ UNCHANGED <<ids, twin, sent, got, process, first, up, old, recent>>
  BY DEF Fire
<1> HIDE DEF K, S
<1>2. Typed
  BY InvTyped
<1>3. /\ Good(b, sent, failed', got, {}) /\ Running(b, sent, failed', {}) /\ TickFor(b, failed')
      /\ fault.kinds \subseteq failed' /\ failed' \subseteq Failure
      /\ failed' \subseteq failed \cup K
  BY <1>1, Before
<1> DEFINE g == failed'
           L == fault.kinds
           t == Fired(b, fault)
<1>4. L \in SUBSET g /\ fault.kinds = L /\ Good(b, sent, g, got, {}) /\ Running(b, sent, g, {}) /\ TickFor(b, g)
  BY <1>3
<1>5. ids \in BOOLEAN /\ first \in Nat /\ first % 2 = 1 /\ sent \in Nat /\ got \in SUBSET Frame
  BY <1>2 DEF Typed
<1> HIDE DEF g, L
<1>6. Good(t, sent, g, got, {}) /\ Running(t, sent, g, {}) /\ Writes(b, t, g) /\ TickFor(t, g)
  BY <1>1, <1>4, <1>5, FiredGood
<1> HIDE DEF t
<1>7. b' = t
  BY <1>1 DEF t
<1>8. Shows(K)
  BY <1>1, <1>3, <1>6, <1>7, Stays DEF g
<1> QED
  BY <1>8 DEF K

\* What holds of a running process before a step that meets no failure.
LEMMA Calm ==
  ASSUME Inv, up
  PROVE  /\ Typed /\ Good(b, sent, failed, got, {}) /\ Running(b, sent, failed, {}) /\ TickFor(b, failed)
         /\ Sound(b, sent, failed, got, {}) /\ Counted(b, sent, failed)
         /\ b \in Bridge /\ (b.queuedBody # 0 => ~IsCr(b.queuedBody))
BY InvTyped DEF Inv, Good, Sound, Ticking, TickFor, BodiesHeld

\* A step after which the bridge b' is like it was.
LEMMA AlikeShows ==
  ASSUME Inv, up, b' \in Bridge, Alike(b, b'), b'.count = b.count, b'.queuedBody = b.queuedBody, b'.tick = b.tick,
         UNCHANGED <<ids, first, up, old, sent, got, failed>>
  PROVE  Shows({})
<1> DEFINE t == b'
<1>1. Alike(b, t) /\ t.count = b.count /\ t.queuedBody = b.queuedBody /\ t.tick = b.tick
  OBVIOUS
<1>2. b' = t
  OBVIOUS
<1> HIDE DEF t
<1>3. /\ Typed /\ Good(b, sent, failed, got, {}) /\ Running(b, sent, failed, {}) /\ TickFor(b, failed)
      /\ Sound(b, sent, failed, got, {}) /\ Counted(b, sent, failed) /\ (b.queuedBody # 0 => ~IsCr(b.queuedBody))
  BY Calm
<1>4. Counted(t, sent, failed) /\ TickFor(t, failed) /\ Writes(b, t, failed)
  BY <1>1, <1>3 DEF Counted, Pending, Alike, TickFor, Writes
<1>5. Good(t, sent, failed, got, {}) /\ Running(t, sent, failed, {})
  BY <1>1, <1>3, <1>4, AlikeGood
<1>6. failed' = failed /\ failed \subseteq Failure
  BY <1>3 DEF Typed
<1>7. failed' \subseteq failed \cup {} /\ failed' \subseteq Failure
  BY <1>6
<1>8. Good(t, sent, failed', got, {}) /\ Running(t, sent, failed', {}) /\ TickFor(t, failed') /\ Writes(b, t, failed')
  BY <1>4, <1>5, <1>6
<1> QED
  BY <1>2, <1>7, <1>8, Stays

\* The user types: flags change.
LEMMA TypeShows ==
  ASSUME Inv, Type
  PROVE  Shows({})
<1>1. /\ up /\ b' = [b EXCEPT !.adjacent = FALSE, !.refusedBody = FALSE]
      /\ UNCHANGED <<ids, first, up, old, sent, got, failed>>
  BY DEF Type
<1>2. b \in Bridge
  BY <1>1, Calm
<1>3. b' \in Bridge
  BY <1>1, <1>2 DEF Bridge
<1>4. Alike(b, b') /\ b'.count = b.count /\ b'.queuedBody = b.queuedBody /\ b'.tick = b.tick
  BY <1>1, <1>2, <1>3 DEF Alike, Bridge
<1> QED
  BY <1>1, <1>3, <1>4, AlikeShows

\* The user has been quiet: nothing of the bridge changes.
LEMMA QuietShows ==
  ASSUME Inv, Quiet
  PROVE  Shows({})
<1>1. up /\ b' = b /\ UNCHANGED <<ids, first, up, old, sent, got, failed>>
  BY DEF Quiet
<1>2. b \in Bridge
  BY <1>1, Calm
<1> QED
  BY <1>1, <1>2, AlikeShows DEF Alike

\* The submit that is not sent is no body.
LEMMA NoSubmitShows ==
  ASSUME Inv, NoSubmit
  PROVE  Shows({})
<1>1. up /\ sent % 2 = 1 /\ sent' = sent + 1 /\ UNCHANGED <<ids, first, up, old, got, b, failed>>
  BY DEF NoSubmit
<1>2. /\ Typed /\ Running(b, sent, failed, {}) /\ TickFor(b, failed)
      /\ Sound(b, sent, failed, got, {}) /\ Counted(b, sent, failed)
  BY <1>1, Calm
<1>3. sent \in Nat /\ IsCr(sent + 1) /\ failed \subseteq Failure
  BY <1>1, <1>2 DEF Typed, IsCr
<1> DEFINE t == b
           n == sent + 1
           g == failed
<1>4. Good(t, n, g, got, {}) /\ Running(t, n, g, {}) /\ TickFor(t, g) /\ Writes(b, t, g)
  BY <1>2, <1>3, SentGood DEF Good, Writes
<1>5. b' = t /\ sent' = n /\ failed' = g /\ got' = got
  BY <1>1
<1> HIDE DEF t, n, g
<1>6. Good(b', sent', failed', got', {}) /\ Running(b', sent', failed', {}) /\ TickFor(b', failed') /\ Writes(b, b', failed')
  BY <1>4, <1>5
<1>7. failed' \subseteq failed \cup {} /\ failed' \subseteq Failure
  BY <1>3, <1>5 DEF g
<1> QED
  BY <1>1, <1>6, <1>7, After

\* A frame that was stale stays stale.
LEMMA AgeShows ==
  ASSUME Inv, Age
  PROVE  Shows({})
<1>1. up /\ old' \in old + 1 .. sent /\ UNCHANGED <<ids, first, up, sent, got, b, failed>>
  BY DEF Age
<1>2. /\ Typed /\ Running(b, sent, failed, {}) /\ TickFor(b, failed)
      /\ Sound(b, sent, failed, got, {}) /\ Counted(b, sent, failed)
  BY <1>1, Calm
<1>3. sent \in Nat /\ old \in 0..sent
  BY <1>2 DEF Typed, Inv, Flags
<1>4. \A k \in Frame : k <= old => k <= old'
  BY <1>1, <1>3 DEF Frame
<1>5. Sound(b', sent', failed', got', {}) /\ Counted(b', sent', failed') /\ Running(b', sent', failed', {})
  BY <1>1, <1>2
<1>6. Good(b, sent, failed, got, {})' /\ Running(b, sent, failed, {})'
  BY <1>1, <1>4, <1>5, SoundNext DEF Good
<1>7. Ticking' /\ Writes(b, b', failed')
  BY <1>1, <1>2 DEF Ticking, TickFor, Pending, Frame, Writes
<1>8. failed' \subseteq failed \cup {} /\ failed' \subseteq Failure
  BY <1>1, <1>2 DEF Typed
<1> QED
  BY <1>6, <1>7, <1>8 DEF Shows

\* With another child no timer writes and no body has to be accounted for.
LEMMA RespawnShows ==
  ASSUME Inv, Respawn
  PROVE  Shows({})
<1> DEFINE t == [b EXCEPT !.child = b.child + 1, !.ready = FALSE]
<1>1. up /\ process - 1 + b.child < MaxChild /\ b' = t /\ UNCHANGED <<ids, first, up, old, sent, got, failed>>
  BY DEF Respawn
<1>2. /\ Typed /\ Running(b, sent, failed, {}) /\ TickFor(b, failed)
      /\ Sound(b, sent, failed, got, {}) /\ Counted(b, sent, failed) /\ b \in Bridge
  BY <1>1, Calm
<1>3. b.child \in 1..MaxChild /\ process \in 1..MaxProcess
  BY <1>2 DEF Inv, Flags, Bridge
<1>4. b.child + 1 \in 1..MaxChild /\ b.child + 1 # 1
  BY <1>1, <1>3
<1>5. t \in Bridge
  BY <1>2, <1>4 DEF Bridge
<1>6. /\ t.box = b.box /\ t.grave = b.grave /\ t.refused = b.refused /\ t.wrote = b.wrote
      /\ t.rec = b.rec /\ t.held = b.held /\ t.unwritten = b.unwritten
      /\ t.timers = b.timers /\ t.child = b.child + 1 /\ t.count = b.count /\ t.queuedBody = b.queuedBody
      /\ t.tick = b.tick
  BY <1>2 DEF Bridge
<1> HIDE DEF t
<1> DEFINE g == failed
<1>7. Unsent(t, sent) /\ Indexed(t, g) /\ Settled(t)
  BY <1>2, <1>6 DEF Sound, Unsent, Indexed, Settled, Live
<1>8. Armed(t)
  <2>1. \A i \in DOMAIN b.timers : b.timers[i].child <= b.child => b.timers[i].child <= b.child + 1
    BY <1>2, <1>3, TimersTyped
  <2> QED
    BY <1>2, <1>6, <2>1 DEF Sound, Armed
<1>9. Distinct(t) /\ BodiesHeld(t) /\ Ordered(t)
  BY <1>2, <1>6 DEF Sound, Distinct, BodiesHeld, Ordered
<1>10. Doomed(t, g)
  BY <1>2, <1>6 DEF Sound, Doomed
<1>11. Kept(t, got, {}) /\ Counted(t, sent, g) /\ TickFor(t, g)
  BY <1>2, <1>6 DEF Sound, Kept, Live, Counted, Pending, TickFor
<1>12. Own(t) /\ Accounted(t, sent, g, {})
  BY <1>2, <1>4, <1>6 DEF Running, Own, Accounted
<1>13. Good(t, sent, g, got, {}) /\ Running(t, sent, g, {}) /\ Writes(b, t, g)
  BY <1>5, <1>6, <1>7, <1>8, <1>9, <1>10, <1>11, <1>12 DEF Good, Sound, Running, Writes
<1>14. failed' = g
  BY <1>1
<1>15. failed' \subseteq failed \cup {} /\ failed' \subseteq Failure
  BY <1>2, <1>14 DEF Typed
<1> HIDE DEF g
<1>16. Good(t, sent, failed', got, {}) /\ Running(t, sent, failed', {}) /\ TickFor(t, failed') /\ Writes(b, t, failed')
  BY <1>11, <1>13, <1>14
<1> QED
  BY <1>1, <1>15, <1>16, Stays

-----------------------------------------------------------------------------
(* The end of a process and the start of the next one. *)

\* What the mailbox and the history keep when the memory of the process is lost.
Durable(s, n, f, G) ==
  /\ s \in Bridge
  /\ \A k \in Frame : k > n =>
       s.box[k] = "none" /\ s.grave[k] = {} /\ k \notin s.wrote /\ k \notin s.refused
  /\ \A k \in Frame : k \in Live(s) /\ k < first => "recover" \in f
  /\ \A k \in s.wrote : s.box[k] # "pending" /\ k \notin s.refused
  /\ \A k \in s.refused : s.box[k] = "none"
  /\ ids \/ "withdraw" \notin f =>
       \A k \in Frame : "not_written" \in s.grave[k] /\ ~Excepted(f, k) => k \notin s.wrote
  /\ Kept(s, G, {})

\* The invariant implies what the mailbox keeps.
LEMMA SoundDurable ==
  ASSUME NEW n, NEW f, NEW G, NEW s, Sound(s, n, f, G, {})
  PROVE  Durable(s, n, f, G)
BY DEF Sound, Unsent, Indexed, Settled, Doomed, Durable

\* More failures excuse more.
LEMMA FailsDurable ==
  ASSUME NEW n, NEW f, NEW g, f \subseteq g, NEW G, NEW s, Durable(s, n, f, G)
  PROVE  Durable(s, n, g, G)
<1>1. \A k : Excepted(f, k) => Excepted(g, k)
  BY DEF Excepted
<1> QED
  BY <1>1 DEF Durable

\* Rows that are live go to the dead letter, as not written only if they were not.
LEMMA BuriesDurable ==
  ASSUME NEW n, NEW f, NEW G \in SUBSET Frame, NEW s, Durable(s, n, f, G),
         NEW S \in SUBSET Live(s), NEW M \in SUBSET S, NEW c \in Certainty, NEW q, Buries(s, q, S, M, c),
         \A k \in S : k \in s.wrote => c # "not_written"
  PROVE  /\ Durable(q, n, f, G) /\ Live(q) = Live(s) \ M
<1>0. /\ q \in Bridge /\ s \in Bridge
      /\ \A k \in Frame : q.box[k] = IF k \in M THEN "done" ELSE s.box[k]
      /\ \A k \in Frame : /\ s.grave[k] \subseteq q.grave[k]
                          /\ q.grave[k] \subseteq s.grave[k] \cup {c}
                          /\ k \notin S => q.grave[k] = s.grave[k]
                          /\ k \in M => c \in q.grave[k]
      /\ q.refused = s.refused /\ q.wrote = s.wrote
  BY DEF Buries, Durable
<1>1. s.wrote \subseteq Frame /\ s.refused \subseteq Frame
  BY <1>0 DEF Bridge
<1>2. \A k \in S : k \in Frame /\ s.box[k] # "none" /\ k \notin s.refused /\ ~(k > n)
  BY DEF Live, Durable
<1>3. Live(q) = Live(s) \ M
  BY <1>0 DEF Live
<1>4. \A k \in Frame : k > n =>
        q.box[k] = "none" /\ q.grave[k] = {} /\ k \notin q.wrote /\ k \notin q.refused
  BY <1>0, <1>2 DEF Durable
<1>5. \A k \in Frame : k \in Live(q) /\ k < first => "recover" \in f
  BY <1>3 DEF Durable
<1>6. \A k \in q.wrote : q.box[k] # "pending" /\ k \notin q.refused
  <2>1. \A k \in s.wrote : s.box[k] # "pending" /\ k \notin s.refused
    BY DEF Durable
  <2> QED
    BY <1>0, <1>1, <2>1
<1>7. \A k \in q.refused : q.box[k] = "none"
  <2>1. \A k \in s.refused : s.box[k] = "none"
    BY DEF Durable
  <2> QED
    BY <1>0, <1>1, <1>2, <2>1
<1>8. ids \/ "withdraw" \notin f =>
        \A k \in Frame : "not_written" \in q.grave[k] /\ ~Excepted(f, k) => k \notin q.wrote
  <2> SUFFICES ASSUME ids \/ "withdraw" \notin f, NEW k \in Frame, "not_written" \in q.grave[k], ~Excepted(f, k),
                      k \in s.wrote
               PROVE  FALSE
    BY <1>0
  <2>1. "not_written" \notin s.grave[k]
    BY DEF Durable
  <2>2. c = "not_written"
    BY <1>0, <2>1
  <2>3. k \in S
    BY <1>0, <2>1
  <2> QED
    BY <2>2, <2>3
<1>9. Kept(q, G, {})
  <2>1. Kept(s, G, {})
    BY DEF Durable
  <2> QED
    BY <1>0, <1>3, <2>1 DEF Kept
<1> QED
  BY <1>0, <1>3, <1>4, <1>5, <1>6, <1>7, <1>8, <1>9 DEF Durable

\* A mailbox with nothing live in it is emptied.
LEMMA PurgedDurable ==
  ASSUME NEW n, NEW f, NEW G \in SUBSET Frame, NEW s, Durable(s, n, f, G)
  PROVE  Durable(PurgeIfMoved(s), n, f, G) /\ PurgeIfMoved(s).wrote = s.wrote
<1> DEFINE t == [s EXCEPT !.box = [k \in Frame |-> "none"]]
<1>1. s \in Bridge
  BY DEF Durable
<1>2. t \in Bridge /\ t.box = [k \in Frame |-> "none"] /\ t.wrote = s.wrote /\ t.refused = s.refused /\ t.grave = s.grave
  BY <1>1 DEF Bridge
<1>3. PurgeIfMoved(s) = IF Live(s) = {} THEN t ELSE s
  BY DEF PurgeIfMoved
<1> HIDE DEF t
<1>4. ASSUME Live(s) = {}
      PROVE  Durable(t, n, f, G)
  <2>1. \A k \in Frame : t.box[k] = "none"
    BY <1>2
  <2>2. s.wrote \subseteq Frame /\ s.refused \subseteq Frame
    BY <1>1 DEF Bridge
  <2>3. Live(t) = {}
    BY <2>1 DEF Live
  <2>4. Kept(t, G, {})
    BY <1>2, <1>4 DEF Durable, Kept
  <2>5. \A k \in t.wrote : t.box[k] # "pending" /\ k \notin t.refused
    BY <1>2, <2>1, <2>2 DEF Durable
  <2>6. \A k \in t.refused : t.box[k] = "none"
    BY <1>2, <2>1, <2>2
  <2>7. \A k \in Frame : k > n =>
          t.box[k] = "none" /\ t.grave[k] = {} /\ k \notin t.wrote /\ k \notin t.refused
    BY <1>2, <2>1 DEF Durable
  <2>8. \A k \in Frame : k \in Live(t) /\ k < first => "recover" \in f
    BY <2>3
  <2>9. ids \/ "withdraw" \notin f =>
          \A k \in Frame : "not_written" \in t.grave[k] /\ ~Excepted(f, k) => k \notin t.wrote
    BY <1>2 DEF Durable
  <2> QED
    BY <1>2, <2>4, <2>5, <2>6, <2>7, <2>8, <2>9 DEF Durable
<1> QED
  BY <1>2, <1>3, <1>4

\* Only the mailbox is left: the rest of the invariant holds.
LEMMA AsleepSound ==
  ASSUME NEW n \in Nat, NEW f, NEW G \in SUBSET Frame, NEW s, Durable(s, n, f, G), Asleep(s),
         s.queuedBody # 0 => ~IsCr(s.queuedBody)
  PROVE  Sound(s, n, f, G, {}) /\ Counted(s, n, f) /\ Pending(s) = {}
<1>1. /\ \A k \in Frame : s.rec[k] = "none"
      /\ s.held = {} /\ s.unwritten = {} /\ s.timers = <<>> /\ s.count = 0 /\ s \in Bridge
  BY DEF Asleep, Durable
<1>2. DOMAIN s.timers = {}
  BY <1>1
<1>3. s.wrote \subseteq Frame /\ s.refused \subseteq Frame
  BY <1>1 DEF Bridge
<1>4. Unsent(s, n) /\ Indexed(s, f) /\ Settled(s)
  BY <1>1, <1>3 DEF Durable, Unsent, Indexed, Settled
<1>5. Armed(s) /\ Distinct(s) /\ BodiesHeld(s)
  BY <1>1, <1>2 DEF Armed, Distinct, BodiesHeld
<1>6. Doomed(s, f) /\ Ordered(s)
  <2>1. Doomed(s, f)
    BY <1>1, <1>2 DEF Durable, Doomed
  <2>2. Ordered(s)
    BY <1>1, <1>2 DEF Ordered
  <2> QED
    BY <2>1, <2>2
<1>7. Kept(s, G, {})
  BY DEF Durable
<1>8. Pending(s) = {}
  BY <1>1 DEF Pending
<1>9. Counted(s, n, f)
  BY <1>1, <1>8, FS_EmptySet DEF Counted
<1> QED
  BY <1>1, <1>4, <1>5, <1>6, <1>7, <1>8, <1>9 DEF Sound

\* A new process starts from nothing but the mailbox and the history.
LEMMA FreshDurable ==
  ASSUME NEW n, NEW f, NEW G, NEW s, Durable(s, n, f, G)
  PROVE  LET t == Fresh(s.box, s.grave, s.refused, s.wrote) IN
         Durable(t, n, f, G) /\ Asleep(t) /\ t.wrote = s.wrote /\ t.queuedBody = 0
<1> DEFINE t == Fresh(s.box, s.grave, s.refused, s.wrote)
<1>1. s \in Bridge
  BY DEF Durable
<1>2. 0 \in 0..2 * MaxInject /\ 1 \in 1..MaxChild
  OBVIOUS
<1>3. [k \in Frame |-> "none"] \in [Frame -> {"none", "pending", "in_flight"}]
  OBVIOUS
<1>4. <<>> \in Seq([frame : Frame, child : 1..MaxChild])
  OBVIOUS
<1>5. t \in Bridge
  BY <1>1, <1>2, <1>3, <1>4 DEF Bridge, Fresh
<1>6. /\ t.box = s.box /\ t.grave = s.grave /\ t.refused = s.refused /\ t.wrote = s.wrote
      /\ t.rec = [k \in Frame |-> "none"] /\ t.held = {} /\ t.unwritten = {} /\ t.timers = <<>>
      /\ t.count = 0 /\ t.queuedBody = 0
  BY DEF Fresh
<1> HIDE DEF t
<1>7. Durable(t, n, f, G)
  BY <1>5, <1>6 DEF Durable, Live, Kept
<1>8. Asleep(t)
  BY <1>6 DEF Asleep
<1>9. Durable(t, n, f, G) /\ Asleep(t) /\ t.wrote = s.wrote /\ t.queuedBody = 0
  BY <1>6, <1>7, <1>8
<1> QED
  BY <1>9 DEF t

\* The process ends: what s leaves behind is enough.
LEMMA EndedInv ==
  ASSUME Inv, up, NEW s, Durable(s, sent, failed', got), Ended(s), failed' \subseteq Failure
  PROVE  Inv' /\ b'.wrote = s.wrote
<1> DEFINE t == Fresh(s.box, s.grave, s.refused, s.wrote)
           g == failed'
           n == sent + (sent % 2)
<1>1. /\ up' = FALSE /\ b' = t /\ sent' = n /\ recent' = FALSE
      /\ UNCHANGED <<ids, twin, got, process, first, old>>
  BY DEF Ended
<1>2. Typed /\ Flags
  BY InvTyped DEF Inv
<1>3. sent \in 0..2 * MaxInject /\ got \subseteq 1..sent /\ old \in 0..sent /\ first <= sent + 1 /\ first \in 1..2 * MaxInject + 1
  BY <1>2 DEF Flags
<1>4. n \in 0..2 * MaxInject /\ n >= sent /\ n % 2 = 0 /\ n \in Nat /\ sent \in Nat
  <2>1. sent % 2 = 0 \/ sent % 2 = 1
    BY <1>3
  <2>2. CASE sent % 2 = 0
    BY <1>3, <2>2
  <2>3. CASE sent % 2 = 1
    <3>1. sent # 2 * MaxInject /\ (sent + 1) % 2 = 0
      BY <1>3, <2>3
    <3> QED
      BY <1>3, <2>3, <3>1
  <2> QED
    BY <2>1, <2>2, <2>3
<1> HIDE DEF n
<1>5. Flags'
  <2>1. got \subseteq 1..n /\ old \in 0..n /\ first <= n + 1
    BY <1>3, <1>4
  <2> QED
    BY <1>1, <1>2, <1>4, <2>1 DEF Flags
<1>6. Durable(s, sent, g, got)
  OBVIOUS
<1> HIDE DEF g, t
<1>7. Durable(s, n, g, got)
  <2>1. \A k \in Frame : k > n => k > sent
    BY <1>4 DEF Frame
  <2> QED
    BY <1>6, <2>1 DEF Durable
<1>8. Durable(t, n, g, got) /\ Asleep(t) /\ t.wrote = s.wrote /\ t.queuedBody = 0
  BY <1>7, FreshDurable DEF t
<1>9. got \in SUBSET Frame
  BY <1>2 DEF Typed
<1>10. Sound(t, n, g, got, {}) /\ Counted(t, n, g)
  BY <1>4, <1>8, <1>9, AsleepSound
<1>11. Sound(b', sent', failed', got', {}) /\ Counted(b', sent', failed')
  BY <1>1, <1>10 DEF g
<1>12. Good(b, sent, failed, got, {})'
  BY <1>1, <1>11, SoundNext DEF Good
<1>13. Asleep(b)'
  BY <1>1, <1>8 DEF Asleep, Frame
<1> QED
  BY <1>1, <1>5, <1>8, <1>12, <1>13 DEF Inv

\* The failures of a step, seen from the mailbox.
LEMMA DurableBefore ==
  ASSUME Inv, NEW K, NEW S, NEW fault \in Faults(K, S), Meet(fault)
  PROVE  /\ Durable(b, sent, failed', got) /\ failed' \subseteq Failure /\ failed \subseteq failed'
         /\ fault.kinds \subseteq failed'
<1>1. failed' = failed \cup fault.kinds
  BY DEF Meet
<1>2. failed' \subseteq Failure
  BY <1>1, FaultKinds DEF Inv, Flags
<1>3. Durable(b, sent, failed, got)
  BY SoundDurable DEF Inv, Good
<1> DEFINE g == failed'
<1>4. failed \subseteq g
  BY <1>1
<1> HIDE DEF g, Meet
<1>5. Durable(b, sent, g, got)
  BY <1>3, <1>4, FailsDurable
<1> QED
  BY <1>1, <1>2, <1>4, <1>5 DEF g

\* What any step writes; the step that meets a failure of the recovery writes nothing.
WellWritten ==
  /\ Writes(b, b', failed')
  /\ "recover" \in failed' => "recover" \in failed \/ b'.wrote = b.wrote

\* A frame that is known to be unwritten at the exit was not written.
LEMMA CloseInv ==
  ASSUME Inv, Close
  PROVE  Inv' /\ WellWritten
<1> DEFINE K == {"exit"}
           known == KnownUnwritten(b)
           rest == Live(b) \ known
<1>1. PICK fault \in Faults(K, Live(b)) : Ended(PurgeIfMoved(AtExit(b, fault))) /\ Meet(fault)
  BY DEF Close
<1>2. up
  BY DEF Close
<1> HIDE DEF K
<1> DEFINE g == failed'
           q == Quarantine(b, known, "not_written", "exit", fault)
           r == Quarantine(q, rest, "unknown", "exit", fault)
           M1 == Moved(known, "exit", fault)
           M2 == Moved(rest, "exit", fault)
           p == PurgeIfMoved(r)
<1>3. Durable(b, sent, g, got) /\ g \subseteq Failure
  BY <1>1, DurableBefore
<1>4. Typed /\ Sound(b, sent, failed, got, {})
  BY InvTyped DEF Inv, Good
<1>5. ids \in BOOLEAN /\ got \in SUBSET Frame /\ b \in Bridge
  BY <1>4 DEF Typed
<1>6. known \in SUBSET Live(b) /\ known \in SUBSET Frame /\ rest \in SUBSET Frame /\ rest \in SUBSET Live(b)
      /\ M1 \in SUBSET known /\ M2 \in SUBSET rest /\ "not_written" \in Certainty /\ "unknown" \in Certainty
  BY DEF KnownUnwritten, Live, Moved, Certainty
<1>7. \A k \in known : k \in b.wrote => "not_written" # "not_written"
  BY <1>4 DEF Sound, Settled, KnownUnwritten
<1>8. AtExit(b, fault) = r
  BY DEF AtExit
<1>9. rest \cap known = {}
  OBVIOUS
<1> HIDE DEF g, known, rest, M1, M2
<1>10. Buries(b, q, known, M1, "not_written")
  BY <1>5, <1>6, QuarantineBuries DEF M1
<1> HIDE DEF q
<1>11. Durable(q, sent, g, got) /\ Live(q) = Live(b) \ M1
  BY <1>3, <1>5, <1>6, <1>7, <1>10, BuriesDurable
<1>12. q \in Bridge /\ rest \in SUBSET Live(q)
  BY <1>6, <1>9, <1>11 DEF Durable
<1>13. Buries(q, r, rest, M2, "unknown")
  BY <1>5, <1>6, <1>12, QuarantineBuries DEF M2
<1> HIDE DEF r
<1>14. Durable(r, sent, g, got)
  <2>1. \A k \in rest : k \in q.wrote => "unknown" # "not_written"
    OBVIOUS
  <2> QED
    BY <1>5, <1>6, <1>11, <1>12, <1>13, <2>1, BuriesDurable
<1>15. Durable(p, sent, g, got) /\ p.wrote = r.wrote
  BY <1>5, <1>14, PurgedDurable
<1>16. r.wrote = b.wrote
  BY <1>10, <1>13 DEF Buries
<1>17. Ended(p)
  BY <1>1, <1>8
<1> HIDE DEF p
<1>18. Inv' /\ b'.wrote = p.wrote
  BY <1>2, <1>3, <1>15, <1>17, EndedInv DEF g
<1> QED
  BY <1>15, <1>16, <1>18 DEF Writes, WellWritten

\* What was written directly before the process was killed counts as written.
LEMMA KillInv ==
  ASSUME Inv, CloseRefused \/ Kill
  PROVE  Inv' /\ WellWritten
<1>1. up /\ failed' = failed /\ failed \subseteq Failure
  BY DEF CloseRefused, Kill, Inv, Flags
<1>2. /\ Typed /\ Good(b, sent, failed, got, {}) /\ Running(b, sent, failed, {})
      /\ Sound(b, sent, failed, got, {}) /\ b \in Bridge
  BY <1>1, Calm
<1>3. first \in Nat /\ first % 2 = 1 /\ sent \in Nat /\ got \in SUBSET Frame
  BY <1>2 DEF Typed
<1>4. CASE Ended(b)
  <2>1. Durable(b, sent, failed', got)
    BY <1>1, <1>2, SoundDurable
  <2>2. Inv' /\ b'.wrote = b.wrote
    BY <1>1, <1>4, <2>1, EndedInv
  <2> QED
    BY <2>2 DEF Writes, WellWritten
<1>5. ASSUME NEW k \in Pending(b), Ended(InFlight(b, {j \in Frame : b.box[j] = "pending" /\ j <= k}))
      PROVE  Inv' /\ WellWritten
  <2> DEFINE S == {j \in Frame : b.box[j] = "pending" /\ j <= k}
             t == InFlight(b, S)
  <2>1. S \in SUBSET Frame /\ S \in SUBSET Waiting(b)
    BY DEF Waiting
  <2> HIDE DEF S
  <2>2. Takes(b, t, S)
    BY <1>2, <2>1, InFlightTakes
  <2>3. Ended(t)
    BY <1>5 DEF S
  <2> HIDE DEF t
  <2>4. Sound(t, sent, failed, got, {})
    BY <1>2, <1>3, <2>1, <2>2, TakesSound
  <2>5. Durable(t, sent, failed', got) /\ t.wrote = b.wrote
    BY <1>1, <2>2, <2>4, SoundDurable DEF Takes
  <2>6. Inv' /\ b'.wrote = t.wrote
    BY <1>1, <2>3, <2>5, EndedInv
  <2> QED
    BY <2>5, <2>6 DEF Writes, WellWritten
<1>6. ASSUME b.timers # <<>>, Ended(Written(b, Head(b.timers).frame))
      PROVE  Inv' /\ WellWritten
  <2> DEFINE k == Head(b.timers).frame
             t == [b EXCEPT !.timers = Tail(b.timers)]
             y == Written(b, k)
             x == Written(t, k)
             v == [x EXCEPT !.rec[k] = "none"]
  <2>1. Pops(b, t, k)
    BY <1>2, <1>6, PopIs
  <2>2. Ended(y)
    BY <1>6
  <2> HIDE DEF t, k
  <2>3. t \in Bridge /\ k \in Frame
    BY <2>1 DEF Pops
  <2>4. /\ x \in Bridge /\ x.wrote = t.wrote \cup {k} /\ x.box = t.box /\ x.rec = t.rec
        /\ x.grave = t.grave /\ x.refused = t.refused /\ x.held = t.held /\ x.unwritten = t.unwritten
        /\ x.timers = t.timers /\ x.child = t.child /\ x.count = t.count /\ x.queuedBody = t.queuedBody
        /\ x.tick = t.tick
    BY <2>3 DEF Written, Bridge
  <2> HIDE DEF x
  <2>5. Strikes(t, v, k)
    BY <2>3, <2>4 DEF Strikes, Bridge
  <2> HIDE DEF v
  <2>6. Good(v, sent, failed, got, {}) /\ Writes(b, v, failed)
    BY <1>2, <1>3, <2>1, <2>5, StrikeGood
  <2>7. Durable(v, sent, failed, got)
    BY <2>6, SoundDurable DEF Good
  <2>8. /\ y \in Bridge /\ y.wrote = b.wrote \cup {k} /\ y.box = b.box /\ y.grave = b.grave /\ y.refused = b.refused
    BY <1>2, <2>3 DEF Written, Bridge
  <2>9. /\ v.wrote = y.wrote /\ v.grave = y.grave /\ v.refused = y.refused
        /\ v.box = y.box
    <3>1. v = [x EXCEPT !.rec[k] = "none"]
      BY DEF v
    <3>2. v.box = x.box /\ v.grave = x.grave /\ v.refused = x.refused /\ v.wrote = x.wrote
      BY <2>4, <3>1 DEF Bridge
    <3> QED
      BY <2>1, <2>4, <2>8, <3>2 DEF Pops
  <2> HIDE DEF y
  <2>10. Durable(y, sent, failed', got)
    BY <1>1, <2>7, <2>8, <2>9 DEF Durable, Live, Kept
  <2>11. Inv' /\ b'.wrote = y.wrote
    BY <1>1, <2>2, <2>10, EndedInv
  <2> QED
    BY <1>1, <2>6, <2>9, <2>11 DEF Writes, WellWritten
<1> QED
  BY <1>4, <1>5, <1>6 DEF CloseRefused, Kill

\* The next process recovers the mailbox: a row that stays live could not be withdrawn.
LEMMA StartInv ==
  ASSUME Inv, Start
  PROVE  Inv' /\ WellWritten
<1> DEFINE K == {"recover"}
           flying == {k \in Live(b) : b.box[k] = "in_flight"}
           rest == Live(b) \ flying
<1>1. PICK fault \in Faults(K, Live(b)) :
        /\ ~up /\ process < MaxProcess
        /\ process' = process + 1 /\ first' = sent + 1 /\ up' = TRUE
        /\ b' = Recovered(b, fault) /\ Meet(fault)
        /\ UNCHANGED <<ids, twin, sent, got, old, recent>>
  BY DEF Start
<1> HIDE DEF K
<1> DEFINE g == failed'
           q == Quarantine(b, flying, "unknown", "recover", fault)
           r == Quarantine(q, rest, "not_written", "recover", fault)
           M1 == Moved(flying, "recover", fault)
           M2 == Moved(rest, "recover", fault)
<1>2. Durable(b, sent, g, got) /\ g \subseteq Failure /\ fault.kinds \subseteq g
  BY <1>1, DurableBefore
<1>3. Typed /\ Flags /\ Sound(b, sent, failed, got, {}) /\ Asleep(b)
  BY <1>1, InvTyped DEF Inv, Good
<1>4. ids \in BOOLEAN /\ got \in SUBSET Frame /\ b \in Bridge /\ sent \in Nat
  BY <1>3 DEF Typed
<1>5. /\ flying \in SUBSET Live(b) /\ flying \in SUBSET Frame /\ rest \in SUBSET Frame /\ rest \in SUBSET Live(b)
      /\ M1 \in SUBSET flying /\ M2 \in SUBSET rest /\ "not_written" \in Certainty /\ "unknown" \in Certainty
  BY DEF Live, Moved, Certainty
<1>6. \A k \in rest : k \notin b.wrote
  BY <1>3 DEF Sound, Settled, Live
<1>7. Recovered(b, fault) = IF Live(q) \ flying = rest THEN r ELSE Recovered(b, fault)
  BY DEF Recovered
<1>8. rest \cap flying = {}
  OBVIOUS
<1>9. \A k \in Live(b) : k \in M1 \/ k \in M2 \/ "recover" \in g
  BY <1>2 DEF Moved, Throws
<1> HIDE DEF g, flying, rest, M1, M2
<1>10. Buries(b, q, flying, M1, "unknown")
  BY <1>4, <1>5, QuarantineBuries DEF M1
<1> HIDE DEF q
<1>11. Durable(q, sent, g, got) /\ Live(q) = Live(b) \ M1
  <2>1. \A k \in flying : k \in b.wrote => "unknown" # "not_written"
    OBVIOUS
  <2> QED
    BY <1>2, <1>4, <1>5, <1>10, <2>1, BuriesDurable
<1>12. q \in Bridge /\ rest \in SUBSET Live(q) /\ Live(q) \ flying = rest
  BY <1>5, <1>8, <1>11 DEF Durable, rest
<1>13. Buries(q, r, rest, M2, "not_written")
  BY <1>4, <1>5, <1>12, QuarantineBuries DEF M2
<1>14. b' = r
  BY <1>1, <1>7, <1>12
<1> HIDE DEF r
<1>15. Durable(r, sent, g, got) /\ Live(r) = Live(q) \ M2
  <2>1. \A k \in rest : k \in q.wrote => "not_written" # "not_written"
    BY <1>6, <1>10 DEF Buries
  <2> QED
    BY <1>4, <1>5, <1>11, <1>12, <1>13, <2>1, BuriesDurable
<1>16. r.wrote = b.wrote
  BY <1>10, <1>13 DEF Buries
<1>17. /\ \A k \in Frame : q.rec[k] = "none"
       /\ q.held = {} /\ q.unwritten = {} /\ q.timers = <<>> /\ q.count = 0 /\ q.queuedBody = b.queuedBody
  <2>1. /\ \A k \in Frame : b.rec[k] = "none"
        /\ b.held = {} /\ b.unwritten = {} /\ b.timers = <<>> /\ b.count = 0
    BY <1>3 DEF Asleep
  <2> QED
    BY <1>5, <1>10, <2>1 DEF Buries
<1>18. /\ \A k \in Frame : r.rec[k] = "none"
       /\ r.held = {} /\ r.unwritten = {} /\ r.timers = <<>> /\ r.count = 0 /\ r.queuedBody = b.queuedBody
  BY <1>5, <1>13, <1>17 DEF Buries
<1>19. Asleep(r)
  <2>1. r.rec \in [Frame -> {"none", "pending", "in_flight"}]
    BY <1>15 DEF Durable, Bridge
  <2>2. r.rec = [k \in Frame |-> "none"]
    BY <1>18, <2>1
  <2> QED
    BY <1>18, <2>2 DEF Asleep
<1>20. r.queuedBody # 0 => ~IsCr(r.queuedBody)
  BY <1>3, <1>18 DEF Sound, BodiesHeld
<1>21. Sound(r, sent, g, got, {}) /\ Counted(r, sent, g) /\ Pending(r) = {}
  BY <1>4, <1>15, <1>19, <1>20, AsleepSound
<1>22. /\ b' = r /\ sent' = sent /\ got' = got /\ failed' = g /\ ids' = ids /\ old' = old /\ up' = TRUE
       /\ first' = sent + 1
  BY <1>1, <1>14 DEF g
<1>23. Flags'
  <2>1. /\ sent \in 0..2 * MaxInject /\ sent % 2 = 0 /\ process \in 1..MaxProcess /\ first' = sent + 1
        /\ process' = process + 1 /\ process < MaxProcess
    BY <1>1, <1>3 DEF Flags
  <2>2. first' \in 1..2 * MaxInject + 1 /\ first' % 2 = 1 /\ first' <= sent + 1 /\ process' \in 1..MaxProcess
    BY <2>1
  <2> QED
    BY <1>1, <1>2, <1>3, <1>22, <2>1, <2>2 DEF Flags
<1>24. \A k \in Live(r) : "recover" \in g
  BY <1>9, <1>11, <1>15
<1>25. DOMAIN r.timers = {}
  BY <1>18
<1>26. /\ Unsent(b, sent)' /\ Indexed(b, failed)' /\ Settled(b)' /\ Armed(b)' /\ Distinct(b)'
  <2>1. Unsent(b, sent)'
    BY <1>21, <1>22 DEF Sound, Unsent, Frame
  <2>2. Indexed(b, failed)'
    BY <1>18, <1>22, <1>24 DEF Indexed, Frame, Live
  <2>3. Settled(b)'
    BY <1>21, <1>22 DEF Sound, Settled
  <2>4. Armed(b)' /\ Distinct(b)'
    BY <1>22, <1>25 DEF Armed, Distinct
  <2> QED
    BY <2>1, <2>2, <2>3, <2>4
<1>27. BodiesHeld(b)' /\ Ordered(b)' /\ Kept(b, got, {})'
  <2>1. BodiesHeld(b)'
    BY <1>21, <1>22 DEF Sound, BodiesHeld, IsCr
  <2>2. Ordered(b)'
    BY <1>18, <1>22, <1>25 DEF Ordered, Frame
  <2>3. Kept(b, got, {})'
    BY <1>21, <1>22 DEF Sound, Kept, Live, Frame
  <2> QED
    BY <2>1, <2>2, <2>3
<1>28. Doomed(b, failed)'
  <2> SUFFICES ASSUME ids \/ "withdraw" \notin g, NEW k \in Frame, "not_written" \in r.grave[k],
                      ~("recover" \in g /\ k < sent + 1)
               PROVE  k \notin r.wrote
    BY <1>18, <1>22, <1>25 DEF Doomed, Excepted, Frame
  <2>1. k > sent \/ "recover" \notin g
    BY <1>4 DEF Frame
  <2>2. CASE k > sent
    BY <1>15, <2>2 DEF Durable
  <2>3. CASE "recover" \notin g
    BY <1>15, <2>3 DEF Durable, Excepted
  <2> QED
    BY <2>1, <2>2, <2>3
<1>29. Own(b)' /\ Accounted(b, sent, failed, {})'
  <2>1. \A k \in Frame : k >= sent + 1 => r.box[k] = "none" /\ ~(k <= sent)
    BY <1>4, <1>15 DEF Durable, Frame
  <2>2. Own(b)'
    BY <1>22, <2>1 DEF Own, Frame
  <2>3. Accounted(b, sent, failed, {})'
    BY <1>22, <1>25, <2>1 DEF Accounted, Frame
  <2> QED
    BY <2>2, <2>3
<1>30. Counted(b, sent, failed)' /\ Ticking'
  BY <1>21, <1>22 DEF Counted, Pending, Frame, Ticking
<1>31. (b \in Bridge)'
  BY <1>15, <1>22 DEF Durable, Bridge, Frame, Certainty
<1>32. Inv'
  BY <1>22, <1>23, <1>26, <1>27, <1>28, <1>29, <1>30, <1>31 DEF Inv, Good, Sound, Running
<1> QED
  BY <1>16, <1>22, <1>32 DEF Writes, WellWritten

-----------------------------------------------------------------------------
(* The theorems. *)

\* The first process starts with an empty mailbox.
LEMMA InitInv == Init => Inv
<1> SUFFICES ASSUME Init
             PROVE  Inv
  OBVIOUS
<1> DEFINE box == [k \in Frame |-> "none"]
           grave == [k \in Frame |-> {}]
           t == Fresh(box, grave, {}, {})
<1>1. /\ b = t /\ ids \in BOOLEAN /\ twin \in BOOLEAN /\ sent = 0 /\ got = {} /\ process = 1 /\ first = 1 /\ up = TRUE
      /\ old = 0 /\ recent = FALSE /\ failed = {}
  BY DEF Init
<1>2. /\ t.box = box /\ t.grave = grave /\ t.refused = {} /\ t.wrote = {}
      /\ t.rec = [k \in Frame |-> "none"] /\ t.held = {} /\ t.unwritten = {} /\ t.timers = <<>>
      /\ t.count = 0 /\ t.queuedBody = 0
  BY DEF Fresh
<1>3. t \in Bridge
  <2>1. 0 \in 0..2 * MaxInject /\ 1 \in 1..MaxChild
    OBVIOUS
  <2>2. <<>> \in Seq([frame : Frame, child : 1..MaxChild])
    OBVIOUS
  <2>3. box \in [Frame -> {"none", "pending", "in_flight", "done"}] /\ grave \in [Frame -> SUBSET Certainty]
        /\ [k \in Frame |-> "none"] \in [Frame -> {"none", "pending", "in_flight"}]
    OBVIOUS
  <2> HIDE DEF box, grave
  <2> QED
    BY <2>1, <2>2, <2>3 DEF Bridge, Fresh
<1>4. \A k \in Frame : box[k] = "none" /\ grave[k] = {}
  OBVIOUS
<1> HIDE DEF t, box, grave
<1>5. Durable(t, 0, {}, {})
  BY <1>2, <1>3, <1>4 DEF Durable, Live, Kept
<1>6. Asleep(t)
  BY <1>2 DEF Asleep
<1>7. Sound(t, 0, {}, {}, {}) /\ Counted(t, 0, {}) /\ Pending(t) = {}
  BY <1>2, <1>5, <1>6, AsleepSound
<1>8. Own(t) /\ Accounted(t, 0, {}, {})
  <2>1. DOMAIN t.timers = {} /\ \A k \in Frame : t.box[k] = "none" /\ ~(k <= 0)
    BY <1>2, <1>4 DEF Frame
  <2> QED
    BY <2>1 DEF Own, Accounted
<1>9. Flags
  <2>1. sent \in 0..2 * MaxInject /\ first \in 1..2 * MaxInject + 1 /\ process \in 1..MaxProcess /\ old \in 0..sent
    BY <1>1
  <2>2. first % 2 = 1 /\ first <= sent + 1
    BY <1>1
  <2> QED
    BY <1>1, <2>1, <2>2 DEF Flags
<1>10. Good(b, sent, failed, got, {}) /\ Running(b, sent, failed, {}) /\ Ticking
  BY <1>1, <1>7, <1>8 DEF Good, Running, Ticking
<1> QED
  BY <1>1, <1>9, <1>10 DEF Inv

\* A step of a process that runs on.
LEMMA ShowsInv ==
  ASSUME NEW K, Shows(K), "recover" \notin K, Inv, up, up' = up, UNCHANGED <<ids, twin, process, first>>, recent' \in BOOLEAN,
         sent' \in 0..2 * MaxInject, sent <= sent', got' \subseteq 1..sent', old' \in 0..sent'
  PROVE  Inv' /\ WellWritten
<1>1. Flags'
  <2>1. first <= sent' + 1
    <3>1. first <= sent + 1 /\ first \in 1..2 * MaxInject + 1 /\ sent \in 0..2 * MaxInject
      BY DEF Inv, Flags
    <3>2. sent' \in Int /\ sent \in Int /\ first \in Int /\ sent <= sent'
      BY <3>1
    <3>3. \A x, y, z \in Int : x <= y + 1 /\ y <= z => x <= z + 1
      OBVIOUS
    <3>4. first <= sent + 1 /\ sent <= sent' => first <= sent' + 1
      BY <3>2, <3>3, Zenon
    <3> QED
      BY <3>1, <3>2, <3>4, Zenon
  <2> QED
    BY <2>1 DEF Shows, Inv, Flags
<1> QED
  BY <1>1 DEF Shows, Inv, WellWritten

\* Every step of a process that runs on keeps the invariant.
LEMMA RunInv ==
  ASSUME Inv, Receive \/ NoSubmit \/ Age \/ Tick \/ Ready \/ Fallback \/ Fire \/ Type \/ Quiet \/ Respawn
  PROVE  Inv' /\ WellWritten
<1>1. Flags
  BY DEF Inv
<1>2. /\ sent \in 0..2 * MaxInject /\ got \subseteq 1..sent /\ old \in 0..sent /\ recent \in BOOLEAN
  BY <1>1 DEF Flags
<1>3. CASE Receive
  <2>1. /\ up /\ sent' = sent + 1 /\ sent < 2 * MaxInject /\ got' = got \cup {sent'}
        /\ UNCHANGED <<ids, twin, process, first, up, old, recent>>
    BY <1>3 DEF Receive
  <2>2. sent' \in 0..2 * MaxInject /\ sent <= sent' /\ got' \subseteq 1..sent' /\ old' \in 0..sent'
    BY <1>2, <2>1
  <2> QED
    BY <1>2, <1>3, <2>1, <2>2, ReceiveShows, ShowsInv
<1>4. CASE NoSubmit
  <2>1. /\ up /\ sent' = sent + 1 /\ sent % 2 = 1
        /\ UNCHANGED <<ids, twin, got, process, first, up, old, recent>>
    BY <1>4 DEF NoSubmit
  <2>2. sent' \in 0..2 * MaxInject /\ sent <= sent' /\ got' \subseteq 1..sent' /\ old' \in 0..sent'
    <3>1. sent # 2 * MaxInject
      BY <1>2, <2>1
    <3> QED
      BY <1>2, <2>1, <3>1
  <2> QED
    BY <1>2, <1>4, <2>1, <2>2, NoSubmitShows, ShowsInv
<1>5. CASE Age
  <2>1. up /\ old' \in old + 1 .. sent /\ UNCHANGED <<ids, twin, sent, got, process, first, up, recent>>
    BY <1>5 DEF Age
  <2>2. sent' \in 0..2 * MaxInject /\ sent <= sent' /\ got' \subseteq 1..sent' /\ old' \in 0..sent'
    BY <1>2, <2>1
  <2> QED
    BY <1>2, <1>5, <2>1, <2>2, AgeShows, ShowsInv
<1>6. ASSUME NEW K, Shows(K), "recover" \notin K, up, recent' \in BOOLEAN, UNCHANGED <<ids, twin, sent, got, process, first, up, old>>
      PROVE  Inv' /\ WellWritten
  <2>1. sent' \in 0..2 * MaxInject /\ sent <= sent' /\ got' \subseteq 1..sent' /\ old' \in 0..sent'
    BY <1>2, <1>6
  <2> QED
    BY <1>6, <2>1, ShowsInv
<1>7. CASE Tick
  <2>1. up /\ UNCHANGED <<ids, twin, sent, got, process, first, up, old, recent>>
    BY <1>7 DEF Tick
  <2> QED
    BY <1>2, <1>6, <1>7, <2>1, TickShows
<1>8. CASE Ready
  <2>1. PICK fault \in Faults({"withdraw"}, Live(b)) :
          /\ up /\ b' = Flush([b EXCEPT !.ready = TRUE], fault) /\ Meet(fault)
          /\ UNCHANGED <<ids, twin, sent, got, process, first, up, old, recent>>
    BY <1>8 DEF Ready
  <2> DEFINE s == [b EXCEPT !.ready = TRUE]
  <2>2. s = [b EXCEPT !.ready = TRUE] /\ b' = Flush(s, fault)
    BY <2>1
  <2> HIDE DEF s
  <2>3. Shows({"withdraw"})
    BY <2>1, <2>2, FlushShows
  <2> QED
    BY <1>2, <1>6, <2>1, <2>3
<1>9. CASE Fallback
  <2>1. PICK fault \in Faults({"withdraw"}, Live(b)) :
          /\ up /\ b' = Flush(b, fault) /\ Meet(fault)
          /\ UNCHANGED <<ids, twin, sent, got, process, first, up, old, recent>>
    BY <1>9 DEF Fallback
  <2>2. Shows({"withdraw"})
    BY <2>1, FlushShows
  <2> QED
    BY <1>2, <1>6, <2>1, <2>2
<1>10. CASE Fire
  <2>1. up /\ UNCHANGED <<ids, twin, sent, got, process, first, up, old, recent>>
    BY <1>10 DEF Fire
  <2> QED
    BY <1>2, <1>6, <1>10, <2>1, FireShows
<1>11. CASE Type
  <2>1. up /\ recent' \in BOOLEAN /\ UNCHANGED <<ids, twin, sent, got, process, first, up, old>>
    BY <1>11 DEF Type
  <2> QED
    BY <1>6, <1>11, <2>1, TypeShows
<1>12. CASE Quiet
  <2>1. up /\ recent' \in BOOLEAN /\ UNCHANGED <<ids, twin, sent, got, process, first, up, old>>
    BY <1>12 DEF Quiet
  <2> QED
    BY <1>6, <1>12, <2>1, QuietShows
<1>13. CASE Respawn
  <2>1. up /\ UNCHANGED <<ids, twin, sent, got, process, first, up, old, recent>>
    BY <1>13 DEF Respawn
  <2> QED
    BY <1>2, <1>6, <1>13, <2>1, RespawnShows
<1> QED
  BY <1>3, <1>4, <1>5, <1>7, <1>8, <1>9, <1>10, <1>11, <1>12, <1>13

\* The invariant is inductive, and every step writes well.
LEMMA NextInv == Inv /\ [Next]_vars => Inv' /\ WellWritten
<1> SUFFICES ASSUME Inv, [Next]_vars
             PROVE  Inv' /\ WellWritten
  OBVIOUS
<1>1. CASE UNCHANGED vars
  <2>1. /\ ids' = ids /\ twin' = twin /\ sent' = sent /\ got' = got /\ process' = process /\ first' = first
        /\ up' = up /\ b' = b /\ old' = old /\ recent' = recent /\ failed' = failed
    BY <1>1 DEF vars
  <2>2. Flags'
    BY <2>1 DEF Inv, Flags
  <2>3. Sound(b', sent', failed', got', {}) /\ Counted(b', sent', failed')
    BY <2>1 DEF Inv, Good
  <2>4. Good(b, sent, failed, got, {})'
    BY <2>1, <2>3, SoundNext DEF Good
  <2>5. up => (Running(b, sent, failed, {}) /\ Ticking)'
    <3> SUFFICES ASSUME up
                 PROVE  (Running(b, sent, failed, {}) /\ Ticking)'
      OBVIOUS
    <3>1. Running(b', sent', failed', {})
      BY <2>1 DEF Inv
    <3>2. Running(b, sent, failed, {})'
      BY <2>1, <3>1, SoundNext
    <3>3. Ticking'
      BY <2>1 DEF Inv, Ticking, Pending, Frame
    <3> QED
      BY <3>2, <3>3
  <2>6. ~up => Asleep(b)'
    BY <2>1 DEF Inv, Asleep, Frame
  <2>7. Inv'
    BY <2>1, <2>2, <2>4, <2>5, <2>6 DEF Inv
  <2> QED
    BY <2>1, <2>7 DEF Writes, WellWritten
<1>2. CASE Close
  BY <1>2, CloseInv
<1>3. CASE CloseRefused \/ Kill
  BY <1>3, KillInv
<1>4. CASE Start
  BY <1>4, StartInv
<1>5. CASE Receive \/ NoSubmit \/ Age \/ Tick \/ Ready \/ Fallback \/ Fire \/ Type \/ Quiet \/ Respawn
  BY <1>5, RunInv
<1> QED
  BY <1>1, <1>2, <1>3, <1>4, <1>5 DEF Next

\* The inductive invariant: what waits in the mailbox, in the records, in the held bodies and
\* on the timers of a process fits together, and what the mailbox keeps is enough for the next.
THEOREM Invariant == Spec => []Inv
<1>1. Inv /\ [Next]_vars => Inv'
  BY NextInv
<1> QED
  BY InitInv, <1>1, PTL DEF Spec

\* The variables keep their types, no frame has two timers, and what is held is a body: the
\* timers of two flushes, the records and the held bodies of one process do not mix.
THEOREM TypeCorrect == Spec => []TypeOK
<1>1. Inv => TypeOK
  BY DEF Inv, Flags, Good, Sound, Distinct, BodiesHeld, TypeOK
<1> QED
  BY Invariant, <1>1, PTL

\* Until a dequeue throws, the count that decides whether a frame may overtake is the number of
\* records that wait, and while there is one the tick is armed.
THEOREM WatchedAlways == Spec => []Watched
<1>1. Inv => Watched
  BY DEF Inv, Flags, Good, Counted, Ticking, Watched
<1> QED
  BY Invariant, <1>1, PTL

\* A dead letter or a receipt that says not_written stays true across flushes, timers of an old
\* child, exits, kills and recoveries.
THEOREM NotWrittenAlways == Spec => []NotWrittenIsTrue
<1>1. Inv => NotWrittenIsTrue
  <2> SUFFICES ASSUME Inv, ~ids => "withdraw" \notin failed, NEW k \in b.wrote, ~("recover" \in failed /\ k < first)
               PROVE  k \notin b.refused /\ "not_written" \notin b.grave[k]
    BY DEF NotWrittenIsTrue
  <2>1. b \in Bridge /\ Settled(b) /\ Doomed(b, failed)
    BY DEF Inv, Good, Sound
  <2>2. k \in Frame /\ ~Excepted(failed, k)
    BY <2>1 DEF Bridge, Excepted
  <2>3. ids \/ "withdraw" \notin failed
    BY DEF Inv, Flags
  <2> QED
    BY <2>1, <2>2, <2>3 DEF Settled, Doomed
<1> QED
  BY Invariant, <1>1, PTL

\* Every frame that arrived was written, waits in the mailbox, lies in the dead letter or was
\* refused: no exit, kill, recovery or purge loses one.
THEOREM CustodyAlways == Spec => []CustodyKept
<1>1. Inv => CustodyKept
  BY DEF Inv, Good, Sound, Kept, CustodyKept
<1> QED
  BY Invariant, <1>1, PTL

\* Frames reach the child in the order of the daemon, whichever of the direct write, the flush
\* and the timers of two batches brings them there; only what the recovery of a later process
\* could not withdraw may be late.
THEOREM OrderAlways == Spec => WrittenInOrder
<1>1. Inv /\ [Next]_vars =>
        [\A k \in b'.wrote \ b.wrote : \A j \in b.wrote : j < k \/ ("recover" \in failed /\ k < first)]_vars
  BY NextInv DEF WellWritten, Writes, Excepted
<1> QED
  BY Invariant, <1>1, PTL DEF Spec, WrittenInOrder

\* A submit that names its body is written only after that body, as long as the mailbox answers
\* withdrawals and dequeues and no child is replaced.
THEOREM PairsAlways == Spec => SubmitNotAlone
<1>1. Inv /\ [Next]_vars =>
        [\A k \in b'.wrote \ b.wrote :
           ids /\ IsCr(k) /\ b.child = 1 /\ failed' \cap {"withdraw", "dequeue", "recover"} = {}
             => BodyOf(k) \in b.wrote]_vars
  BY NextInv DEF WellWritten, Writes, Answering
<1> QED
  BY Invariant, <1>1, PTL DEF Spec, SubmitNotAlone

=============================================================================
