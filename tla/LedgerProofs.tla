----------------------------- MODULE LedgerProofs -----------------------------
(***************************************************************************)
(* Proofs about Ledger and the operators of LedgerFormat, for any          *)
(* transactions, ids, operations and bounds; at the end, those about       *)
(* InjectObservation, whose observations the ledger keeps.                 *)
(*                                                                         *)
(* Reading and replaying are recursive functions over lines and segments:  *)
(* each is shown to exist and to be typed by induction over positions      *)
(* (Climb, from the well-foundedness of the naturals).  The frames that a  *)
(* segment commits only grow while lines are added to it (FramesGrow): the *)
(* log, which is what the fsynced lines commit (Stored), loses nothing.    *)
(*                                                                         *)
(* That is not enough for an acknowledged group: a commit frame counts the *)
(* frames before it, so it is read only behind whole groups.  The owner    *)
(* writes behind such a Clean end (WholeEnds), except after a failed       *)
(* write, which it follows with a new segment.                             *)
(*                                                                         *)
(* A group may lie on disk more than once: a recovery copies the last one, *)
(* and a failed write may leave one durable behind the back of the owner.  *)
(* From generation to generation the groups are in order (Ordered), and    *)
(* the owner writes behind them (Writing): so the log only gets longer at  *)
(* its end.  What recovery makes of it is in LedgerRecoveryProofs.         *)
(***************************************************************************)
EXTENDS Ledger, InjectObservation, SequenceTheorems, WellFoundedInduction, TLAPS

-----------------------------------------------------------------------------
(* Induction.                                                              *)

\* What holds at 0, and at each k if at its predecessor, holds up to n.
LEMMA Climb ==
  ASSUME NEW n \in Nat, NEW P, 0 \in P, \A k \in 1 .. n : k - 1 \in P => k \in P
  PROVE  \A k \in 0 .. n : k \in P
<1> DEFINE T == {k \in 0 .. n : k \notin P}
           R == {p \in Nat \X Nat : p[1] < p[2]}
<1> SUFFICES ASSUME T # {} PROVE FALSE
  OBVIOUS
<1>1. IsWellFoundedOn(R, Nat)
  BY NatLessThanWellFounded DEF OpToRel
<1>2. T \subseteq Nat
  OBVIOUS
<1>3. PICK k \in T : \A j \in T : ~(<<j, k>> \in R)
  BY Zenon, <1>1, <1>2, WFMin
<1>4. k \in 1 .. n /\ k - 1 \in 0 .. n
  BY <1>3
<1>5. k - 1 \notin T
  <2>1. k - 1 \in Nat /\ k \in Nat /\ k - 1 < k
    BY <1>4
  <2>2. <<k - 1, k>> \in R
    BY <2>1
  <2> QED
    BY <1>3, <2>2
<1> QED
  BY <1>3, <1>4, <1>5

-----------------------------------------------------------------------------
(* Groups.                                                                 *)

FrameLine == [t : {"frame"}, txn : Txn, pos : Nat \X Nat, op : Op, over : SUBSET Id, rec : Record]
CommitLine == [t : {"commit"}, n : Nat]
Kept == FrameLine \cup CommitLine
Line == Kept \cup {Torn}

Start == [groups |-> <<>>, open |-> <<>>, bad |-> FALSE]
Reading == [groups : Seq(Seq(FrameLine)), open : Seq(FrameLine), bad : BOOLEAN]

\* GroupStep over the first lines of s.
After(s) == CHOOSE f : f = [k \in 0 .. Len(s) |-> IF k = 0 THEN Start ELSE GroupStep(f[k - 1], s[k])]

\* A line is a frame, a commit frame, or torn.
LEMMA KindsOfLines ==
  /\ \A l \in FrameLine : l.t = "frame" /\ l # Torn
  /\ \A l \in CommitLine : l.t = "commit" /\ l.n \in Nat /\ l # Torn
BY DEF FrameLine, CommitLine, Torn

\* groupFrames reads a line into groups of frames.
LEMMA StepType ==
  ASSUME NEW r \in Reading, NEW l \in Kept
  PROVE  GroupStep(r, l) \in Reading
<1>1. CASE r.bad
  BY <1>1 DEF GroupStep
<1>2. CASE ~r.bad /\ l \in FrameLine
  <2>1. GroupStep(r, l) = [r EXCEPT !.open = Append(@, l)]
    BY <1>2, KindsOfLines DEF GroupStep
  <2>2. Append(r.open, l) \in Seq(FrameLine)
    BY <1>2 DEF Reading
  <2> QED
    BY Zenon, <2>1, <2>2 DEF Reading
<1>3. CASE ~r.bad /\ l \in CommitLine
  <2>1. GroupStep(r, l) = IF l.n = Len(r.open)
                          THEN [r EXCEPT !.groups = Append(@, r.open), !.open = <<>>]
                          ELSE [r EXCEPT !.bad = TRUE]
    BY <1>3, KindsOfLines DEF GroupStep
  <2>2. Append(r.groups, r.open) \in Seq(Seq(FrameLine)) /\ <<>> \in Seq(FrameLine)
    BY DEF Reading
  <2> QED
    BY Zenon, <2>1, <2>2 DEF Reading
<1> QED
  BY <1>1, <1>2, <1>3 DEF Kept

\* After is the recursive function that groupFrames computes.
LEMMA AfterIs ==
  ASSUME NEW s, Len(s) \in Nat
  PROVE  /\ DOMAIN After(s) = 0 .. Len(s)
         /\ After(s)[0] = Start
         /\ \A k \in 1 .. Len(s) : After(s)[k] = GroupStep(After(s)[k - 1], s[k])
<1> DEFINE N == Len(s)
           Value(f, k) == IF k = 0 THEN Start ELSE GroupStep(f[k - 1], s[k])
           Fits(f, n) == f = [k \in 0 .. n |-> Value(f, k)]
           P == {n \in Nat : \E f : Fits(f, n)}
<1>1. 0 \in P
  <2> DEFINE g == [k \in 0 .. 0 |-> Start]
  <2>1. \A k \in 0 .. 0 : Value(g, k) = Start
    OBVIOUS
  <2>2. Fits(g, 0)
    BY <2>1
  <2> QED
    BY Zenon, <2>2
<1>2. ASSUME NEW n \in 1 .. N, n - 1 \in P
      PROVE  n \in P
  <2>1. n \in Nat /\ n - 1 \in Nat
    OBVIOUS
  <2>2. PICK f : Fits(f, n - 1)
    BY <1>2
  <2> DEFINE g == [k \in 0 .. n |-> IF k = n THEN Value(f, n) ELSE f[k]]
  <2>3. \A k \in 0 .. n : Value(g, k) = Value(f, k)
    BY <2>1
  <2>4. \A k \in 0 .. n - 1 : f[k] = Value(f, k)
    BY <2>2
  <2> HIDE DEF Value
  <2>5. \A k \in 0 .. n : k = n \/ k \in 0 .. n - 1
    BY <2>1
  <2>6. \A k \in 0 .. n : g[k] = Value(f, k)
    BY <2>4, <2>5
  <2>7. g = [k \in 0 .. n |-> Value(g, k)]
    BY <2>3, <2>6
  <2> QED
    BY Zenon, <2>1, <2>7
<1>3. N \in P
  <2> HIDE DEF P
  <2>1. \A k \in 0 .. N : k \in P
    BY Zenon, <1>1, <1>2, Climb
  <2> QED
    BY <2>1
<1>4. Fits(After(s), N)
  <2> HIDE DEF Fits
  <2>1. \E f : Fits(f, N)
    BY <1>3
  <2>2. After(s) = CHOOSE f : Fits(f, N)
    BY Zenon DEF After, Fits
  <2> QED
    BY <2>1, <2>2
<1>5. N \in Nat
  OBVIOUS
<1> DEFINE a == After(s)
<1>6. a = [k \in 0 .. N |-> Value(a, k)]
  BY Zenon, <1>4
<1> HIDE DEF a
<1> QED
  BY <1>5, <1>6 DEF a

\* What groupFrames has read at any line.
LEMMA AfterType ==
  ASSUME NEW s \in Seq(Kept)
  PROVE  \A k \in 0 .. Len(s) : After(s)[k] \in Reading
<1> DEFINE P == {k \in Nat : After(s)[k] \in Reading}
<1>1. Len(s) \in Nat /\ \A k \in 1 .. Len(s) : s[k] \in Kept
  OBVIOUS
<1>2. 0 \in P
  BY <1>1, AfterIs DEF Start, Reading
<1>3. ASSUME NEW k \in 1 .. Len(s), k - 1 \in P PROVE k \in P
  BY <1>1, <1>3, AfterIs, StepType
<1> HIDE DEF P
<1>4. \A k \in 0 .. Len(s) : k \in P
  BY Zenon, <1>1, <1>2, <1>3, Climb
<1> QED
  BY <1>4 DEF P

\* Lines that two sequences share are read alike.
LEMMA AfterSame ==
  ASSUME NEW a, NEW b, Len(a) \in Nat, Len(b) \in Nat, NEW n \in Nat, n <= Len(a), n <= Len(b),
         \A k \in 1 .. n : a[k] = b[k]
  PROVE  \A k \in 0 .. n : After(a)[k] = After(b)[k]
<1> DEFINE P == {k \in Nat : After(a)[k] = After(b)[k]}
<1>1. 0 \in P
  BY AfterIs
<1>2. ASSUME NEW k \in 1 .. n, k - 1 \in P PROVE k \in P
  <2>1. k \in 1 .. Len(a) /\ k \in 1 .. Len(b)
    OBVIOUS
  <2> QED
    BY <1>2, <2>1, AfterIs
<1> HIDE DEF P
<1>3. \A k \in 0 .. n : k \in P
  BY Zenon, <1>1, <1>2, Climb
<1> QED
  BY <1>3 DEF P

\* The frames of the groups that are closed.
Closed(r) == {f \in FrameLine : \E i \in DOMAIN r.groups : \E j \in DOMAIN r.groups[i] : f = r.groups[i][j]}

\* A line takes no frame from the groups that are closed.
LEMMA StepClosed ==
  ASSUME NEW r \in Reading, NEW l \in Kept
  PROVE  Closed(r) \subseteq Closed(GroupStep(r, l))
<1>1. CASE GroupStep(r, l).groups = r.groups
  BY <1>1 DEF Closed
<1>2. CASE GroupStep(r, l).groups = Append(r.groups, r.open)
  <2>1. r.groups \in Seq(Seq(FrameLine)) /\ r.open \in Seq(FrameLine)
    BY DEF Reading
  <2>2. \A i \in DOMAIN r.groups : /\ i \in DOMAIN Append(r.groups, r.open)
                                   /\ Append(r.groups, r.open)[i] = r.groups[i]
    BY <2>1
  <2> QED
    BY <1>2, <2>2 DEF Closed
<1>3. GroupStep(r, l).groups \in {r.groups, Append(r.groups, r.open)}
  <2>1. CASE r.bad
    BY <2>1 DEF GroupStep
  <2>2. CASE ~r.bad /\ l.t = "frame"
    BY <2>2 DEF GroupStep, Reading
  <2>3. CASE ~r.bad /\ l.t # "frame"
    BY <2>3 DEF GroupStep, Reading
  <2> QED
    BY <2>1, <2>2, <2>3
<1> QED
  BY <1>1, <1>2, <1>3

\* So what is closed at a line is closed at the end.
LEMMA AfterGrows ==
  ASSUME NEW s \in Seq(Kept), NEW j \in 0 .. Len(s)
  PROVE  Closed(After(s)[j]) \subseteq Closed(After(s)[Len(s)])
<1> DEFINE P == {k \in Nat : k >= j => Closed(After(s)[j]) \subseteq Closed(After(s)[k])}
<1>1. Len(s) \in Nat /\ \A k \in 1 .. Len(s) : s[k] \in Kept
  OBVIOUS
<1>2. 0 \in P
  BY <1>1
<1>3. ASSUME NEW k \in 1 .. Len(s), k - 1 \in P PROVE k \in P
  <2>1. CASE k <= j
    BY <1>1, <2>1
  <2>2. CASE ~(k <= j)
    <3>1. k - 1 >= j /\ k \in Nat
      BY <1>1, <2>2
    <3>2. Closed(After(s)[j]) \subseteq Closed(After(s)[k - 1])
      BY <1>3, <3>1
    <3>3. After(s)[k - 1] \in Reading /\ After(s)[k] = GroupStep(After(s)[k - 1], s[k])
      BY <1>1, AfterIs, AfterType
    <3>4. Closed(After(s)[k - 1]) \subseteq Closed(After(s)[k])
      BY <1>1, <3>3, StepClosed
    <3> QED
      BY <3>1, <3>2, <3>4
  <2> QED
    BY <2>1, <2>2
<1> HIDE DEF P
<1>4. \A k \in 0 .. Len(s) : k \in P
  BY Zenon, <1>1, <1>2, <1>3, Climb
<1>5. Len(s) \in P
  BY <1>1, <1>4
<1> QED
  BY <1>1, <1>5 DEF P

-----------------------------------------------------------------------------
(* Lines that decode.                                                      *)

\* TornAt is the first torn line, or 0.
LEMMA FirstTorn ==
  ASSUME NEW s \in Seq(Line)
  PROVE  \/ TornAt(s) = 0 /\ \A k \in 1 .. Len(s) : s[k] # Torn
         \/ /\ TornAt(s) \in 1 .. Len(s) /\ s[TornAt(s)] = Torn
            /\ \A k \in 1 .. TornAt(s) - 1 : s[k] # Torn
<1>1. Len(s) \in Nat /\ DOMAIN s = 1 .. Len(s)
  OBVIOUS
<1>2. CASE \A k \in DOMAIN s : s[k] # Torn
  BY <1>1, <1>2 DEF TornAt
<1>3. CASE ~\A k \in DOMAIN s : s[k] # Torn
  <2> DEFINE First(k) == s[k] = Torn /\ \A j \in 1 .. k - 1 : s[j] # Torn
             P == {k \in Nat : \A j \in 1 .. k : s[j] # Torn}
  <2>1. \E k \in DOMAIN s : First(k)
    <3> SUFFICES ASSUME \A k \in DOMAIN s : ~First(k) PROVE FALSE
      OBVIOUS
    <3>1. 0 \in P
      OBVIOUS
    <3>2. ASSUME NEW k \in 1 .. Len(s), k - 1 \in P PROVE k \in P
      <4>1. k \in Nat /\ s[k] # Torn
        BY <1>1, <3>2
      <4>2. \A j \in 1 .. k : j = k \/ j \in 1 .. k - 1
        BY <1>1
      <4> QED
        BY <3>2, <4>1, <4>2
    <3> HIDE DEF P
    <3>3. \A k \in 0 .. Len(s) : k \in P
      BY Zenon, <1>1, <3>1, <3>2, Climb
    <3>4. Len(s) \in P
      BY <1>1, <3>3
    <3> QED
      BY <1>1, <1>3, <3>4 DEF P
  <2>2. TornAt(s) = CHOOSE k \in DOMAIN s : First(k)
    BY <1>3, Zenon DEF TornAt
  <2> HIDE DEF First
  <2>3. TornAt(s) \in DOMAIN s /\ First(TornAt(s))
    BY <2>1, <2>2
  <2> QED
    BY <1>1, <2>3 DEF First
<1> QED
  BY <1>2, <1>3

\* Decoded(s) is the longest beginning of s in which no line is torn.
LEMMA DecodedIs ==
  ASSUME NEW s \in Seq(Line)
  PROVE  /\ Decoded(s) \in Seq(Kept) /\ Len(Decoded(s)) \in 0 .. Len(s)
         /\ \A k \in 1 .. Len(Decoded(s)) : Decoded(s)[k] = s[k]
         /\ Len(Decoded(s)) < Len(s) => s[Len(Decoded(s)) + 1] = Torn
<1> DEFINE n == IF TornAt(s) = 0 THEN Len(s) ELSE TornAt(s) - 1
<1>1. n \in 0 .. Len(s) /\ \A k \in 1 .. n : s[k] \in Kept
  <2>1. \A k \in 1 .. Len(s) : s[k] \in Line
    OBVIOUS
  <2> QED
    BY <2>1, FirstTorn DEF Line
<1>2. Decoded(s) = SubSeq(s, 1, n)
  <2>1. s = SubSeq(s, 1, Len(s))
    OBVIOUS
  <2> QED
    BY Zenon, <2>1 DEF Decoded
<1>3. n < Len(s) => s[n + 1] = Torn
  BY <1>1, FirstTorn
<1> HIDE DEF n
<1>4. Len(SubSeq(s, 1, n)) = n /\ \A k \in 1 .. n : SubSeq(s, 1, n)[k] = s[k]
  BY <1>1
<1>5. SubSeq(s, 1, n) \in Seq(Kept)
  BY <1>1
<1> QED
  BY <1>1, <1>2, <1>3, <1>4, <1>5

\* The frames of the closed groups of a segment, and how reading it ends.
Frames(s) == Closed(GroupFrames(s))

\* GroupFrames is what After gives for the decoded lines.
LEMMA GroupsAre ==
  ASSUME NEW s
  PROVE  GroupFrames(s) = After(Decoded(s))[Len(Decoded(s))]
BY Zenon DEF GroupFrames, Along, After, Start

\* What is appended to a segment takes nothing from its groups.
LEMMA FramesGrow ==
  ASSUME NEW a \in Seq(Line), NEW b \in Seq(Line), Len(a) <= Len(b), \A k \in 1 .. Len(a) : a[k] = b[k]
  PROVE  Frames(a) \subseteq Frames(b)
<1> DEFINE c == Decoded(a)
           d == Decoded(b)
<1>1. /\ c \in Seq(Kept) /\ Len(c) \in 0 .. Len(a) /\ \A k \in 1 .. Len(c) : c[k] = a[k]
      /\ d \in Seq(Kept) /\ Len(d) \in 0 .. Len(b) /\ \A k \in 1 .. Len(d) : d[k] = b[k]
      /\ Len(d) < Len(b) => b[Len(d) + 1] = Torn
  BY DecodedIs
<1>2. GroupFrames(a) = After(c)[Len(c)] /\ GroupFrames(b) = After(d)[Len(d)]
  BY GroupsAre
<1> HIDE DEF c, d
<1>3. Len(c) <= Len(d)
  <2> SUFFICES ASSUME ~(Len(c) <= Len(d)) PROVE FALSE
    OBVIOUS
  <2>1. Len(d) + 1 \in 1 .. Len(c) /\ Len(d) + 1 \in 1 .. Len(a) /\ Len(d) < Len(b)
    BY <1>1
  <2>2. c[Len(d) + 1] = Torn /\ c[Len(d) + 1] \in Kept
    BY <1>1, <2>1
  <2> QED
    BY <2>2, KindsOfLines DEF Kept
<1>4. \A k \in 0 .. Len(c) : After(c)[k] = After(d)[k]
  <2>1. Len(c) \in Nat /\ Len(d) \in Nat
    BY <1>1
  <2>2. \A k \in 1 .. Len(c) : k \in 1 .. Len(d) /\ c[k] = a[k] /\ d[k] = b[k] /\ a[k] = b[k]
    BY <1>1, <1>3
  <2>3. \A k \in 1 .. Len(c) : c[k] = d[k]
    BY <2>2
  <2> QED
    BY <1>3, <2>1, <2>3, AfterSame
<1>5. Len(c) \in 0 .. Len(d) /\ Len(c) \in 0 .. Len(c)
  BY <1>1, <1>3
<1>6. Closed(After(d)[Len(c)]) \subseteq Closed(After(d)[Len(d)])
  BY Zenon, <1>1, <1>5, AfterGrows
<1> QED
  BY <1>2, <1>4, <1>5, <1>6 DEF Frames

\* A segment with nothing that a later group could suffer from.
Clean(s) ==
  /\ \A k \in DOMAIN s : s[k] # Torn
  /\ GroupFrames(s).open = <<>>
  /\ ~GroupFrames(s).bad

\* An empty segment is clean.
LEMMA EmptyClean == Clean(<<>>)
<1>1. <<>> \in Seq(Line) /\ Len(<<>>) = 0
  OBVIOUS
<1> DEFINE s == <<>>
<1>a. s \in Seq(Line) /\ Len(s) = 0
  BY <1>1
<1> HIDE DEF s
<1>b. Decoded(s) \in Seq(Kept) /\ Len(Decoded(s)) \in 0 .. Len(s)
  BY Zenon, <1>a, DecodedIs
<1>c. Len(Decoded(s)) = 0
  BY <1>a, <1>b
<1>2. Len(Decoded(<<>>)) = 0 /\ Decoded(<<>>) \in Seq(Kept)
  BY <1>b, <1>c DEF s
<1>3. GroupFrames(<<>>) = Start
  BY <1>2, GroupsAre, AfterIs
<1> QED
  BY <1>3 DEF Clean, Start

\* Without a torn line all of a segment is read.
LEMMA CleanDecodes ==
  ASSUME NEW s \in Seq(Line), \A k \in DOMAIN s : s[k] # Torn
  PROVE  Decoded(s) = s /\ s \in Seq(Kept) /\ GroupFrames(s) = After(s)[Len(s)]
<1>1. Decoded(s) = s
  <2>1. DOMAIN s = 1 .. Len(s)
    OBVIOUS
  <2>2. TornAt(s) = 0
    BY <2>1, FirstTorn
  <2> QED
    BY <2>2 DEF Decoded
<1> QED
  BY <1>1, DecodedIs, GroupsAre

\* A group that follows a clean segment is read whole, and leaves it clean.
LEMMA GroupAppended ==
  ASSUME NEW s \in Seq(Line), Clean(s), NEW fr \in Seq(FrameLine)
  PROVE  /\ s \o Group(fr) \in Seq(Line) /\ Clean(s \o Group(fr))
         /\ \A k \in DOMAIN fr : fr[k] \in Frames(s \o Group(fr))
         /\ GroupFrames(s \o Group(fr)).groups = Append(GroupFrames(s).groups, fr)
<1> DEFINE n == Len(s)
           m == Len(fr)
           all == s \o Group(fr)
           r == GroupFrames(s)
<1>1. s \in Seq(Kept) /\ r = After(s)[n] /\ r \in Reading /\ r.open = <<>> /\ ~r.bad
  <2>1. s \in Seq(Kept) /\ r = After(s)[n]
    BY CleanDecodes DEF Clean
  <2>2. n \in 0 .. Len(s)
    OBVIOUS
  <2> QED
    BY <2>1, <2>2, AfterType DEF Clean
<1>2. Commit(m) \in CommitLine /\ m \in Nat /\ n \in Nat
  BY DEF Commit, CommitLine
<1>3. Group(fr) \in Seq(Kept) /\ Len(Group(fr)) = m + 1
      /\ Group(fr)[m + 1] = Commit(m) /\ \A k \in 1 .. m : Group(fr)[k] = fr[k]
  <2>1. fr \in Seq(Kept) /\ Commit(m) \in Kept
    BY <1>2 DEF Kept
  <2> QED
    BY <2>1 DEF Group
<1> HIDE DEF r
<1>4. /\ all \in Seq(Kept) /\ Len(all) = n + m + 1 /\ all[n + m + 1] = Commit(m)
      /\ \A k \in 1 .. n : all[k] = s[k]
      /\ \A k \in 1 .. m : all[n + k] = fr[k]
  <2> DEFINE g == Group(fr)
  <2> HIDE DEF g
  <2>1. g \in Seq(Kept) /\ Len(g) = m + 1 /\ g[m + 1] = Commit(m) /\ \A k \in 1 .. m : g[k] = fr[k]
    BY <1>3 DEF g
  <2>2. /\ s \o g \in Seq(Kept) /\ Len(s \o g) = n + m + 1
        /\ \A k \in 1 .. n : (s \o g)[k] = s[k]
        /\ \A k \in 1 .. m + 1 : (s \o g)[n + k] = g[k]
    BY <1>1, <1>2, <2>1, SMTT(40)
  <2>3. \A k \in 1 .. m : k \in 1 .. m + 1
    BY <1>2
  <2>4. m + 1 \in 1 .. m + 1 /\ n + (m + 1) = n + m + 1
    BY <1>2
  <2> QED
    BY <2>1, <2>2, <2>3, <2>4 DEF g
<1> HIDE DEF all
<1>5. After(all)[n] = r
  <2>0. /\ Len(s) \in Nat /\ Len(all) \in Nat /\ n <= Len(s) /\ n <= Len(all)
        /\ \A k \in 1 .. n : s[k] = all[k]
    BY <1>2, <1>4
  <2>1. \A k \in 0 .. n : After(s)[k] = After(all)[k]
    BY <1>2, <2>0, AfterSame
  <2> QED
    BY <1>1, <1>2, <2>1
<1> DEFINE P == {k \in Nat : k <= m => After(all)[n + k] = [r EXCEPT !.open = SubSeq(fr, 1, k)]}
<1>6. 0 \in P
  <2>1. SubSeq(fr, 1, 0) = <<>> /\ r = [r EXCEPT !.open = <<>>]
    BY <1>1 DEF Reading
  <2> QED
    BY <1>2, <1>5, <2>1
<1>7. ASSUME NEW k \in 1 .. m, k - 1 \in P PROVE k \in P
  <2>1. n + k \in 1 .. Len(all) /\ (n + k) - 1 = n + (k - 1) /\ k - 1 \in 0 .. m /\ k - 1 <= m /\ k \in Nat
    BY <1>2, <1>4
  <2>a. Len(all) \in Nat /\ all[n + k] = fr[k]
    BY <1>2, <1>4
  <2>b. \A j \in 1 .. Len(all) : After(all)[j] = GroupStep(After(all)[j - 1], all[j])
    BY <2>a, AfterIs
  <2>2. After(all)[n + k] = GroupStep(After(all)[n + (k - 1)], fr[k])
    BY <2>1, <2>a, <2>b
  <2>3. After(all)[n + (k - 1)] = [r EXCEPT !.open = SubSeq(fr, 1, k - 1)]
    BY <1>7, <2>1
  <2>4. fr[k] \in FrameLine /\ fr[k].t = "frame"
    BY <1>7, KindsOfLines
  <2>5. Append(SubSeq(fr, 1, k - 1), fr[k]) = SubSeq(fr, 1, k)
    BY <1>7
  <2> DEFINE u == SubSeq(fr, 1, k - 1)
             q == [r EXCEPT !.open = u]
  <2>6. ~q.bad /\ q.open = u
    BY <1>1 DEF Reading
  <2>7. GroupStep(q, fr[k]) = [q EXCEPT !.open = Append(u, fr[k])]
    BY <2>4, <2>6 DEF GroupStep
  <2>8. [q EXCEPT !.open = Append(u, fr[k])] = [r EXCEPT !.open = Append(u, fr[k])]
    BY Zenon, <1>1 DEF Reading
  <2> QED
    BY Zenon, <2>1, <2>2, <2>3, <2>5, <2>7, <2>8
<1>8. After(all)[n + m] = [r EXCEPT !.open = fr]
  <2> HIDE DEF P
  <2>1. \A k \in 0 .. m : k \in P
    BY Zenon, <1>2, <1>6, <1>7, Climb
  <2>2. m \in P /\ SubSeq(fr, 1, m) = fr
    BY <1>2, <2>1
  <2> QED
    BY <2>2 DEF P
<1> HIDE DEF P
<1>9. After(all)[Len(all)] = [r EXCEPT !.groups = Append(r.groups, fr), !.open = <<>>]
  <2> DEFINE q == [r EXCEPT !.open = fr]
  <2>1. q.groups = r.groups /\ q.open = fr /\ ~q.bad
    BY <1>1 DEF Reading
  <2>2. Commit(m).t = "commit" /\ Commit(m).n = m
    BY DEF Commit
  <2>3. GroupStep(q, Commit(m)) = [q EXCEPT !.groups = Append(r.groups, fr), !.open = <<>>]
    BY <2>1, <2>2 DEF GroupStep
  <2>4. [q EXCEPT !.groups = Append(r.groups, fr), !.open = <<>>]
          = [r EXCEPT !.groups = Append(r.groups, fr), !.open = <<>>]
    BY Zenon, <1>1 DEF Reading
  <2>5. Len(all) \in 1 .. Len(all) /\ Len(all) - 1 = n + m /\ Len(all) \in Nat
    BY <1>2, <1>4
  <2>6. After(all)[Len(all)] = GroupStep(After(all)[n + m], all[Len(all)])
    BY Zenon, <2>5, AfterIs
  <2> QED
    BY <1>4, <1>8, <2>3, <2>4, <2>6
<1>10. /\ all \in Seq(Line) /\ (\A k \in DOMAIN all : all[k] # Torn)
       /\ GroupFrames(all) = After(all)[Len(all)]
  <2>1. \A k \in DOMAIN all : all[k] \in Kept
    BY <1>4
  <2>2. all \in Seq(Line)
    BY <1>4 DEF Line
  <2>3. \A k \in DOMAIN all : all[k] # Torn
    BY <2>1, KindsOfLines DEF Kept
  <2> QED
    BY <2>2, <2>3, CleanDecodes
<1>11. GroupFrames(all).groups = Append(r.groups, fr) /\ GroupFrames(all).open = <<>> /\ ~GroupFrames(all).bad
  BY <1>1, <1>9, <1>10 DEF Reading
<1>12. \A k \in DOMAIN fr : fr[k] \in Frames(all)
  <2>1. r.groups \in Seq(Seq(FrameLine))
    BY <1>1 DEF Reading
  <2>2. Len(r.groups) + 1 \in DOMAIN Append(r.groups, fr) /\ Append(r.groups, fr)[Len(r.groups) + 1] = fr
    BY <2>1
  <2>3. \A k \in DOMAIN fr : fr[k] \in FrameLine
    OBVIOUS
  <2> QED
    BY Zenon, <1>11, <2>2, <2>3 DEF Frames, Closed
<1> QED
  BY <1>10, <1>11, <1>12 DEF Clean, all, r

-----------------------------------------------------------------------------
(* The log of a list of segments.                                          *)

\* A recursive function over positions exists, if its steps stay in a set.
Steps(n, D) == [1 .. n -> [D -> D]]
Follows(f, n, D, start, G) ==
  f \in [0 .. n -> D] /\ f[0] = start /\ \A k \in 1 .. n : f[k] = G[k][f[k - 1]]

\* A function that is defined by its steps exists, by induction over the positions.
LEMMA FoldExists ==
  ASSUME NEW n \in Nat, NEW D, NEW start \in D, NEW G \in Steps(n, D)
  PROVE  \E f : Follows(f, n, D, start, G)
<1> USE DEF Steps
<1> DEFINE Fits(f, m) == f \in [0 .. m -> D] /\ f[0] = start /\ \A k \in 1 .. m : f[k] = G[k][f[k - 1]]
           P == {m \in Nat : m <= n => \E f : Fits(f, m)}
<1>1. 0 \in P
  <2> DEFINE g == [k \in 0 .. 0 |-> start]
  <2>1. Fits(g, 0)
    OBVIOUS
  <2> QED
    BY Zenon, <2>1
<1>2. ASSUME NEW m \in 1 .. n, m - 1 \in P PROVE m \in P
  <2>1. m \in Nat /\ m - 1 \in Nat /\ m - 1 <= n
    OBVIOUS
  <2>2. PICK f : Fits(f, m - 1)
    BY <1>2, <2>1
  <2>a. /\ f \in [0 .. m - 1 -> D] /\ f[0] = start
        /\ \A k \in 1 .. m - 1 : f[k] = G[k][f[k - 1]]
    BY <2>2
  <2>b. m - 1 \in 0 .. m - 1 /\ m \in 1 .. n
    BY <2>1
  <2>3. f[m - 1] \in D /\ G[m] \in [D -> D]
    BY <2>a, <2>b
  <2>4. G[m][f[m - 1]] \in D
    BY <2>3
  <2> DEFINE g == [k \in 0 .. m |-> IF k = m THEN G[m][f[m - 1]] ELSE f[k]]
  <2>5. \A k \in 0 .. m : k = m \/ k \in 0 .. m - 1
    BY <2>1
  <2>6. g \in [0 .. m -> D]
    BY <2>a, <2>4, <2>5
  <2>7. g[0] = start
    <3>1. 0 \in 0 .. m /\ m # 0
      BY <2>1
    <3> QED
      BY <2>a, <3>1
  <2>8. \A k \in 1 .. m : g[k] = G[k][g[k - 1]]
    <3>1. ASSUME NEW k \in 1 .. m PROVE g[k] = G[k][g[k - 1]]
      <4>1. k - 1 \in 0 .. m /\ k - 1 # m /\ k \in 0 .. m
        BY <2>1
      <4>2. g[k - 1] = f[k - 1]
        BY <4>1
      <4>3. CASE k = m
        BY <4>1, <4>2, <4>3
      <4>4. CASE k # m
        <5>1. k \in 1 .. m - 1
          BY <2>1, <4>4
        <5> QED
          BY <2>a, <4>1, <4>2, <4>4, <5>1
      <4> QED
        BY <4>3, <4>4
    <3> QED
      BY Zenon, <3>1
  <2> HIDE DEF g
  <2>9. Fits(g, m)
    BY <2>6, <2>7, <2>8
  <2> QED
    BY <2>1, <2>9
<1> HIDE DEF P
<1>3. \A m \in 0 .. n : m \in P
  BY Zenon, <1>1, <1>2, Climb
<1>4. n \in P
  BY <1>3
<1>5. PICK f : Fits(f, n)
  BY <1>4 DEF P
<1> QED
  BY <1>5 DEF Follows

\* The elements of sequences put together, and of one with another element.
LEMMA Elements ==
  ASSUME NEW S, NEW a \in Seq(S)
  PROVE  /\ \A b \in Seq(S) : a \o b \in Seq(S) /\ ToSet(a \o b) = ToSet(a) \cup ToSet(b)
         /\ \A x \in S : Append(a, x) \in Seq(S) /\ ToSet(Append(a, x)) = ToSet(a) \cup {x}
         /\ ToSet(a) \subseteq S
<1>1. ASSUME NEW b \in Seq(S) PROVE a \o b \in Seq(S) /\ ToSet(a \o b) = ToSet(a) \cup ToSet(b)
  <2>1. /\ a \o b \in Seq(S) /\ DOMAIN (a \o b) = 1 .. Len(a) + Len(b)
        /\ DOMAIN a = 1 .. Len(a) /\ DOMAIN b = 1 .. Len(b) /\ Len(a) \in Nat /\ Len(b) \in Nat
        /\ \A k \in 1 .. Len(a) : (a \o b)[k] = a[k]
        /\ \A k \in 1 .. Len(b) : (a \o b)[Len(a) + k] = b[k]
    OBVIOUS
  <2>2. \A k \in 1 .. Len(a) + Len(b) : k \in 1 .. Len(a) \/ \E j \in 1 .. Len(b) : k = Len(a) + j
    <3>1. ASSUME NEW k \in 1 .. Len(a) + Len(b), k \notin 1 .. Len(a) PROVE \E j \in 1 .. Len(b) : k = Len(a) + j
      <4>1. k - Len(a) \in 1 .. Len(b) /\ k = Len(a) + (k - Len(a))
        BY <2>1, <3>1
      <4> QED
        BY Zenon, <4>1
    <3> QED
      BY <3>1
  <2>3. \A k \in 1 .. Len(a) : k \in 1 .. Len(a) + Len(b)
    BY <2>1
  <2>4. \A k \in 1 .. Len(b) : Len(a) + k \in 1 .. Len(a) + Len(b)
    BY <2>1
  <2> DEFINE c == a \o b
  <2> HIDE DEF c
  <2>5. /\ DOMAIN c = 1 .. Len(a) + Len(b)
        /\ \A k \in 1 .. Len(a) : c[k] = a[k]
        /\ \A k \in 1 .. Len(b) : c[Len(a) + k] = b[k]
    BY <2>1 DEF c
  <2>6. ToSet(c) \subseteq ToSet(a) \cup ToSet(b)
    <3>1. ASSUME NEW k \in 1 .. Len(a) + Len(b) PROVE c[k] \in ToSet(a) \cup ToSet(b)
      <4>1. CASE k \in 1 .. Len(a)
        BY <2>1, <2>5, <4>1 DEF ToSet
      <4>2. ASSUME NEW j \in 1 .. Len(b), k = Len(a) + j PROVE c[k] \in ToSet(b)
        BY <2>1, <2>5, <4>2 DEF ToSet
      <4> QED
        BY Zenon, <2>2, <4>1, <4>2
    <3> QED
      BY <2>5, <3>1 DEF ToSet
  <2>7. ToSet(a) \subseteq ToSet(c)
    BY <2>1, <2>3, <2>5 DEF ToSet
  <2>8. ToSet(b) \subseteq ToSet(c)
    BY <2>1, <2>4, <2>5 DEF ToSet
  <2> QED
    BY <2>1, <2>6, <2>7, <2>8 DEF c
<1>2. ASSUME NEW x \in S PROVE Append(a, x) \in Seq(S) /\ ToSet(Append(a, x)) = ToSet(a) \cup {x}
  <2> DEFINE c == Append(a, x)
  <2>1. /\ c \in Seq(S) /\ DOMAIN c = 1 .. Len(a) + 1 /\ c[Len(a) + 1] = x
        /\ DOMAIN a = 1 .. Len(a) /\ Len(a) \in Nat /\ \A k \in 1 .. Len(a) : c[k] = a[k]
    OBVIOUS
  <2> HIDE DEF c
  <2>2. /\ \A k \in 1 .. Len(a) + 1 : k \in 1 .. Len(a) \/ k = Len(a) + 1
        /\ \A k \in 1 .. Len(a) : k \in 1 .. Len(a) + 1
        /\ Len(a) + 1 \in 1 .. Len(a) + 1
    BY <2>1
  <2>3. ToSet(c) \subseteq ToSet(a) \cup {x}
    BY <2>1, <2>2 DEF ToSet
  <2>4. ToSet(a) \subseteq ToSet(c) /\ x \in ToSet(c)
    BY <2>1, <2>2 DEF ToSet
  <2> QED
    BY <2>1, <2>3, <2>4 DEF c
<1>3. ToSet(a) \subseteq S
  BY DEF ToSet
<1> QED
  BY <1>1, <1>2, <1>3

\* The elements of a concatenation are those of its parts.
LEMMA ConcatIs ==
  ASSUME NEW S, NEW ss \in Seq(Seq(S))
  PROVE  /\ Concat(ss) \in Seq(S)
         /\ \A x \in S : x \in ToSet(Concat(ss)) <=> \E k \in DOMAIN ss : x \in ToSet(ss[k])
<1> DEFINE n == Len(ss)
           G == [k \in 1 .. n |-> [q \in Seq(S) |-> q \o ss[k]]]
           Fits(f) == f = [k \in 0 .. n |-> IF k = 0 THEN <<>> ELSE f[k - 1] \o ss[k]]
           J == CHOOSE f : Fits(f)
<1>1. n \in Nat /\ DOMAIN ss = 1 .. n /\ \A k \in 1 .. n : ss[k] \in Seq(S)
  OBVIOUS
<1>2. G \in [1 .. n -> [Seq(S) -> Seq(S)]]
  BY <1>1
<1>3. <<>> \in Seq(S)
  OBVIOUS
<1>4. PICK f \in [0 .. n -> Seq(S)] : f[0] = <<>> /\ \A k \in 1 .. n : f[k] = G[k][f[k - 1]]
  <2> DEFINE D == Seq(S)
             empty == <<>>
  <2>1. n \in Nat /\ empty \in D /\ G \in Steps(n, D)
    BY <1>1, <1>2, <1>3 DEF Steps
  <2> HIDE DEF G, D, n, empty
  <2>2. \E f : Follows(f, n, D, empty, G)
    BY <2>1, FoldExists
  <2> QED
    BY Zenon, <2>2 DEF D, empty, Follows
<1>5. Fits(f)
  <2>b. \A k \in 1 .. n : k - 1 \in 0 .. n
    BY <1>1
  <2>c. \A k \in 0 .. n : f[k] \in Seq(S)
    BY <1>4
  <2>1. \A k \in 1 .. n : k - 1 \in 0 .. n /\ f[k - 1] \in Seq(S)
    BY <2>b, <2>c
  <2>2. \A k \in 1 .. n : f[k] = f[k - 1] \o ss[k]
    BY Zenon, <1>4, <2>1
  <2>a. \A k \in 0 .. n : k = 0 \/ k \in 1 .. n
    BY <1>1
  <2>3. \A k \in 0 .. n : f[k] = IF k = 0 THEN <<>> ELSE f[k - 1] \o ss[k]
    BY Zenon, <1>4, <2>2, <2>a
  <2> QED
    BY Zenon, <1>4, <2>3
<1>6. Fits(J)
  <2> HIDE DEF Fits
  <2> QED
    BY <1>5
<1>7. Concat(ss) = J[n]
  BY Zenon DEF Concat, Along
<1>8. J[0] = <<>> /\ \A k \in 1 .. n : J[k] = J[k - 1] \o ss[k]
  <2> HIDE DEF J
  <2>1. J = [k \in 0 .. n |-> IF k = 0 THEN <<>> ELSE J[k - 1] \o ss[k]]
    BY Zenon, <1>6
  <2> HIDE DEF n
  <2>2. \A k \in 0 .. n : J[k] = IF k = 0 THEN <<>> ELSE J[k - 1] \o ss[k]
    BY Zenon, <2>1
  <2>3. 0 \in 0 .. n /\ \A k \in 1 .. n : k \in 0 .. n /\ k # 0
    BY <1>1
  <2> QED
    BY Zenon, <2>2, <2>3
<1> HIDE DEF J, Fits, G
<1> DEFINE P == {k \in Nat : k <= n => /\ J[k] \in Seq(S)
                                       /\ \A x \in S : x \in ToSet(J[k]) <=> \E i \in 1 .. k : x \in ToSet(ss[i])}
<1>9. 0 \in P
  <2>1. J[0] \in Seq(S) /\ \A x : x \notin ToSet(J[0])
    BY <1>3, <1>8 DEF ToSet
  <2>2. 1 .. 0 = {}
    OBVIOUS
  <2> QED
    BY <2>1, <2>2
<1>10. ASSUME NEW k \in 1 .. n, k - 1 \in P PROVE k \in P
  <2>1. k \in Nat /\ k - 1 \in Nat /\ k - 1 <= n /\ \A i \in 1 .. k : i = k \/ i \in 1 .. k - 1
    BY <1>1
  <2>2. J[k - 1] \in Seq(S) /\ \A x \in S : x \in ToSet(J[k - 1]) <=> \E i \in 1 .. k - 1 : x \in ToSet(ss[i])
    BY <1>10, <2>1
  <2>a. J[k] = J[k - 1] \o ss[k] /\ ss[k] \in Seq(S)
    BY Zenon, <1>1, <1>8, <2>1
  <2>3. J[k] \in Seq(S) /\ ToSet(J[k]) = ToSet(J[k - 1]) \cup ToSet(ss[k])
    BY <2>2, <2>a, Elements
  <2>4. \A i \in 1 .. k - 1 : i \in 1 .. k
    BY <2>1
  <2>5. \A x \in S : x \in ToSet(J[k]) <=> \E i \in 1 .. k : x \in ToSet(ss[i])
    BY <2>1, <2>2, <2>3, <2>4
  <2> QED
    BY <2>1, <2>3, <2>5
<1> HIDE DEF P
<1>11. \A k \in 0 .. n : k \in P
  BY Zenon, <1>1, <1>9, <1>10, Climb
<1>12. n \in P
  BY <1>1, <1>11
<1>13. n <= n
  BY <1>1
<1> QED
  BY Zenon, <1>1, <1>7, <1>12, <1>13 DEF P

\* Each element once, as LogOf takes the committed frames.
Once(l, f) == IF Contains(l, f) THEN l ELSE Append(l, f)
Firsts(s) == CHOOSE f : f = [k \in 0 .. Len(s) |-> IF k = 0 THEN <<>> ELSE Once(f[k - 1], s[k])]

\* Taking each element once leaves out none.
LEMMA FirstsIs ==
  ASSUME NEW S, NEW s \in Seq(S)
  PROVE  /\ Firsts(s)[Len(s)] \in Seq(S)
         /\ ToSet(Firsts(s)[Len(s)]) = ToSet(s)
<1> DEFINE n == Len(s)
           G == [k \in 1 .. n |-> [q \in Seq(S) |-> Once(q, s[k])]]
           Fits(f) == f = [k \in 0 .. n |-> IF k = 0 THEN <<>> ELSE Once(f[k - 1], s[k])]
           J == Firsts(s)
<1>1. n \in Nat /\ DOMAIN s = 1 .. n /\ \A k \in 1 .. n : s[k] \in S
  OBVIOUS
<1>2. ASSUME NEW q \in Seq(S), NEW x \in S
      PROVE  Once(q, x) \in Seq(S) /\ ToSet(Once(q, x)) = ToSet(q) \cup {x}
  <2>1. CASE Contains(q, x)
    <3>1. x \in ToSet(q)
      BY <2>1 DEF Contains, ToSet
    <3> QED
      BY <2>1, <3>1 DEF Once
  <2>2. CASE ~Contains(q, x)
    BY <2>2, Elements DEF Once
  <2> QED
    BY <2>1, <2>2
<1>3. PICK f : Follows(f, n, Seq(S), <<>>, G)
  <2> DEFINE D == Seq(S)
             empty == <<>>
  <2>1. \A k \in 1 .. n : [q \in D |-> Once(q, s[k])] \in [D -> D]
    BY <1>1, <1>2
  <2>2. n \in Nat /\ empty \in D /\ G \in Steps(n, D)
    BY <1>1, <2>1 DEF Steps
  <2> HIDE DEF G, D, n, empty
  <2>3. \E f : Follows(f, n, D, empty, G)
    BY <2>2, FoldExists
  <2> QED
    BY <2>3 DEF D, empty
<1>4. Fits(f)
  <2>1. f \in [0 .. n -> Seq(S)] /\ f[0] = <<>> /\ \A k \in 1 .. n : f[k] = G[k][f[k - 1]]
    BY <1>3 DEF Follows
  <2>2. \A k \in 1 .. n : k - 1 \in 0 .. n
    BY <1>1
  <2>3. \A k \in 0 .. n : f[k] \in Seq(S)
    BY <2>1
  <2>4. \A k \in 1 .. n : f[k] = Once(f[k - 1], s[k])
    BY Zenon, <2>1, <2>2, <2>3
  <2>5. \A k \in 0 .. n : k = 0 \/ k \in 1 .. n
    BY <1>1
  <2>6. \A k \in 0 .. n : f[k] = IF k = 0 THEN <<>> ELSE Once(f[k - 1], s[k])
    BY <2>1, <2>4, <2>5
  <2> QED
    BY <2>1, <2>6
<1>5. Fits(J)
  <2> HIDE DEF Fits
  <2>1. J = CHOOSE g : Fits(g)
    BY Zenon DEF Fits, Firsts
  <2> QED
    BY <1>4, <2>1
<1>6. J[0] = <<>> /\ \A k \in 1 .. n : J[k] = Once(J[k - 1], s[k])
  <2> HIDE DEF J
  <2>1. J = [k \in 0 .. n |-> IF k = 0 THEN <<>> ELSE Once(J[k - 1], s[k])]
    BY Zenon, <1>5
  <2> HIDE DEF n
  <2>2. \A k \in 0 .. n : J[k] = IF k = 0 THEN <<>> ELSE Once(J[k - 1], s[k])
    BY Zenon, <2>1
  <2>3. 0 \in 0 .. n /\ \A k \in 1 .. n : k \in 0 .. n /\ k # 0
    BY <1>1
  <2> QED
    BY <2>2, <2>3
<1> HIDE DEF J, Fits, G
<1> DEFINE P == {k \in Nat : k <= n => J[k] \in Seq(S) /\ ToSet(J[k]) = {s[i] : i \in 1 .. k}}
<1>7. 0 \in P
  <2>1. J[0] \in Seq(S) /\ ToSet(J[0]) = {}
    BY <1>6 DEF ToSet
  <2>2. 1 .. 0 = {}
    OBVIOUS
  <2> QED
    BY <2>1, <2>2
<1>8. ASSUME NEW k \in 1 .. n, k - 1 \in P PROVE k \in P
  <2>1. k \in Nat /\ k - 1 \in Nat /\ k - 1 <= n /\ 1 .. k = 1 .. k - 1 \cup {k}
    BY <1>1
  <2>2. J[k - 1] \in Seq(S) /\ ToSet(J[k - 1]) = {s[i] : i \in 1 .. k - 1}
    BY <1>8, <2>1
  <2>3. J[k] = Once(J[k - 1], s[k]) /\ s[k] \in S
    BY <1>1, <1>6
  <2>a. Once(J[k - 1], s[k]) \in Seq(S) /\ ToSet(Once(J[k - 1], s[k])) = ToSet(J[k - 1]) \cup {s[k]}
    BY Zenon, <1>2, <2>2, <2>3
  <2>4. J[k] \in Seq(S) /\ ToSet(J[k]) = {s[i] : i \in 1 .. k - 1} \cup {s[k]}
    BY <2>2, <2>3, <2>a
  <2>5. {s[i] : i \in 1 .. k} = {s[i] : i \in 1 .. k - 1} \cup {s[k]}
    BY <2>1
  <2> QED
    BY <2>1, <2>4, <2>5
<1> HIDE DEF P
<1>9. \A k \in 0 .. n : k \in P
  BY Zenon, <1>1, <1>7, <1>8, Climb
<1>10. n \in P /\ n <= n
  BY <1>1, <1>9
<1>11. ToSet(s) = {s[i] : i \in 1 .. n}
  BY <1>1 DEF ToSet
<1> QED
  BY <1>10, <1>11 DEF P, J

\* The segments whose lines are lines, and the frames that they commit.
Texts == Seq(Seq(Line))
AllFrames(segs) == UNION {Frames(segs[k]) : k \in DOMAIN segs}

\* groupFrames gives groups, of any lines.
LEMMA ReadingOf ==
  ASSUME NEW s \in Seq(Line)
  PROVE  GroupFrames(s) \in Reading
<1>1. Decoded(s) \in Seq(Kept) /\ Len(Decoded(s)) \in 0 .. Len(Decoded(s))
  BY DecodedIs
<1> QED
  BY <1>1, GroupsAre, AfterType

\* The groups of a segment put together are its committed frames.
LEMMA GroupsConcat ==
  ASSUME NEW s \in Seq(Line)
  PROVE  /\ Concat(GroupFrames(s).groups) \in Seq(FrameLine)
         /\ ToSet(Concat(GroupFrames(s).groups)) = Frames(s)
<1> DEFINE g == GroupFrames(s).groups
<1>1. g \in Seq(Seq(FrameLine))
  BY ReadingOf DEF Reading
<1>2. Frames(s) = {f \in FrameLine : \E i \in DOMAIN g : \E j \in DOMAIN g[i] : f = g[i][j]}
  BY DEF Frames, Closed
<1> HIDE DEF g
<1>3. /\ Concat(g) \in Seq(FrameLine)
      /\ \A x \in FrameLine : x \in ToSet(Concat(g)) <=> \E k \in DOMAIN g : x \in ToSet(g[k])
  BY <1>1, ConcatIs
<1>4. ToSet(Concat(g)) \subseteq FrameLine
  BY <1>3, Elements
<1>5. \A k \in DOMAIN g : \A x \in FrameLine : x \in ToSet(g[k]) <=> \E j \in DOMAIN g[k] : x = g[k][j]
  BY DEF ToSet
<1> QED
  BY <1>2, <1>3, <1>4, <1>5 DEF g

\* The log of segments has the frames that they commit, and no others.
LEMMA LogIs ==
  ASSUME NEW segs \in Texts
  PROVE  LogOf(segs) \in Seq(FrameLine) /\ ToSet(LogOf(segs)) = AllFrames(segs)
<1> DEFINE G == [k \in DOMAIN segs |-> Concat(GroupFrames(segs[k]).groups)]
           all == Concat(G)
<1>1. /\ DOMAIN segs = 1 .. Len(segs) /\ Len(segs) \in Nat
      /\ \A k \in DOMAIN segs : segs[k] \in Seq(Line)
  BY DEF Texts
<1>2. \A k \in DOMAIN segs : G[k] \in Seq(FrameLine) /\ ToSet(G[k]) = Frames(segs[k])
  BY <1>1, GroupsConcat
<1>3. G \in Seq(Seq(FrameLine)) /\ DOMAIN G = DOMAIN segs
  <2>1. G \in [1 .. Len(segs) -> Seq(FrameLine)]
    BY <1>1, <1>2
  <2> HIDE DEF G
  <2> QED
    BY <1>1, <2>1
<1> HIDE DEF G
<1>4. /\ all \in Seq(FrameLine)
      /\ \A x \in FrameLine : x \in ToSet(all) <=> \E k \in DOMAIN G : x \in ToSet(G[k])
  BY <1>3, ConcatIs
<1> HIDE DEF all
<1>5. ToSet(all) \subseteq FrameLine
  BY <1>4, Elements
<1>6. \A k \in DOMAIN segs : Frames(segs[k]) \subseteq FrameLine
  BY DEF Frames, Closed
<1>7. ToSet(all) = AllFrames(segs)
  BY <1>2, <1>3, <1>4, <1>5, <1>6 DEF AllFrames
<1>8. LogOf(segs) = Firsts(all)[Len(all)]
  BY Zenon DEF LogOf, Along, Firsts, Once, all, G
<1> QED
  BY <1>4, <1>7, <1>8, FirstsIs

-----------------------------------------------------------------------------
(* Replay.                                                                 *)

Records == [Id -> Record]
Replaying ==
  [hot : Records, from : Nat \X Nat, seen : SUBSET FrameLine, fresh : SUBSET Txn,
   unapplied : SUBSET Txn, last : Seq(FrameLine), fault : BOOLEAN]

\* applyFrame makes records of records.
LEMMA ApplyType ==
  ASSUME NEW view \in Records, NEW f \in FrameLine
  PROVE  ApplyFrame(view, f) \in Records
<1>1. f.op \in Op /\ f.op.id \in Id /\ f.op.what \in Observation /\ f.rec \in Record
  <2>1. f.op \in Op /\ f.rec \in Record
    BY DEF FrameLine
  <2>2. f.op.what \in Observation
    BY <2>1 DEF Observation
  <2> QED
    BY <2>1, <2>2, OpAssumption
<1> DEFINE St == {"none", "tracked"} \cup Terminal
<1>a. Record = [st : St, seq : Nat, last : Observation]
  BY DEF Record
<1>b. "superseded" \in St /\ "tracked" \in St /\ Terminal \subseteq St
  BY DEF Terminal
<1>c. "tracking_superseded" \in Observation /\ "tracking_started" \in Observation
  BY DEF Observation
<1> HIDE DEF St
<1>2. \A r \in Record, w \in Observation : Observed(r, w) \in Record
  <2> SUFFICES ASSUME NEW r \in Record, NEW w \in Observation PROVE Observed(r, w) \in Record
    OBVIOUS
  <2>1. r \in [st : St, seq : Nat, last : Observation] /\ r.seq + 1 \in Nat
    BY <1>a
  <2>2. Observed(r, w) = [r EXCEPT !.seq = r.seq + 1, !.last = w]
    BY DEF Observed
  <2> DEFINE n == r.seq + 1
             q == [r EXCEPT !.seq = n]
  <2>3. q \in [st : St, seq : Nat, last : Observation]
    BY <2>1
  <2>4. [q EXCEPT !.last = w] \in [st : St, seq : Nat, last : Observation]
    <3> HIDE DEF q
    <3> QED
      BY <2>3
  <2> QED
    BY <1>a, <2>2, <2>4
<1>3. Started \in Record
  BY <1>a, <1>b, <1>c DEF Started
<1>4. \A r \in Record, w \in St : [r EXCEPT !.st = w] \in Record
  BY <1>a
<1>6. \A i \in Id : view[i] \in Record
  BY DEF Records
<1>7. CASE f.op.kind = "begin"
  <2> DEFINE over == {j \in f.over : view[j] # None}
             new(j) == IF j = f.op.id THEN Started
                       ELSE IF j \in over
                            THEN [Observed(view[j], "tracking_superseded") EXCEPT !.st = "superseded"]
                            ELSE view[j]
  <2>1. ApplyFrame(view, f) = [j \in Id |-> new(j)]
    BY <1>7 DEF ApplyFrame
  <2>2. \A j \in Id : new(j) \in Record
    BY <1>2, <1>3, <1>4, <1>6, <1>b, <1>c
  <2> HIDE DEF new
  <2> QED
    BY <2>1, <2>2 DEF Records
<1>8. CASE f.op.kind = "obs"
  <2>1. ApplyFrame(view, f) = [view EXCEPT ![f.op.id] = Observed(@, f.op.what)]
    BY <1>8 DEF ApplyFrame
  <2> QED
    BY <1>1, <1>2, <1>6, <2>1 DEF Records
<1>9. CASE f.op.kind = "state"
  <2>1. ApplyFrame(view, f) = [view EXCEPT ![f.op.id] = [Observed(@, f.op.what) EXCEPT !.st = f.op.what]]
    BY <1>9 DEF ApplyFrame
  <2>2. f.op.what \in Terminal
    BY <1>1, <1>9, OpAssumption
  <2> QED
    BY <1>1, <1>2, <1>4, <1>6, <1>b, <2>1, <2>2 DEF Records
<1>10. CASE f.op.kind = "reheat"
  <2>1. ApplyFrame(view, f) = [view EXCEPT ![f.op.id] = f.rec]
    BY <1>10 DEF ApplyFrame
  <2> QED
    BY <1>1, <2>1 DEF Records
<1>11. f.op.kind \in {"begin", "obs", "state", "reheat"}
  BY <1>1, OpAssumption
<1> QED
  BY <1>7, <1>8, <1>9, <1>10, <1>11

\* A replayed frame leaves a replay.
LEMMA ReplayFrameType ==
  ASSUME NEW r \in Replaying, NEW f \in FrameLine
  PROVE  ReplayFrame(r, f) \in Replaying
<1> DEFINE twins == {g \in r.seen : g.pos = f.pos \/ g.txn = f.txn}
<1>1. /\ ApplyFrame(r.hot, f) \in Records /\ f.txn \in Txn
      /\ r.seen \cup {f} \in SUBSET FrameLine /\ r.fresh \cup {f.txn} \in SUBSET Txn
  BY ApplyType DEF Replaying, FrameLine
<1>2. \A b \in BOOLEAN : [r EXCEPT !.fault = b] \in Replaying
  BY DEF Replaying
<1>3. [r EXCEPT !.seen = @ \cup {f}] \in Replaying
  BY Zenon, <1>1 DEF Replaying
<1>4. [r EXCEPT !.hot = ApplyFrame(@, f), !.seen = @ \cup {f}, !.fresh = @ \cup {f.txn}] \in Replaying
  BY Zenon, <1>1 DEF Replaying
<1>5. (twins # {f}) \in BOOLEAN /\ TRUE \in BOOLEAN
  OBVIOUS
<1> QED
  BY Zenon, <1>2, <1>3, <1>4, <1>5 DEF ReplayFrame

\* ReplayFrame over the first frames of s.
AfterFrames(r, s) == CHOOSE f : f = [k \in 0 .. Len(s) |-> IF k = 0 THEN r ELSE ReplayFrame(f[k - 1], s[k])]

\* ... and so do any number.
LEMMA AfterFramesType ==
  ASSUME NEW r \in Replaying, NEW s \in Seq(FrameLine)
  PROVE  AfterFrames(r, s)[Len(s)] \in Replaying
<1> DEFINE n == Len(s)
           G == [k \in 1 .. n |-> [q \in Replaying |-> ReplayFrame(q, s[k])]]
           Fits(f) == f = [k \in 0 .. n |-> IF k = 0 THEN r ELSE ReplayFrame(f[k - 1], s[k])]
           J == AfterFrames(r, s)
<1>1. n \in Nat /\ \A k \in 1 .. n : s[k] \in FrameLine
  OBVIOUS
<1>2. PICK f : Follows(f, n, Replaying, r, G)
  <2> DEFINE D == Replaying
  <2>1. \A k \in 1 .. n : [q \in D |-> ReplayFrame(q, s[k])] \in [D -> D]
    BY <1>1, ReplayFrameType
  <2>2. n \in Nat /\ r \in D /\ G \in Steps(n, D)
    BY <1>1, <2>1 DEF Steps
  <2> HIDE DEF G, D, n
  <2>3. \E f : Follows(f, n, D, r, G)
    BY <2>2, FoldExists
  <2> QED
    BY <2>3 DEF D
<1>3. Fits(f)
  <2>1. f \in [0 .. n -> Replaying] /\ f[0] = r /\ \A k \in 1 .. n : f[k] = G[k][f[k - 1]]
    BY <1>2 DEF Follows
  <2>2. \A k \in 1 .. n : k - 1 \in 0 .. n
    BY <1>1
  <2>3. \A k \in 0 .. n : f[k] \in Replaying
    BY <2>1
  <2>4. \A k \in 1 .. n : f[k] = ReplayFrame(f[k - 1], s[k])
    BY Zenon, <2>1, <2>2, <2>3
  <2>5. \A k \in 0 .. n : k = 0 \/ k \in 1 .. n
    BY <1>1
  <2>6. \A k \in 0 .. n : f[k] = IF k = 0 THEN r ELSE ReplayFrame(f[k - 1], s[k])
    BY <2>1, <2>4, <2>5
  <2> QED
    BY <2>1, <2>6
<1>4. Fits(J)
  <2> HIDE DEF Fits
  <2>1. J = CHOOSE g : Fits(g)
    BY Zenon DEF Fits, AfterFrames
  <2> QED
    BY <1>3, <2>1
<1>5. J[0] = r /\ \A k \in 1 .. n : J[k] = ReplayFrame(J[k - 1], s[k])
  <2> HIDE DEF J
  <2>1. J = [k \in 0 .. n |-> IF k = 0 THEN r ELSE ReplayFrame(J[k - 1], s[k])]
    BY Zenon, <1>4
  <2> HIDE DEF n
  <2>2. \A k \in 0 .. n : J[k] = IF k = 0 THEN r ELSE ReplayFrame(J[k - 1], s[k])
    BY Zenon, <2>1
  <2>3. 0 \in 0 .. n /\ \A k \in 1 .. n : k \in 0 .. n /\ k # 0
    BY <1>1
  <2> QED
    BY <2>2, <2>3
<1> HIDE DEF J, Fits, G
<1> DEFINE P == {k \in Nat : k <= n => J[k] \in Replaying}
<1>6. 0 \in P
  BY <1>5
<1>7. ASSUME NEW k \in 1 .. n, k - 1 \in P PROVE k \in P
  <2>1. k \in Nat /\ k - 1 \in Nat /\ k - 1 <= n
    BY <1>1
  <2>2. J[k - 1] \in Replaying
    BY <1>7, <2>1
  <2>3. J[k] = ReplayFrame(J[k - 1], s[k]) /\ s[k] \in FrameLine
    BY <1>1, <1>5
  <2> QED
    BY <2>1, <2>2, <2>3, ReplayFrameType
<1> HIDE DEF P
<1>8. \A k \in 0 .. n : k \in P
  BY Zenon, <1>1, <1>6, <1>7, Climb
<1>9. n \in P /\ n <= n
  BY <1>1, <1>8
<1> QED
  BY <1>9 DEF P, J

\* A replayed segment leaves a replay.
LEMMA ReplaySegmentType ==
  ASSUME NEW r \in Replaying, NEW s \in Seq(Line)
  PROVE  ReplaySegment(r, s) \in Replaying
<1> DEFINE g == GroupFrames(s)
           all == Concat(g.groups)
           q == AfterFrames(r, all)[Len(all)]
<1>1. q \in Replaying
  <2>1. all \in Seq(FrameLine)
    BY GroupsConcat
  <2> HIDE DEF all
  <2> QED
    BY <2>1, AfterFramesType
<1>2. ReplaySegment(r, s) =
        IF r.fault \/ Corrupt(s) THEN [r EXCEPT !.fault = TRUE]
        ELSE [q EXCEPT !.unapplied = @ \cup Txns(g.open),
                       !.last = IF g.groups = <<>> THEN @ ELSE Last(g.groups)]
  BY Zenon DEF ReplaySegment, Along, AfterFrames
<1>3. g.open \in Seq(FrameLine) /\ g.groups \in Seq(Seq(FrameLine))
  BY ReadingOf DEF Reading
<1> HIDE DEF g, q, all
<1>4. Txns(g.open) \subseteq Txn
  <2>1. ToSet(g.open) \subseteq FrameLine
    BY <1>3, Elements
  <2>2. \A f \in FrameLine : f.txn \in Txn
    BY DEF FrameLine
  <2> QED
    BY <2>1, <2>2 DEF Txns
<1>5. g.groups # <<>> => Last(g.groups) \in Seq(FrameLine)
  BY <1>3 DEF Last
<1>6. [r EXCEPT !.fault = TRUE] \in Replaying
  BY Zenon DEF Replaying
<1> DEFINE l == IF g.groups = <<>> THEN q.last ELSE Last(g.groups)
           u == q.unapplied \cup Txns(g.open)
<1>7. l \in Seq(FrameLine) /\ u \in SUBSET Txn
  BY <1>1, <1>4, <1>5 DEF Replaying
<1> HIDE DEF l, u
<1>8. [q EXCEPT !.unapplied = u, !.last = l] \in Replaying
  BY Zenon, <1>1, <1>7 DEF Replaying
<1> QED
  BY <1>2, <1>6, <1>8 DEF l, u

\* ReplaySegment over the first segments of s.
AfterSegments(r, s) == CHOOSE f : f = [k \in 0 .. Len(s) |-> IF k = 0 THEN r ELSE ReplaySegment(f[k - 1], s[k])]

\* ... and so do any number.
LEMMA AfterSegmentsType ==
  ASSUME NEW r \in Replaying, NEW s \in Seq(Seq(Line))
  PROVE  AfterSegments(r, s)[Len(s)] \in Replaying
<1> DEFINE n == Len(s)
           G == [k \in 1 .. n |-> [q \in Replaying |-> ReplaySegment(q, s[k])]]
           Fits(f) == f = [k \in 0 .. n |-> IF k = 0 THEN r ELSE ReplaySegment(f[k - 1], s[k])]
           J == AfterSegments(r, s)
<1>1. n \in Nat /\ \A k \in 1 .. n : s[k] \in Seq(Line)
  OBVIOUS
<1>2. PICK f : Follows(f, n, Replaying, r, G)
  <2> DEFINE D == Replaying
  <2>1. \A k \in 1 .. n : [q \in D |-> ReplaySegment(q, s[k])] \in [D -> D]
    BY <1>1, ReplaySegmentType
  <2>2. n \in Nat /\ r \in D /\ G \in Steps(n, D)
    BY <1>1, <2>1 DEF Steps
  <2> HIDE DEF G, D, n
  <2>3. \E f : Follows(f, n, D, r, G)
    BY <2>2, FoldExists
  <2> QED
    BY <2>3 DEF D
<1>3. Fits(f)
  <2>1. f \in [0 .. n -> Replaying] /\ f[0] = r /\ \A k \in 1 .. n : f[k] = G[k][f[k - 1]]
    BY <1>2 DEF Follows
  <2>2. \A k \in 1 .. n : k - 1 \in 0 .. n
    BY <1>1
  <2>3. \A k \in 0 .. n : f[k] \in Replaying
    BY Zenon, <2>1
  <2>4. \A k \in 1 .. n : f[k] = ReplaySegment(f[k - 1], s[k])
    BY Zenon, <2>1, <2>2, <2>3
  <2>5. \A k \in 0 .. n : k = 0 \/ k \in 1 .. n
    BY <1>1
  <2>6. \A k \in 0 .. n : f[k] = IF k = 0 THEN r ELSE ReplaySegment(f[k - 1], s[k])
    BY <2>1, <2>4, <2>5
  <2> QED
    BY <2>1, <2>6
<1>4. Fits(J)
  <2> HIDE DEF Fits
  <2>1. J = CHOOSE g : Fits(g)
    BY Zenon DEF Fits, AfterSegments
  <2> QED
    BY <1>3, <2>1
<1>5. J[0] = r /\ \A k \in 1 .. n : J[k] = ReplaySegment(J[k - 1], s[k])
  <2> HIDE DEF J
  <2>1. J = [k \in 0 .. n |-> IF k = 0 THEN r ELSE ReplaySegment(J[k - 1], s[k])]
    BY Zenon, <1>4
  <2> HIDE DEF n
  <2>2. \A k \in 0 .. n : J[k] = IF k = 0 THEN r ELSE ReplaySegment(J[k - 1], s[k])
    BY Zenon, <2>1
  <2>3. 0 \in 0 .. n /\ \A k \in 1 .. n : k \in 0 .. n /\ k # 0
    BY <1>1
  <2> QED
    BY <2>2, <2>3
<1> HIDE DEF J, Fits, G
<1> DEFINE P == {k \in Nat : k <= n => J[k] \in Replaying}
<1>6. 0 \in P
  BY <1>5
<1>7. ASSUME NEW k \in 1 .. n, k - 1 \in P PROVE k \in P
  <2>1. k \in Nat /\ k - 1 \in Nat /\ k - 1 <= n
    BY <1>1
  <2>2. J[k - 1] \in Replaying
    BY <1>7, <2>1
  <2>3. J[k] = ReplaySegment(J[k - 1], s[k]) /\ s[k] \in Seq(Line)
    BY <1>1, <1>5
  <2> QED
    BY <2>1, <2>2, <2>3, ReplaySegmentType
<1> HIDE DEF P
<1>8. \A k \in 0 .. n : k \in P
  BY Zenon, <1>1, <1>6, <1>7, Climb
<1>9. n \in P /\ n <= n
  BY <1>1, <1>8
<1> QED
  BY <1>9 DEF P, J

\* replaySegments ends, of any segments, in records, transactions and a last group.
LEMMA ReplayType ==
  ASSUME NEW hot \in Records, NEW from \in Nat \X Nat, NEW segs \in Texts
  PROVE  Replay(hot, from, segs) \in Replaying
<1> DEFINE r == [hot |-> hot, from |-> from, seen |-> {}, fresh |-> {},
                 unapplied |-> {}, last |-> <<>>, fault |-> FALSE]
<1>1. r \in Replaying
  BY DEF Replaying
<1>2. Replay(hot, from, segs) = AfterSegments(r, segs)[Len(segs)]
  BY Zenon DEF Replay, Along, AfterSegments
<1> HIDE DEF r
<1> QED
  BY <1>1, <1>2, AfterSegmentsType DEF Texts

-----------------------------------------------------------------------------
(* Segments.                                                               *)

Segment == [epoch : Nat, items : Seq(Line), safe : Nat]
Segments == {s \in Seq(Segment) : \A k \in DOMAIN s : s[k].safe <= Len(s[k].items)}

\* The frames that no loss of power can take back.
Held(segs) == AllFrames(Fsynced(segs))

\* What is known of segments.
LEMMA SegmentsAre ==
  ASSUME NEW segs \in Segments
  PROVE  /\ segs \in Seq(Segment) /\ Len(segs) \in Nat /\ DOMAIN segs = 1 .. Len(segs)
         /\ \A k \in DOMAIN segs : /\ segs[k] \in Segment /\ segs[k].epoch \in Nat
                                   /\ segs[k].items \in Seq(Line) /\ Len(segs[k].items) \in Nat
                                   /\ segs[k].safe \in 0 .. Len(segs[k].items)
         /\ segs # <<>> => /\ Len(segs) \in DOMAIN segs /\ Last(segs) = segs[Len(segs)]
<1>1. segs \in Seq(Segment) /\ Len(segs) \in Nat /\ DOMAIN segs = 1 .. Len(segs)
  BY DEF Segments
<1>2. ASSUME NEW k \in DOMAIN segs
      PROVE  /\ segs[k] \in Segment /\ segs[k].epoch \in Nat
             /\ segs[k].items \in Seq(Line) /\ Len(segs[k].items) \in Nat
             /\ segs[k].safe \in 0 .. Len(segs[k].items)
  <2>1. segs[k] \in Segment /\ segs[k].safe <= Len(segs[k].items)
    BY <1>1 DEF Segments
  <2>2. segs[k].epoch \in Nat /\ segs[k].items \in Seq(Line) /\ segs[k].safe \in Nat
    BY <2>1 DEF Segment
  <2>3. Len(segs[k].items) \in Nat
    BY <2>2
  <2> QED
    BY <2>1, <2>2, <2>3
<1>3. segs # <<>> => Len(segs) \in DOMAIN segs /\ Last(segs) = segs[Len(segs)]
  <2>1. segs # <<>> => Len(segs) # 0
    BY <1>1
  <2> QED
    BY <1>1, <2>1 DEF Last
<1> QED
  BY <1>1, <1>2, <1>3

\* The beginning of a segment.
LEMMA Prefix ==
  ASSUME NEW s \in Seq(Line), NEW n \in 0 .. Len(s)
  PROVE  /\ SubSeq(s, 1, n) \in Seq(Line) /\ Len(SubSeq(s, 1, n)) = n
         /\ \A k \in 1 .. n : SubSeq(s, 1, n)[k] = s[k]
         /\ SubSeq(s, 1, Len(s)) = s
OBVIOUS

\* The durable beginnings of segments.
LEMMA FsyncedIs ==
  ASSUME NEW segs \in Segments
  PROVE  /\ Fsynced(segs) \in Texts /\ DOMAIN Fsynced(segs) = DOMAIN segs
         /\ \A k \in DOMAIN segs : Fsynced(segs)[k] = SubSeq(segs[k].items, 1, segs[k].safe)
<1> DEFINE F == [k \in DOMAIN segs |-> SubSeq(segs[k].items, 1, segs[k].safe)]
<1>1. F \in [1 .. Len(segs) -> Seq(Line)]
  <2>1. \A k \in DOMAIN segs : SubSeq(segs[k].items, 1, segs[k].safe) \in Seq(Line)
    BY SegmentsAre, Prefix
  <2> QED
    BY <2>1, SegmentsAre
<1>2. F = Fsynced(segs)
  BY DEF Fsynced
<1>3. F \in Texts
  <2> HIDE DEF F
  <2> QED
    BY <1>1, SegmentsAre DEF Texts
<1> QED
  BY Zenon, <1>2, <1>3

\* The lines of segments.
LEMMA ItemsTexts ==
  ASSUME NEW segs \in Segments
  PROVE  Items(segs) \in Texts
<1> DEFINE F == [k \in DOMAIN segs |-> segs[k].items]
<1>1. F \in [1 .. Len(segs) -> Seq(Line)]
  BY SegmentsAre
<1>2. F \in Texts
  <2> HIDE DEF F
  <2> QED
    BY <1>1, SegmentsAre DEF Texts
<1> QED
  BY <1>2 DEF Items

\* What is only added to, keeps its frames.
LEMMA HeldGrows ==
  ASSUME NEW a \in Segments, NEW b \in Segments, Len(a) <= Len(b),
         \A k \in DOMAIN a : /\ a[k].safe <= b[k].safe
                             /\ \A j \in 1 .. a[k].safe : a[k].items[j] = b[k].items[j]
  PROVE  Held(a) \subseteq Held(b)
<1>1. \A k \in DOMAIN a : k \in DOMAIN b
  BY SegmentsAre
<1>2. ASSUME NEW k \in DOMAIN a PROVE Frames(Fsynced(a)[k]) \subseteq Frames(Fsynced(b)[k])
  <2> DEFINE u == SubSeq(a[k].items, 1, a[k].safe)
             v == SubSeq(b[k].items, 1, b[k].safe)
  <2>1. /\ a[k].items \in Seq(Line) /\ a[k].safe \in 0 .. Len(a[k].items)
        /\ b[k].items \in Seq(Line) /\ b[k].safe \in 0 .. Len(b[k].items)
        /\ Len(a[k].items) \in Nat /\ Len(b[k].items) \in Nat
    BY <1>1, SegmentsAre
  <2>2. /\ u \in Seq(Line) /\ Len(u) = a[k].safe /\ \A j \in 1 .. a[k].safe : u[j] = a[k].items[j]
        /\ v \in Seq(Line) /\ Len(v) = b[k].safe /\ \A j \in 1 .. b[k].safe : v[j] = b[k].items[j]
    BY Zenon, <2>1, Prefix
  <2>3. Fsynced(a)[k] = u /\ Fsynced(b)[k] = v
    BY <1>1, FsyncedIs
  <2> HIDE DEF u, v
  <2>4. Len(u) <= Len(v) /\ \A j \in 1 .. Len(u) : u[j] = v[j]
    BY <2>1, <2>2, SMTT(30)
  <2> QED
    BY Zenon, <2>2, <2>3, <2>4, FramesGrow
<1>3. DOMAIN Fsynced(a) = DOMAIN a /\ DOMAIN Fsynced(b) = DOMAIN b
  BY FsyncedIs
<1> QED
  BY <1>1, <1>2, <1>3 DEF Held, AllFrames

\* What is held depends on the durable beginnings only.
LEMMA HeldSame ==
  ASSUME NEW a \in Segments, NEW b \in Segments, Fsynced(a) = Fsynced(b)
  PROVE  Held(a) = Held(b)
BY DEF Held

\* A segment that is fsynced to its end holds all its frames.
LEMMA HeldLast ==
  ASSUME NEW segs \in Segments, NEW k \in DOMAIN segs, segs[k].safe = Len(segs[k].items)
  PROVE  Frames(segs[k].items) \subseteq Held(segs)
<1>1. Fsynced(segs)[k] = segs[k].items /\ k \in DOMAIN Fsynced(segs)
  <2>1. segs[k].items \in Seq(Line) /\ segs[k].safe \in 0 .. Len(segs[k].items)
    BY SegmentsAre
  <2>2. SubSeq(segs[k].items, 1, segs[k].safe) = segs[k].items
    BY <2>1, Prefix
  <2> QED
    BY Zenon, <2>2, FsyncedIs
<1> QED
  BY <1>1 DEF Held, AllFrames

\* An empty segment commits nothing.
LEMMA EmptyFrames == Frames(<<>>) = {}
<1>1. Clean(<<>>)
  BY EmptyClean
<1> DEFINE s == <<>>
<1>2. s \in Seq(Line) /\ Len(s) = 0 /\ \A k \in DOMAIN s : s[k] # Torn
  OBVIOUS
<1> HIDE DEF s
<1>3. GroupFrames(s) = After(s)[0]
  BY Zenon, <1>2, CleanDecodes
<1>4. After(s)[0] = Start
  BY <1>2, AfterIs
<1>5. Frames(s) = {}
  BY <1>3, <1>4 DEF Frames, Closed, Start
<1> QED
  BY <1>5 DEF s

\* rollSegment adds an empty segment, which holds nothing.
LEMMA NewSegmentIs ==
  ASSUME NEW segs \in Segments, NEW e \in Nat
  PROVE  LET new == NewSegment(segs, e) IN
         /\ new \in Segments /\ new # <<>> /\ Held(new) = Held(segs)
         /\ Last(new) = [epoch |-> e, items |-> <<>>, safe |-> 0]
<1> DEFINE s == [epoch |-> e, items |-> <<>>, safe |-> 0]
           new == Append(segs, s)
           n == Len(segs)
<1>1. s \in Segment /\ s.safe <= Len(s.items)
  BY DEF Segment
<1>2. segs \in Seq(Segment) /\ n \in Nat /\ DOMAIN segs = 1 .. n
  BY SegmentsAre
<1>a. s.items = <<>> /\ s.safe = 0 /\ s.safe = Len(s.items)
  OBVIOUS
<1> HIDE DEF s
<1>3. /\ new \in Seq(Segment) /\ Len(new) = n + 1 /\ new[n + 1] = s
      /\ DOMAIN new = 1 .. n + 1 /\ \A k \in 1 .. n : new[k] = segs[k]
  BY <1>1, <1>2
<1> HIDE DEF new
<1>4. new \in Segments
  <2>1. \A k \in 1 .. n + 1 : k \in 1 .. n \/ k = n + 1
    BY <1>2
  <2>2. \A k \in 1 .. n : segs[k].safe <= Len(segs[k].items)
    BY <1>2 DEF Segments
  <2> QED
    BY <1>1, <1>3, <2>1, <2>2 DEF Segments
<1>5. new # <<>> /\ Last(new) = s
  BY <1>2, <1>3 DEF Last
<1>6. Held(new) = Held(segs)
  <2>1. Fsynced(new)[n + 1] = <<>>
    <3>1. Fsynced(new)[n + 1] = SubSeq(s.items, 1, 0)
      BY <1>2, <1>3, <1>4, <1>a, FsyncedIs
    <3> QED
      BY <1>a, <3>1
  <2>a. /\ DOMAIN Fsynced(new) = 1 .. n + 1 /\ DOMAIN Fsynced(segs) = 1 .. n
        /\ \A k \in 1 .. n + 1 : Fsynced(new)[k] = SubSeq(new[k].items, 1, new[k].safe)
        /\ \A k \in 1 .. n : Fsynced(segs)[k] = SubSeq(segs[k].items, 1, segs[k].safe)
    BY <1>2, <1>3, <1>4, FsyncedIs
  <2>b. \A k \in 1 .. n : k \in 1 .. n + 1
    BY <1>2
  <2>2. \A k \in 1 .. n : Fsynced(new)[k] = Fsynced(segs)[k]
    BY Zenon, <1>3, <2>a, <2>b
  <2>c. 1 .. n + 1 = 1 .. n \cup {n + 1}
    BY <1>2
  <2>3. DOMAIN Fsynced(new) = 1 .. n \cup {n + 1} /\ DOMAIN Fsynced(segs) = 1 .. n
    BY <2>a, <2>c
  <2>4. Frames(Fsynced(new)[n + 1]) = {}
    BY <2>1, EmptyFrames
  <2> QED
    BY <2>2, <2>3, <2>4 DEF Held, AllFrames
<1> QED
  BY <1>4, <1>5, <1>6 DEF NewSegment, new, s

\* The last segment is replaced by one with more lines.
LEMMA LastReplaced ==
  ASSUME NEW segs \in Segments, segs # <<>>, NEW s \in Segment, s.safe <= Len(s.items),
         Last(segs).safe <= s.safe,
         \A j \in 1 .. Last(segs).safe : Last(segs).items[j] = s.items[j]
  PROVE  LET new == [segs EXCEPT ![Len(segs)] = s] IN
         /\ new \in Segments /\ new # <<>> /\ Last(new) = s
         /\ Held(segs) \subseteq Held(new)
         /\ s.safe = Last(segs).safe => Held(new) = Held(segs)
<1> DEFINE new == [segs EXCEPT ![Len(segs)] = s]
           n == Len(segs)
<1>1. /\ segs \in Seq(Segment) /\ n \in Nat /\ DOMAIN segs = 1 .. n /\ n \in DOMAIN segs
      /\ Last(segs) = segs[n] /\ n # 0
  BY SegmentsAre
<1>2. /\ new \in Seq(Segment) /\ Len(new) = n /\ DOMAIN new = 1 .. n /\ new[n] = s
      /\ \A k \in 1 .. n : k # n => new[k] = segs[k]
      /\ Len(segs) <= Len(new) /\ Len(new) <= Len(segs)
  <2>1. new \in [1 .. n -> Segment]
    BY <1>1
  <2>2. \A k \in 1 .. n : new[k] = IF k = n THEN s ELSE segs[k]
    BY <1>1
  <2> HIDE DEF new
  <2>3. new \in Seq(Segment) /\ Len(new) = n /\ DOMAIN new = 1 .. n
    BY <1>1, <2>1
  <2>4. new[n] = s /\ \A k \in 1 .. n : k # n => new[k] = segs[k]
    BY Zenon, <1>1, <2>2
  <2>5. Len(segs) <= Len(new) /\ Len(new) <= Len(segs)
    BY <1>1, <2>3
  <2> QED
    BY Zenon, <2>3, <2>4, <2>5
<1> HIDE DEF new
<1>3. new \in Segments
  <2>1. \A k \in DOMAIN segs : segs[k].safe <= Len(segs[k].items)
    BY DEF Segments
  <2> QED
    BY Zenon, <1>1, <1>2, <2>1 DEF Segments
<1>4. new # <<>> /\ Last(new) = s
  BY Zenon, <1>1, <1>2 DEF Last
<1>5. Held(segs) \subseteq Held(new)
  <2>1. ASSUME NEW k \in DOMAIN segs
        PROVE  /\ segs[k].safe <= new[k].safe
               /\ \A j \in 1 .. segs[k].safe : segs[k].items[j] = new[k].items[j]
    <3>1. CASE k = n
      BY Zenon, <1>1, <1>2, <3>1
    <3>2. CASE k # n
      <4>1. new[k] = segs[k] /\ segs[k].safe \in 0 .. Len(segs[k].items) /\ Len(segs[k].items) \in Nat
        BY Zenon, <1>1, <1>2, <3>2, SegmentsAre
      <4> QED
        BY <4>1
    <3> QED
      BY <3>1, <3>2
  <2> QED
    BY Zenon, <1>2, <1>3, <2>1, HeldGrows
<1>6. ASSUME s.safe = Last(segs).safe PROVE Held(new) \subseteq Held(segs)
  <2>1. ASSUME NEW k \in DOMAIN new
        PROVE  /\ new[k].safe <= segs[k].safe
               /\ \A j \in 1 .. new[k].safe : new[k].items[j] = segs[k].items[j]
    <3>1. CASE k = n
      <4>1. segs[n].safe \in 0 .. Len(segs[n].items) /\ Len(segs[n].items) \in Nat
        BY <1>1, SegmentsAre
      <4>2. segs[n].safe \in Nat
        BY <4>1
      <4>3. new[n].safe = segs[n].safe
        BY Zenon, <1>1, <1>2, <1>6
      <4> QED
        BY Zenon, <1>1, <1>2, <1>6, <3>1, <4>2, <4>3
    <3>2. CASE k # n
      <4>1. new[k] = segs[k] /\ segs[k].safe \in 0 .. Len(segs[k].items) /\ Len(segs[k].items) \in Nat
        BY Zenon, <1>1, <1>2, <3>2, SegmentsAre
      <4> QED
        BY <4>1
    <3> QED
      BY <3>1, <3>2
  <2> QED
    BY Zenon, <1>2, <1>3, <2>1, HeldGrows
<1> QED
  BY Zenon, <1>3, <1>4, <1>5, <1>6 DEF new

\* Lines behind lines.
LEMMA Joined ==
  ASSUME NEW a \in Seq(Line), NEW b \in Seq(Line)
  PROVE  /\ a \o b \in Seq(Line) /\ Len(a \o b) = Len(a) + Len(b) /\ Len(a) \in Nat /\ Len(b) \in Nat
         /\ \A j \in 1 .. Len(a) : (a \o b)[j] = a[j]
OBVIOUS

\* A segment with other lines.
LEMMA SegmentWith ==
  ASSUME NEW r \in Segment, NEW x
  PROVE  [r EXCEPT !.items = x] = [epoch |-> r.epoch, items |-> x, safe |-> r.safe]
BY DEF Segment

\* A write that is fsynced loses nothing, and makes durable what its lines commit.
LEMMA SyncedIs ==
  ASSUME NEW segs \in Segments, segs # <<>>, NEW items \in Seq(Line)
  PROVE  LET new == Synced(segs, items)
             all == Last(segs).items \o items
         IN  /\ new \in Segments /\ new # <<>>
             /\ Last(new) = [epoch |-> Last(segs).epoch, items |-> all, safe |-> Len(all)]
             /\ Held(segs) \subseteq Held(new)
             /\ Frames(all) \subseteq Held(new)
<1> DEFINE n == Len(segs)
           all == segs[n].items \o items
           s == [epoch |-> segs[n].epoch, items |-> all, safe |-> Len(all)]
           new == [segs EXCEPT ![n] = s]
<1>1. /\ n \in DOMAIN segs /\ Last(segs) = segs[n] /\ segs[n] \in Segment /\ segs[n].epoch \in Nat
      /\ segs[n].items \in Seq(Line) /\ segs[n].safe \in 0 .. Len(segs[n].items)
  BY SegmentsAre
<1>2. /\ all \in Seq(Line) /\ Len(all) \in Nat /\ Len(segs[n].items) \in Nat
      /\ segs[n].safe <= Len(all) /\ \A j \in 1 .. segs[n].safe : segs[n].items[j] = all[j]
  BY <1>1, Joined
<1>3. Synced(segs, items) = new
  BY Zenon DEF Synced
<1> HIDE DEF all
<1>4. s \in Segment /\ s.safe <= Len(s.items) /\ s.items = all /\ s.safe = Len(all)
  BY <1>1, <1>2 DEF Segment
<1> HIDE DEF s
<1>5. new \in Segments /\ new # <<>> /\ Last(new) = s /\ Held(segs) \subseteq Held(new)
  BY Zenon, <1>1, <1>2, <1>4, LastReplaced
<1> HIDE DEF new
<1>6. Frames(all) \subseteq Held(new)
  <2>1. Len(new) \in DOMAIN new /\ new[Len(new)] = s
    BY <1>5, SegmentsAre
  <2> QED
    BY <1>4, <1>5, <2>1, HeldLast
<1> QED
  BY <1>1, <1>3, <1>5, <1>6 DEF s, all

\* A write that is not fsynced makes nothing durable, and loses nothing.
LEMMA UnsyncedIs ==
  ASSUME NEW segs \in Segments, segs # <<>>, NEW items \in Seq(Line)
  PROVE  LET new == Unsynced(segs, items)
         IN  /\ new \in Segments /\ new # <<>> /\ Held(new) = Held(segs)
             /\ Last(new).epoch = Last(segs).epoch
<1> DEFINE n == Len(segs)
           all == segs[n].items \o items
           s == [epoch |-> segs[n].epoch, items |-> all, safe |-> segs[n].safe]
           new == [segs EXCEPT ![n] = s]
<1>1. /\ n \in DOMAIN segs /\ Last(segs) = segs[n] /\ segs[n] \in Segment /\ segs[n].epoch \in Nat
      /\ segs[n].items \in Seq(Line) /\ segs[n].safe \in 0 .. Len(segs[n].items)
  BY SegmentsAre
<1>2. /\ all \in Seq(Line) /\ Len(all) \in Nat /\ Len(segs[n].items) \in Nat /\ segs[n].safe \in Nat
      /\ segs[n].safe <= Len(all) /\ \A j \in 1 .. segs[n].safe : segs[n].items[j] = all[j]
  BY <1>1, Joined
<1>3. Unsynced(segs, items) = new
  <2>1. [segs[n] EXCEPT !.items = all] = s
    BY Zenon, <1>1, <1>2, SegmentWith
  <2>2. Unsynced(segs, items) = [segs EXCEPT ![n] = [segs[n] EXCEPT !.items = all]]
    BY Zenon DEF Unsynced
  <2> QED
    BY Zenon, <2>1, <2>2
<1> HIDE DEF all
<1>4. s \in Segment /\ s.safe <= Len(s.items) /\ s.items = all /\ s.safe = segs[n].safe
      /\ s.epoch = segs[n].epoch
  BY <1>1, <1>2 DEF Segment
<1> HIDE DEF s
<1>5. new \in Segments /\ new # <<>> /\ Last(new) = s /\ Held(new) = Held(segs)
  <2>1. Last(segs).safe <= s.safe /\ s.safe = Last(segs).safe
    BY <1>1, <1>2, <1>4
  <2>2. \A j \in 1 .. Last(segs).safe : Last(segs).items[j] = s.items[j]
    BY <1>1, <1>2, <1>4
  <2>3. s \in Segment /\ s.safe <= Len(s.items)
    BY <1>4
  <2> QED
    BY <2>1, <2>2, <2>3, LastReplaced
<1> QED
  BY <1>1, <1>3, <1>4, <1>5

\* What may be left of lines are lines.
LEMMA PartialIs ==
  ASSUME NEW s \in Seq(Line)
  PROVE  Partial(s) \subseteq Seq(Line)
<1>1. Len(s) \in Nat /\ Torn \in Line
  BY DEF Line
<1>2. \A k \in 0 .. Len(s) : SubSeq(s, 1, k) \in Seq(Line)
  BY Prefix
<1>3. \A k \in 0 .. Len(s) - 1 : Append(SubSeq(s, 1, k), Torn) \in Seq(Line)
  BY <1>1, <1>2
<1> QED
  BY Zenon, <1>2, <1>3 DEF Partial

\* A group is lines.
LEMMA GroupIs ==
  ASSUME NEW fr \in Seq(FrameLine)
  PROVE  Group(fr) \in Seq(Line)
<1>1. Len(fr) \in Nat /\ Commit(Len(fr)) \in Line /\ fr \in Seq(Line)
  BY DEF Commit, CommitLine, Kept, Line
<1> QED
  BY <1>1 DEF Group

-----------------------------------------------------------------------------
(* The invariant.                                                          *)

Told == {"none", "pending", "acked", "duplicate", "nacked",
         "indeterminate", "lost", "committed", "not_applied"}

Owner ==
  [state : {"down", "available", "unavailable_write", "unavailable_read"},
   epoch : Nat, next : Nat, committed : Nat, hot : Records, cold : Records,
   receipts : Receipts, kept : Seq(Nat), n : Nat, alloc : Nat, ckpt : Nat \X Nat,
   unapplied : SUBSET Txn, frames : Seq(FrameLine), noops : SUBSET Txn,
   overlay : Records, retry : BOOLEAN]

Manifest ==
  [epoch : Nat, ckpt : Nat \X Nat, hot : Records, cold : Records,
   receipts : Receipts, kept : Seq(Nat), n : Nat]

Asked == {t \in Txn : op[t] # NoOp}

\* The files, and the log that they stand for.
Stored ==
  /\ segments \in Segments
  /\ log \in Seq(FrameLine) /\ ToSet(log) = Held(segments)
  /\ manifest \in Manifest /\ occupied \in 1 .. MaxGen

Owned ==
  /\ own \in Owner /\ Len(own.frames) <= MaxGroup /\ own.next # 0
  /\ own.state = "available" => segments # <<>>
  /\ own.retry => own.state = "available" /\ own.frames # <<>>

Answered ==
  /\ op \in [Txn -> Op \cup {NoOp}]
  /\ inbox \in Seq(Asked)
  /\ Txns(own.frames) \subseteq Asked /\ own.noops \subseteq Asked
  /\ outcome \in [Txn -> Told]
  /\ \A t \in Txn : (op[t] = NoOp) <=> (outcome[t] = "none")
  /\ faults \in 0 .. MaxFaults

Sound == Stored /\ Owned /\ Answered

-----------------------------------------------------------------------------
(* The files.                                                              *)

\* After an fsync that loses nothing, the log is that of the segments.
LEMMA DurableIs ==
  ASSUME NEW segs \in Segments, Held(segments) \subseteq Held(segs), Durable(segs)
  PROVE  /\ segments' = segs /\ segments' \in Segments
         /\ log' \in Seq(FrameLine) /\ ToSet(log') = Held(segments')
         /\ Held(segments) \subseteq Held(segments')
<1>1. segments' = segs /\ log' = LogOf(Fsynced(segs))
  BY DEF Durable
<1>2. LogOf(Fsynced(segs)) \in Seq(FrameLine) /\ ToSet(LogOf(Fsynced(segs))) = Held(segs)
  BY FsyncedIs, LogIs DEF Held
<1> QED
  BY <1>1, <1>2

\* Without an fsync the log is still that of the segments.
LEMMA VolatileIs ==
  ASSUME Stored, NEW segs \in Segments, Held(segs) = Held(segments), Volatile(segs)
  PROVE  /\ segments' = segs /\ segments' \in Segments
         /\ log' \in Seq(FrameLine) /\ ToSet(log') = Held(segments')
         /\ Held(segments) \subseteq Held(segments')
BY DEF Volatile, Stored

\* What a step does to the files.
FilesKept ==
  /\ segments' \in Segments
  /\ log' \in Seq(FrameLine) /\ ToSet(log') = Held(segments')
  /\ Held(segments) \subseteq Held(segments')

\* What the open group of the owner is.
LEMMA OwnerIs ==
  ASSUME Owned
  PROVE  /\ own.epoch \in Nat /\ own.frames \in Seq(FrameLine) /\ Group(own.frames) \in Seq(Line)
         /\ Partial(Group(own.frames)) \subseteq Seq(Line)
         /\ own.retry => segments # <<>>
         /\ own.next \in Nat
BY Zenon, GroupIs, PartialIs DEF Owned, Owner

\* A group that is merged.
LEMMA MergeFiles ==
  ASSUME Owned, NEW segs \in Segments, segs # <<>>, Held(segments) = Held(segs), Merge(segs)
  PROVE  FilesKept /\ segments' # <<>>
<1> DEFINE written == Synced(segs, Group(own.frames))
<1>1. written \in Segments /\ Held(segments) \subseteq Held(written) /\ written # <<>>
  BY OwnerIs, SyncedIs
<1> DEFINE new == NewSegment(written, own.epoch)
<1>2. Durable(written) \/ Durable(new)
  BY DEF Merge
<1> HIDE DEF written
<1>3. new \in Segments /\ Held(new) = Held(written) /\ new # <<>>
  BY Zenon, <1>1, OwnerIs, NewSegmentIs
<1> HIDE DEF new
<1>4. CASE Durable(written)
  BY <1>1, <1>4, DurableIs DEF FilesKept
<1>5. CASE Durable(new)
  BY <1>1, <1>3, <1>5, DurableIs DEF FilesKept
<1> QED
  BY <1>2, <1>4, <1>5

\* flushGroup, whether its write succeeds or not.
LEMMA FlushFiles ==
  ASSUME Stored, Owned, Flush
  PROVE  FilesKept /\ segments' # <<>>
<1>1. segments \in Segments /\ segments # <<>>
  BY DEF Stored, Owned, Flush
<1>2. CASE Merge(segments)
  BY <1>1, <1>2, MergeFiles
<1>3. CASE \E items \in Partial(Group(own.frames)) : Volatile(Unsynced(segments, items))
  <2>1. PICK items \in Partial(Group(own.frames)) : Volatile(Unsynced(segments, items))
    BY <1>3
  <2>2. items \in Seq(Line)
    BY OwnerIs
  <2> DEFINE new == Unsynced(segments, items)
  <2>3. new \in Segments /\ new # <<>> /\ Held(new) = Held(segments)
    BY <1>1, <2>2, UnsyncedIs
  <2> HIDE DEF new
  <2> QED
    BY <2>1, <2>3, VolatileIs DEF FilesKept, new
<1> QED
  BY <1>2, <1>3 DEF Flush

\* Its second attempt, in a new segment.
LEMMA RetryFiles ==
  ASSUME Stored, Owned, Retry
  PROVE  FilesKept /\ segments' # <<>>
<1> DEFINE segs == NewSegment(segments, own.epoch)
<1>1. segs \in Segments /\ segs # <<>> /\ Held(segs) = Held(segments)
  BY Zenon, OwnerIs, NewSegmentIs DEF Stored
<1>2. \/ Merge(segs)
      \/ \E items \in Partial(Group(own.frames)) : Volatile(Unsynced(segs, items))
  BY DEF Retry
<1> HIDE DEF segs
<1>3. CASE Merge(segs)
  BY <1>1, <1>3, MergeFiles
<1>4. CASE \E items \in Partial(Group(own.frames)) : Volatile(Unsynced(segs, items))
  <2>1. PICK items \in Partial(Group(own.frames)) : Volatile(Unsynced(segs, items))
    BY <1>4
  <2>2. items \in Seq(Line)
    BY OwnerIs
  <2> DEFINE new == Unsynced(segs, items)
  <2>3. new \in Segments /\ new # <<>> /\ Held(new) = Held(segments)
    BY <1>1, <2>2, UnsyncedIs
  <2> HIDE DEF new
  <2> QED
    BY <2>1, <2>3, VolatileIs DEF FilesKept, new
<1> QED
  BY <1>2, <1>3, <1>4

\* A loss of power takes only what was not fsynced, and leaves an fsynced segment as it was.
LEMMA PowerLossFiles ==
  ASSUME Stored, PowerLoss
  PROVE  /\ FilesKept /\ Len(segments') = Len(segments)
         /\ \A k \in DOMAIN segments :
              /\ segments'[k].epoch = segments[k].epoch
              /\ segments[k].safe = Len(segments[k].items) => segments'[k] = segments[k]
<1> DEFINE exposed == {k \in DOMAIN segments : segments[k].safe < Len(segments[k].items)}
<1>1. PICK tail \in [exposed -> UNION {Tails(segments[k]) : k \in exposed}] :
        /\ \A k \in exposed : tail[k] \in Tails(segments[k])
        /\ Durable([k \in DOMAIN segments |->
             IF k \in exposed
             THEN [epoch |-> segments[k].epoch,
                   items |-> SubSeq(segments[k].items, 1, segments[k].safe) \o tail[k],
                   safe |-> segments[k].safe + Len(tail[k])]
             ELSE segments[k]])
  BY Zenon DEF PowerLoss
<1> DEFINE left(k) == SubSeq(segments[k].items, 1, segments[k].safe) \o tail[k]
           part(k) == IF k \in exposed
                      THEN [epoch |-> segments[k].epoch, items |-> left(k), safe |-> segments[k].safe + Len(tail[k])]
                      ELSE segments[k]
           new == [k \in DOMAIN segments |-> part(k)]
<1>2. Durable(new)
  BY <1>1
<1>3. \A k \in DOMAIN segments :
        /\ segments[k] \in Segment /\ segments[k].epoch \in Nat
        /\ segments[k].items \in Seq(Line) /\ Len(segments[k].items) \in Nat
        /\ segments[k].safe \in 0 .. Len(segments[k].items)
  BY SegmentsAre DEF Stored
<1>4. ASSUME NEW k \in DOMAIN segments
      PROVE  /\ part(k) \in Segment /\ part(k).safe <= Len(part(k).items)
             /\ part(k).epoch = segments[k].epoch /\ segments[k].safe <= part(k).safe
             /\ \A j \in 1 .. segments[k].safe : segments[k].items[j] = part(k).items[j]
             /\ segments[k].safe = Len(segments[k].items) => part(k) = segments[k]
  <2>1. CASE k \notin exposed
    <3>1. part(k) = segments[k]
      BY <2>1
    <3> QED
      BY <1>3, <3>1
  <2>2. CASE k \in exposed
    <3> DEFINE head == SubSeq(segments[k].items, 1, segments[k].safe)
               rest == SubSeq(segments[k].items, segments[k].safe + 1, Len(segments[k].items))
               t == tail[k]
    <3>1. rest \in Seq(Line)
      BY <1>3
    <3>2. t \in Partial(rest)
      BY <1>1, <2>2 DEF Tails
    <3> HIDE DEF rest, t
    <3>3. t \in Seq(Line)
      BY <3>1, <3>2, PartialIs
    <3>4. /\ head \in Seq(Line) /\ Len(head) = segments[k].safe
          /\ \A j \in 1 .. segments[k].safe : head[j] = segments[k].items[j]
      BY <1>3, Prefix
    <3> HIDE DEF head
    <3>a. /\ head \o t \in Seq(Line) /\ Len(head \o t) = Len(head) + Len(t) /\ Len(t) \in Nat
          /\ \A j \in 1 .. Len(head) : (head \o t)[j] = head[j]
      BY Zenon, <3>3, <3>4, Joined
    <3>5. /\ head \o t \in Seq(Line) /\ Len(head \o t) = segments[k].safe + Len(t) /\ Len(t) \in Nat
          /\ \A j \in 1 .. segments[k].safe : (head \o t)[j] = segments[k].items[j]
      BY <3>4, <3>a
    <3> DEFINE all == head \o t
               n == segments[k].safe + Len(t)
    <3> DEFINE p == part(k)
    <3>6. p = [epoch |-> segments[k].epoch, items |-> all, safe |-> n]
      BY <2>2 DEF head, t
    <3>7. segments[k].safe \in Nat /\ all \in Seq(Line) /\ n \in Nat /\ segments[k].safe # Len(segments[k].items)
      BY <1>3, <2>2, <3>5
    <3> HIDE DEF all, n, p
    <3>10. p \in Segment /\ p.epoch = segments[k].epoch /\ p.items = all /\ p.safe = n
      BY <1>3, <3>6, <3>7 DEF Segment
    <3>11. n = Len(all) /\ segments[k].safe <= n
           /\ \A j \in 1 .. segments[k].safe : all[j] = segments[k].items[j]
      BY <3>5, <3>7 DEF n, all
    <3> QED
      BY <3>7, <3>10, <3>11 DEF p
  <2> QED
    BY Zenon, <2>1, <2>2
<1> HIDE DEF part
<1>5. /\ new \in Segments /\ Len(new) = Len(segments) /\ DOMAIN new = DOMAIN segments
      /\ \A k \in DOMAIN segments : new[k] = part(k)
  <2>1. DOMAIN segments = 1 .. Len(segments) /\ Len(segments) \in Nat
    BY SegmentsAre DEF Stored
  <2>2. new \in [1 .. Len(segments) -> Segment] /\ \A k \in 1 .. Len(segments) : new[k] = part(k)
    BY <1>4, <2>1
  <2> HIDE DEF new
  <2>3. new \in Seq(Segment) /\ Len(new) = Len(segments) /\ DOMAIN new = 1 .. Len(segments)
    BY <2>1, <2>2
  <2> QED
    BY <1>4, <2>1, <2>2, <2>3 DEF Segments
<1> HIDE DEF new
<1>6. Held(segments) \subseteq Held(new)
  <2>1. segments \in Segments /\ Len(segments) <= Len(new)
    BY <1>5, SegmentsAre DEF Stored
  <2>2. \A k \in DOMAIN segments :
          /\ segments[k].safe <= new[k].safe
          /\ \A j \in 1 .. segments[k].safe : segments[k].items[j] = new[k].items[j]
    BY <1>4, <1>5
  <2> QED
    BY Zenon, <1>5, <2>1, <2>2, HeldGrows
<1>7. FilesKept /\ segments' = new
  BY <1>2, <1>5, <1>6, DurableIs DEF FilesKept
<1> QED
  BY <1>4, <1>5, <1>7

\* What recover replays ends in a group, or in none.
LEMMA ReplayIs ==
  ASSUME Stored
  PROVE  LET r == Replay(manifest.hot, manifest.ckpt, Items(segments)) IN
         /\ r \in Replaying /\ LastGroup(r) \in Seq(Line)
         /\ LastGroup(r) = <<>> \/ \E fr \in Seq(FrameLine) : LastGroup(r) = Group(fr)
<1> DEFINE r == Replay(manifest.hot, manifest.ckpt, Items(segments))
<1>1. r \in Replaying
  <2>1. manifest.hot \in Records /\ manifest.ckpt \in Nat \X Nat
    BY DEF Stored, Manifest
  <2>2. Items(segments) \in Texts
    BY ItemsTexts DEF Stored
  <2> QED
    BY <2>1, <2>2, ReplayType
<1> HIDE DEF r
<1>2. r.last \in Seq(FrameLine)
  BY <1>1 DEF Replaying
<1>3. <<>> \in Seq(Line)
  OBVIOUS
<1>4. LastGroup(r) \in {<<>>, Group(r.last)}
  BY DEF LastGroup
<1> QED
  BY Zenon, <1>1, <1>2, <1>3, <1>4, GroupIs DEF r

\* The segment that recover writes to is of the next epoch.
LEMMA OpenedIs ==
  ASSUME Stored
  PROVE  /\ Opened \in Segments /\ Opened # <<>> /\ Held(Opened) = Held(segments)
         /\ Last(Opened).epoch = manifest.epoch + 1
         /\ \/ Opened = segments /\ segments # <<>> /\ Last(segments).epoch = manifest.epoch + 1
            \/ Last(Opened) = [epoch |-> manifest.epoch + 1, items |-> <<>>, safe |-> 0]
<1>1. manifest.epoch + 1 \in Nat /\ segments \in Segments
  BY DEF Stored, Manifest
<1>2. CASE segments # <<>> /\ Last(segments).epoch = manifest.epoch + 1
  BY <1>1, <1>2 DEF Opened
<1>3. CASE ~(segments # <<>> /\ Last(segments).epoch = manifest.epoch + 1)
  <2>1. Opened = NewSegment(segments, manifest.epoch + 1)
    BY <1>3 DEF Opened
  <2> QED
    BY <1>1, <2>1, NewSegmentIs
<1> QED
  BY <1>2, <1>3

\* The copy of the last group, fsynced or cut.
LEMMA CopyFiles ==
  ASSUME Stored, NEW items \in Seq(Line)
  PROVE  /\ Durable(Synced(Opened, items)) => FilesKept /\ segments' # <<>>
         /\ Volatile(Unsynced(Opened, items)) => FilesKept
<1> DEFINE new == Synced(Opened, items)
           cut == Unsynced(Opened, items)
<1>1. Opened \in Segments /\ Opened # <<>> /\ Held(Opened) = Held(segments)
  BY OpenedIs
<1>2. new \in Segments /\ new # <<>> /\ Held(segments) \subseteq Held(new)
  BY <1>1, SyncedIs
<1>3. cut \in Segments /\ Held(cut) = Held(segments)
  BY <1>1, UnsyncedIs
<1> HIDE DEF new, cut
<1>4. Durable(new) => FilesKept /\ segments' # <<>>
  BY <1>2, DurableIs DEF FilesKept
<1>5. Volatile(cut) => FilesKept
  BY <1>3, VolatileIs DEF FilesKept
<1> QED
  BY <1>4, <1>5 DEF new, cut

\* open, whether it recovers, is cut, or finds the store unreadable.
LEMMA OpenFiles ==
  ASSUME Stored, Open
  PROVE  FilesKept /\ (own'.state = "available" => segments' # <<>>)
<1> DEFINE r == Replay(manifest.hot, manifest.ckpt, Items(segments))
<1>1. LastGroup(r) \in Seq(Line)
  BY ReplayIs
<1>2. own.state = "down" /\ (Recover(r) \/ RecoverCut(r) \/ RecoverUnreadable(r))
  BY DEF Open
<1> HIDE DEF r
<1>3. CASE Recover(r)
  BY <1>1, <1>3, CopyFiles DEF Recover
<1>4. CASE RecoverCut(r)
  <2>1. own'.state = "down"
    BY <1>2, <1>4 DEF RecoverCut
  <2>2. CASE Volatile(Opened)
    <3>1. Opened \in Segments /\ Held(Opened) = Held(segments)
      BY OpenedIs
    <3> DEFINE o == Opened
    <3> HIDE DEF o
    <3>2. o \in Segments /\ Held(o) = Held(segments) /\ Volatile(o)
      BY <2>2, <3>1 DEF o
    <3> QED
      BY <2>1, <3>2, VolatileIs DEF FilesKept
  <2>3. CASE Durable(Synced(Opened, LastGroup(r)))
    BY <1>1, <2>1, <2>3, CopyFiles
  <2>4. CASE \E items \in Partial(LastGroup(r)) : Volatile(Unsynced(Opened, items))
    <3>1. PICK items \in Partial(LastGroup(r)) : Volatile(Unsynced(Opened, items))
      BY <2>4
    <3>2. items \in Seq(Line)
      BY <1>1, PartialIs
    <3> QED
      BY <2>1, <3>1, <3>2, CopyFiles
  <2> QED
    BY <1>4, <2>2, <2>3, <2>4 DEF RecoverCut
<1>5. CASE RecoverUnreadable(r)
  <2>1. own'.state = "unavailable_read"
    BY <1>5 DEF RecoverUnreadable, Down
  <2>2. FilesKept
    BY <1>5 DEF RecoverUnreadable, Stored, FilesKept
  <2> QED
    BY <2>1, <2>2
<1> QED
  BY <1>2, <1>3, <1>4, <1>5

\* Every step leaves the files readable, and takes no committed frame back.
LEMMA StepFiles ==
  ASSUME Stored, Owned, [Next]_vars
  PROVE  FilesKept
<1>1. CASE UNCHANGED <<segments, log>>
  BY <1>1 DEF Stored, FilesKept
<1>2. ASSUME NEW t \in Txn, NEW o \in Op, Submit(t, o) PROVE FilesKept
  BY <1>1, <1>2 DEF Submit
<1>3. CASE Take
  BY <1>1, <1>3 DEF Take
<1>4. CASE Checkpoint
  BY <1>1, <1>4 DEF Checkpoint
<1>5. CASE Exit
  BY <1>1, <1>5 DEF Exit
<1>6. CASE UNCHANGED vars
  BY <1>1, <1>6 DEF vars
<1> QED
  BY <1>2, <1>3, <1>4, <1>5, <1>6, FlushFiles, RetryFiles, PowerLossFiles, OpenFiles DEF Next

-----------------------------------------------------------------------------
(* The memory of the owner, and the MANIFEST.                              *)

\* The record of none, and the receipts of none.
LEMMA NoneIs == None \in Record /\ NoRecords \in Records /\ NoReceipts \in Receipts
<1>1. None \in Record
  BY DEF None, Record, Observation
<1>2. NoRecords \in Records
  BY <1>1 DEF NoRecords, Records
<1>3. NoReceipts \in [{} -> 0 .. MaxGen]
  BY DEF NoReceipts
<1>4. {} \in SUBSET Txn
  OBVIOUS
<1> QED
  BY Zenon, <1>1, <1>2, <1>3, <1>4 DEF Receipts

\* The view of the owner: the open group over the projection.
LEMMA CurrentIs ==
  ASSUME own \in Owner
  PROVE  [i \in Id |-> Current(i)] \in Records /\ \A i \in Id : Current(i) \in Record
<1>1. own.overlay \in Records /\ own.hot \in Records
  BY DEF Owner
<1>2. \A i \in Id : Current(i) \in Record
  BY <1>1 DEF Current, Records
<1> QED
  BY <1>2 DEF Records

\* A submitted operation becomes a frame of its own transaction.
LEMMA FrameIs ==
  ASSUME own \in Owner, op \in [Txn -> Op \cup {NoOp}], NEW t \in Txn, op[t] # NoOp
  PROVE  FrameOf(t) \in FrameLine /\ FrameOf(t).txn = t
<1>1. op[t] \in Op /\ op[t].id \in Id
  BY OpAssumption
<1>2. own.epoch \in Nat /\ own.next \in Nat /\ own.cold \in Records
  BY DEF Owner
<1> DEFINE over == IF op[t].kind = "begin"
                   THEN Superseded([i \in Id |-> Current(i)], op[t].id) ELSE {}
           rec == IF op[t].kind = "reheat" THEN own.cold[op[t].id] ELSE None
<1>3. over \in SUBSET Id
  BY DEF Superseded
<1>4. rec \in Record
  BY <1>1, <1>2, NoneIs DEF Records
<1>5. FrameOf(t) = [t |-> "frame", txn |-> t, pos |-> <<own.epoch, own.next>>,
                    op |-> op[t], over |-> over, rec |-> rec]
  BY DEF FrameOf, Frame
<1> HIDE DEF over, rec
<1> QED
  BY <1>1, <1>2, <1>3, <1>4, <1>5 DEF FrameLine

\* The records that the open group has touched.
LEMMA OverlayIs ==
  ASSUME own \in Owner, NEW f \in FrameLine
  PROVE  OverlayAfter(f) \in Records
<1> DEFINE view == [i \in Id |-> Current(i)]
           after == ApplyFrame(view, f)
<1>1. view \in Records
  BY CurrentIs
<1> HIDE DEF view
<1>2. after \in Records
  BY <1>1, ApplyType
<1>3. OverlayAfter(f) = [i \in Id |-> IF after[i] # Current(i) THEN after[i] ELSE own.overlay[i]]
  BY DEF OverlayAfter, view
<1> HIDE DEF after
<1>4. own.overlay \in Records
  BY DEF Owner
<1> QED
  BY <1>2, <1>3, <1>4 DEF Records

\* What the owner keeps when it takes a submission: groups of frames that were asked for.
LEMMA TakeOwned ==
  ASSUME Owned, Answered, Take
  PROVE  Owned' /\ Txns(own'.frames) \subseteq Asked /\ own'.noops \subseteq Asked
<1> DEFINE t == Head(inbox)
           f == FrameOf(t)
<1>1. t \in Asked /\ Asked \subseteq Txn
  <2>1. inbox # <<>> /\ inbox \in Seq(Asked)
    BY DEF Take, Answered
  <2> HIDE DEF Asked
  <2>2. t \in Asked
    BY <2>1
  <2> QED
    BY <2>2 DEF Asked
<1>2. own \in Owner /\ op \in [Txn -> Op \cup {NoOp}]
  BY DEF Owned, Answered
<1> HIDE DEF t
<1>3. f \in FrameLine /\ f.txn = t /\ OverlayAfter(f) \in Records
  BY <1>1, <1>2, FrameIs, OverlayIs DEF Asked
<1> HIDE DEF f
<1>4. CASE own' = own
  BY <1>4 DEF Owned, Answered, Take
<1>5. CASE own' = [own EXCEPT !.noops = @ \cup {t}]
  <2>1. own' \in Owner
    BY Zenon, <1>1, <1>2, <1>5 DEF Owner
  <2>2. /\ own'.noops = own.noops \cup {t} /\ own'.frames = own.frames /\ own'.state = own.state
        /\ own'.retry = own.retry /\ own'.next = own.next
    BY <1>2, <1>5 DEF Owner
  <2> QED
    BY <1>1, <2>1, <2>2 DEF Owned, Answered, Take
<1>6. CASE own' = [own EXCEPT !.frames = Append(@, f), !.overlay = OverlayAfter(f), !.next = @ + 1]
  <2>1. Append(own.frames, f) \in Seq(FrameLine) /\ own.next + 1 \in Nat
    BY <1>2, <1>3 DEF Owner
  <2>2. own' \in Owner
    BY Zenon, <1>2, <1>3, <1>6, <2>1 DEF Owner
  <2>3. /\ own'.frames = Append(own.frames, f) /\ own'.noops = own.noops /\ own'.state = own.state
        /\ own'.retry = own.retry /\ own'.next = own.next + 1
    BY <1>2, <1>6 DEF Owner
  <2>4. Txns(own'.frames) = Txns(own.frames) \cup {t}
    <3>1. own.frames \in Seq(FrameLine)
      BY <1>2 DEF Owner
    <3>2. ToSet(Append(own.frames, f)) = ToSet(own.frames) \cup {f}
      BY <1>3, <3>1, Elements
    <3> QED
      BY <1>3, <2>3, <3>2 DEF Txns
  <2>5. Len(own'.frames) <= MaxGroup /\ own'.next # 0 /\ own'.frames # <<>>
    <3>1. own.frames \in Seq(FrameLine) /\ own.next \in Nat /\ Len(own.frames) < MaxGroup
      BY <1>2 DEF Owner, Take
    <3>2. Len(own'.frames) = Len(own.frames) + 1 /\ own'.frames # <<>> /\ Len(own.frames) \in Nat
      BY <2>3, <3>1
    <3> QED
      BY <2>3, <3>1, <3>2, LedgerAssumption
  <2>6. own.noops \subseteq Asked /\ Txns(own.frames) \subseteq Asked
    BY DEF Answered
  <2>7. segments' = segments /\ (own.state = "available" => segments # <<>>)
        /\ ~own.retry
    BY DEF Take, Owned
  <2> QED
    BY <1>1, <2>2, <2>3, <2>4, <2>5, <2>6, <2>7 DEF Owned
<1> QED
  BY <1>4, <1>5, <1>6 DEF Take, t, f

\* The memory after a group has been merged or given up.
LEMMA NoGroupIs ==
  ASSUME NEW o \in Owner
  PROVE  /\ NoGroup(o) \in Owner /\ NoGroup(o).frames = <<>> /\ NoGroup(o).noops = {}
         /\ ~NoGroup(o).retry /\ NoGroup(o).next = o.next /\ NoGroup(o).state = o.state
         /\ NoGroup(o).epoch = o.epoch
<1> DEFINE e == <<>>
           over == NoRecords
<1>1. e \in Seq(FrameLine) /\ over \in Records /\ {} \in SUBSET Txn /\ FALSE \in BOOLEAN
  BY NoneIs
<1>2. NoGroup(o) = [o EXCEPT !.frames = e, !.noops = {}, !.overlay = over, !.retry = FALSE]
  BY DEF NoGroup
<1> HIDE DEF e, over
<1>3. NoGroup(o) \in Owner
  BY <1>1, <1>2, ZenonT(40) DEF Owner
<1>4. NoGroup(o).frames = e /\ NoGroup(o).noops = {} /\ NoGroup(o).retry = FALSE
  BY <1>2 DEF Owner
<1>5. NoGroup(o).next = o.next /\ NoGroup(o).state = o.state /\ NoGroup(o).epoch = o.epoch
  BY <1>2 DEF Owner
<1> QED
  BY <1>3, <1>4, <1>5 DEF e

\* No frames are of no transactions.
LEMMA NoTxns == Txns(<<>>) = {} /\ Len(<<>>) = 0
BY DEF Txns, ToSet

\* A merge leaves no open group.
LEMMA MergeOwned ==
  ASSUME Owned, Answered, NEW segs, Merge(segs)
  PROVE  /\ own' \in Owner /\ own'.frames = <<>> /\ own'.noops = {} /\ ~own'.retry
         /\ own'.next = own.next /\ own'.state = own.state /\ own'.epoch = own.epoch
<1> DEFINE hot == [i \in Id |-> Current(i)]
           new == [t \in DOMAIN own.receipts \cup Txns(own.frames) |->
                     IF t \in DOMAIN own.receipts THEN own.receipts[t] ELSE 0]
           done == own.next - 1
           o == [own EXCEPT !.hot = hot, !.committed = done, !.receipts = new]
<1>1. own \in Owner /\ hot \in Records
  BY CurrentIs DEF Owned
<1>2. own' = NoGroup(o)
  BY DEF Merge
<1>3. new \in Receipts
  <2>1. PICK T \in SUBSET Txn : own.receipts \in [T -> 0 .. MaxGen]
    BY <1>1 DEF Owner, Receipts
  <2>2. Txns(own.frames) \in SUBSET Txn
    BY DEF Answered, Asked
  <2> DEFINE U == T \cup Txns(own.frames)
  <2>3. new \in [U -> 0 .. MaxGen]
    BY <2>1, LedgerAssumption
  <2> QED
    BY Zenon, <2>2, <2>3 DEF Receipts
<1>4. done \in Nat
  BY DEF Owned, Owner
<1> HIDE DEF hot, new, done
<1>5. o \in Owner /\ o.next = own.next /\ o.state = own.state /\ o.epoch = own.epoch
  BY Zenon, <1>1, <1>3, <1>4 DEF Owner
<1> HIDE DEF o
<1> QED
  BY <1>2, <1>5, NoGroupIs

\* The owner after flushGroup.
LEMMA FlushOwned ==
  ASSUME Stored, Owned, Answered, Flush
  PROVE  Owned' /\ Txns(own'.frames) \subseteq Asked /\ own'.noops \subseteq Asked
<1>1. segments' # <<>>
  BY FlushFiles
<1>2. CASE Merge(segments)
  <2>1. /\ own' \in Owner /\ own'.frames = <<>> /\ own'.noops = {} /\ ~own'.retry
        /\ own'.next = own.next
    BY <1>2, MergeOwned
  <2> QED
    BY <1>1, <2>1, NoTxns, LedgerAssumption DEF Owned
<1>3. CASE own' = [own EXCEPT !.retry = TRUE]
  <2>1. own' \in Owner
    BY Zenon, <1>3 DEF Owned, Owner
  <2>2. /\ own'.frames = own.frames /\ own'.noops = own.noops
        /\ own'.next = own.next /\ own'.state = own.state
    BY <1>3 DEF Owned, Owner
  <2> QED
    BY <1>1, <2>1, <2>2 DEF Owned, Answered, Flush
<1> QED
  BY <1>2, <1>3 DEF Flush

\* The owner after its second attempt.
LEMMA RetryOwned ==
  ASSUME Stored, Owned, Answered, Retry
  PROVE  Owned' /\ Txns(own'.frames) \subseteq Asked /\ own'.noops \subseteq Asked
<1>1. segments' # <<>>
  BY RetryFiles
<1> DEFINE o == [own EXCEPT !.state = "unavailable_write"]
<1>2. CASE Merge(NewSegment(segments, own.epoch))
  <2>1. /\ own' \in Owner /\ own'.frames = <<>> /\ own'.noops = {} /\ ~own'.retry
        /\ own'.next = own.next
    BY <1>2, MergeOwned
  <2> QED
    BY <1>1, <2>1, NoTxns, LedgerAssumption DEF Owned
<1>3. CASE own' = NoGroup(o)
  <2>1. o \in Owner /\ o.next = own.next
    BY Zenon DEF Owned, Owner
  <2> HIDE DEF o
  <2>2. /\ own' \in Owner /\ own'.frames = <<>> /\ own'.noops = {} /\ ~own'.retry
        /\ own'.next = own.next
    BY <1>3, <2>1, NoGroupIs
  <2> QED
    BY <1>1, <2>2, NoTxns, LedgerAssumption DEF Owned
<1> QED
  BY <1>2, <1>3 DEF Retry

\* A checkpoint stamps receipts and trims those of older ones.
LEMMA StampedIs ==
  ASSUME NEW r \in Receipts, NEW g \in 1 .. MaxGen, NEW kept
  PROVE  Stamped(r, g) \in Receipts /\ Trimmed(Stamped(r, g), kept) \in Receipts
<1>1. PICK T \in SUBSET Txn : r \in [T -> 0 .. MaxGen]
  BY DEF Receipts
<1> DEFINE s == Stamped(r, g)
<1>2. s \in [T -> 0 .. MaxGen]
  BY <1>1, LedgerAssumption DEF Stamped
<1> HIDE DEF s
<1> DEFINE U == {u \in T : s[u] = 0 \/ s[u] \in ToSet(kept)}
<1>3. Trimmed(s, kept) = [t \in U |-> s[t]]
  BY <1>2 DEF Trimmed
<1>4. Trimmed(s, kept) \in [U -> 0 .. MaxGen]
  BY <1>2, <1>3
<1>5. U \in SUBSET Txn
  OBVIOUS
<1> HIDE DEF U
<1> QED
  BY <1>1, <1>2, <1>4, <1>5 DEF Receipts, s

\* It keeps the numbers of two checkpoints.
LEMMA LastTwoIs ==
  ASSUME NEW s \in Seq(Nat), NEW g \in Nat
  PROVE  LastTwo(Append(s, g)) \in Seq(Nat)
<1> DEFINE a == Append(s, g)
<1>1. a \in Seq(Nat) /\ Len(a) \in Nat
  OBVIOUS
<1> HIDE DEF a
<1>2. Len(a) > 2 => SubSeq(a, Len(a) - 1, Len(a)) \in Seq(Nat)
  BY <1>1
<1> QED
  BY <1>1, <1>2 DEF LastTwo, a

\* The memory of the owner after a checkpoint.
LEMMA CompactedIs ==
  ASSUME own \in Owner, NEW g \in 1 .. MaxGen, NEW d \in SUBSET Id
  PROVE  /\ Compacted(g, d) \in Owner
         /\ Compacted(g, d).state = own.state /\ Compacted(g, d).frames = own.frames
         /\ Compacted(g, d).noops = own.noops /\ Compacted(g, d).retry = own.retry
         /\ Compacted(g, d).next = own.next /\ Compacted(g, d).epoch = own.epoch
<1> DEFINE kept == LastTwo(Append(own.kept, g))
           hot == [i \in Id |-> IF i \in d THEN None ELSE own.hot[i]]
           cold == [i \in Id |-> IF i \in d THEN own.hot[i] ELSE own.cold[i]]
           rec == Trimmed(Stamped(own.receipts, g), kept)
           at == <<own.epoch, own.committed>>
<1>1. g \in Nat /\ own.kept \in Seq(Nat) /\ own.receipts \in Receipts /\ own.hot \in Records
      /\ own.cold \in Records /\ own.epoch \in Nat /\ own.committed \in Nat
  BY LedgerAssumption DEF Owner
<1>2. kept \in Seq(Nat) /\ rec \in Receipts /\ at \in Nat \X Nat
  BY Zenon, <1>1, LastTwoIs, StampedIs
<1>3. hot \in Records /\ cold \in Records
  BY <1>1, NoneIs DEF Records
<1>4. Compacted(g, d) = [own EXCEPT !.hot = hot, !.cold = cold, !.receipts = rec,
                                    !.kept = kept, !.n = g, !.alloc = g, !.ckpt = at]
  BY Zenon DEF Compacted
<1> HIDE DEF kept, hot, cold, rec, at
<1> DEFINE o == [own EXCEPT !.hot = hot, !.cold = cold, !.receipts = rec]
<1>a. o \in Owner
  BY Zenon, <1>2, <1>3 DEF Owner
<1>b. [o EXCEPT !.kept = kept, !.n = g, !.alloc = g, !.ckpt = at] \in Owner
  <2> HIDE DEF o
  <2> QED
    BY Zenon, <1>1, <1>2, <1>a DEF Owner
<1>c. Compacted(g, d) = [o EXCEPT !.kept = kept, !.n = g, !.alloc = g, !.ckpt = at]
  BY <1>4
<1>5. Compacted(g, d) \in Owner
  BY <1>b, <1>c
<1> QED
  BY Zenon, <1>4, <1>5 DEF Owner

\* The MANIFEST of an owner.
LEMMA ManifestIs ==
  ASSUME NEW o \in Owner
  PROVE  ManifestOf(o) \in Manifest /\ ManifestOf(o).epoch = o.epoch
<1> DEFINE rec == [t \in {u \in DOMAIN o.receipts : o.receipts[u] # 0} |-> o.receipts[t]]
<1>1. rec \in Receipts
  <2>1. PICK T \in SUBSET Txn : o.receipts \in [T -> 0 .. MaxGen]
    BY DEF Owner, Receipts
  <2> DEFINE U == {u \in T : o.receipts[u] # 0}
  <2>2. rec \in [U -> 0 .. MaxGen]
    BY <2>1
  <2>3. U \in SUBSET Txn
    OBVIOUS
  <2> HIDE DEF U, rec
  <2> QED
    BY <2>2, <2>3 DEF Receipts
<1>2. ManifestOf(o) = [epoch |-> o.epoch, ckpt |-> o.ckpt, hot |-> o.hot, cold |-> o.cold,
                       receipts |-> rec, kept |-> o.kept, n |-> o.n]
  BY DEF ManifestOf
<1> HIDE DEF rec
<1> QED
  BY <1>1, <1>2 DEF Owner, Manifest

\* checkpoint, whether it is published or fails.
LEMMA CheckpointOwned ==
  ASSUME Stored, Owned, Answered, Checkpoint
  PROVE  /\ Owned' /\ Txns(own'.frames) \subseteq Asked /\ own'.noops \subseteq Asked
         /\ manifest' \in Manifest /\ occupied' \in 1 .. MaxGen
         /\ own'.state = own.state /\ own'.epoch = own.epoch /\ own'.retry = own.retry
         /\ (manifest' = manifest \/ manifest'.epoch = own.epoch)
<1>1. NextGen \in 1 .. MaxGen /\ NextGen \in Nat /\ own \in Owner /\ segments' = segments
  BY LedgerAssumption DEF Checkpoint, NextGen, Owned, Owner
<1> SUFFICES /\ own' \in Owner /\ own'.frames = own.frames /\ own'.noops = own.noops
             /\ own'.state = own.state /\ own'.retry = own.retry /\ own'.next = own.next
             /\ own'.epoch = own.epoch
             /\ manifest' \in Manifest /\ occupied' \in 1 .. MaxGen
             /\ (manifest' = manifest \/ manifest'.epoch = own.epoch)
  BY <1>1 DEF Owned, Answered
<1>2. PICK live \in SUBSET {SessionOf[i] : i \in Id} :
        LET after == Compacted(NextGen, Demotable(live))
        IN \/ /\ NextGen > occupied
              /\ own' = after /\ manifest' = ManifestOf(after)
              /\ occupied' = NextGen /\ UNCHANGED faults
           \/ /\ own' = after /\ UNCHANGED manifest
              /\ occupied' = NextGen /\ Fault
           \/ /\ own' = [own EXCEPT !.alloc = NextGen]
              /\ occupied' \in {occupied, NextGen}
              /\ Fault /\ UNCHANGED manifest
           \/ /\ own' = [own EXCEPT !.alloc = NextGen, !.receipts = Stamped(@, NextGen)]
              /\ occupied' = NextGen
              /\ Fault /\ UNCHANGED manifest
  BY DEF Checkpoint
<1> DEFINE after == Compacted(NextGen, Demotable(live))
<1>3. /\ after \in Owner /\ after.frames = own.frames /\ after.noops = own.noops
      /\ after.state = own.state /\ after.retry = own.retry /\ after.next = own.next
      /\ after.epoch = own.epoch
  <2>1. Demotable(live) \in SUBSET Id
    BY DEF Demotable
  <2> QED
    BY <1>1, <2>1, CompactedIs
<1>4. manifest \in Manifest /\ occupied \in 1 .. MaxGen
  BY DEF Stored
<1>5. ManifestOf(after) \in Manifest /\ ManifestOf(after).epoch = own.epoch
  BY <1>3, ManifestIs
<1> HIDE DEF after
<1>6. CASE own' = after
  BY <1>1, <1>2, <1>3, <1>4, <1>5, <1>6 DEF after
<1>7. CASE own' = [own EXCEPT !.alloc = NextGen] /\ occupied' \in {occupied, NextGen} /\ manifest' = manifest
  BY Zenon, <1>1, <1>4, <1>7 DEF Owner
<1>8. CASE own' = [own EXCEPT !.alloc = NextGen, !.receipts = Stamped(@, NextGen)]
           /\ occupied' = NextGen /\ manifest' = manifest
  <2> DEFINE s == Stamped(own.receipts, NextGen)
  <2>1. s \in Receipts
    BY Zenon, <1>1, StampedIs DEF Owner
  <2>2. own' = [own EXCEPT !.alloc = NextGen, !.receipts = s]
    BY <1>8
  <2> HIDE DEF s
  <2> QED
    BY Zenon, <1>1, <1>4, <1>8, <2>1, <2>2 DEF Owner
<1> QED
  BY <1>2, <1>6, <1>7, <1>8 DEF after

\* The memory of no owner.
LEMMA DownIs ==
  /\ Down \in Owner /\ Down.frames = <<>> /\ Down.noops = {} /\ ~Down.retry /\ Down.next = 1
  /\ Down.state = "down" /\ Down.unapplied = {} /\ Down.receipts = NoReceipts
<1>1. <<>> \in Seq(Nat) /\ <<>> \in Seq(FrameLine) /\ <<0, 0>> \in Nat \X Nat
  OBVIOUS
<1> QED
  BY <1>1, NoneIs DEF Down, Owner

\* The memory of a recovered owner is of the next epoch.
LEMMA RecoveredIs ==
  ASSUME Stored, NEW r \in Replaying
  PROVE  /\ Recovered(r) \in Owner /\ Recovered(r).frames = <<>> /\ Recovered(r).noops = {}
         /\ ~Recovered(r).retry /\ Recovered(r).next = 1 /\ Recovered(r).state = "available"
         /\ Recovered(r).epoch = manifest.epoch + 1
<1> DEFINE rec == [t \in DOMAIN manifest.receipts \cup r.fresh |->
                     IF t \in r.fresh THEN 0 ELSE manifest.receipts[t]]
           al == IF occupied > manifest.n THEN occupied ELSE manifest.n
           e == manifest.epoch + 1
<1>1. /\ manifest.cold \in Records /\ manifest.receipts \in Receipts /\ manifest.kept \in Seq(Nat)
      /\ manifest.n \in Nat /\ manifest.ckpt \in Nat \X Nat /\ manifest.epoch \in Nat
      /\ r.hot \in Records /\ r.fresh \in SUBSET Txn /\ r.unapplied \in SUBSET Txn
  BY Zenon DEF Stored, Manifest, Replaying
<1>2. rec \in Receipts
  <2>1. PICK T \in SUBSET Txn : manifest.receipts \in [T -> 0 .. MaxGen]
    BY Zenon, <1>1 DEF Receipts
  <2> DEFINE U == T \cup r.fresh
  <2>2. rec \in [U -> 0 .. MaxGen]
    BY <2>1, LedgerAssumption
  <2>3. U \in SUBSET Txn
    BY <1>1
  <2> HIDE DEF U, rec
  <2> QED
    BY <2>2, <2>3 DEF Receipts
<1>3. al \in Nat /\ e \in Nat
  BY <1>1, LedgerAssumption DEF Stored
<1>4. Recovered(r) =
        [Down EXCEPT !.state = "available", !.epoch = e, !.hot = r.hot, !.cold = manifest.cold,
           !.receipts = rec, !.kept = manifest.kept, !.n = manifest.n, !.ckpt = manifest.ckpt,
           !.alloc = al, !.unapplied = r.unapplied]
  BY DEF Recovered
<1> HIDE DEF rec, al, e
<1> DEFINE a == [Down EXCEPT !.state = "available", !.epoch = e, !.hot = r.hot, !.cold = manifest.cold]
           b == [a EXCEPT !.receipts = rec, !.kept = manifest.kept, !.n = manifest.n]
           c == [b EXCEPT !.ckpt = manifest.ckpt, !.alloc = al, !.unapplied = r.unapplied]
<1>5. Recovered(r) = c
  BY <1>4
<1>6. a \in Owner /\ a.frames = <<>> /\ a.noops = {} /\ ~a.retry /\ a.next = 1
      /\ a.state = "available" /\ a.epoch = e
  BY Zenon, <1>1, <1>3, DownIs DEF Owner
<1> HIDE DEF a
<1>7. b \in Owner /\ b.frames = <<>> /\ b.noops = {} /\ ~b.retry /\ b.next = 1
      /\ b.state = "available" /\ b.epoch = e
  BY Zenon, <1>1, <1>2, <1>6 DEF Owner
<1> HIDE DEF b
<1>8. c \in Owner /\ c.frames = <<>> /\ c.noops = {} /\ ~c.retry /\ c.next = 1
      /\ c.state = "available" /\ c.epoch = e
  BY Zenon, <1>1, <1>3, <1>7 DEF Owner
<1> HIDE DEF c
<1> QED
  BY <1>5, <1>8 DEF e

\* The owner after open.
LEMMA OpenOwned ==
  ASSUME Stored, Owned, Answered, Open
  PROVE  Owned' /\ Txns(own'.frames) \subseteq Asked /\ own'.noops \subseteq Asked
         /\ manifest' \in Manifest /\ occupied' \in 1 .. MaxGen
<1> DEFINE r == Replay(manifest.hot, manifest.ckpt, Items(segments))
<1>1. r \in Replaying
  BY ReplayIs
<1>2. Recover(r) \/ RecoverCut(r) \/ RecoverUnreadable(r)
  BY DEF Open
<1>3. own'.state = "available" => segments' # <<>>
  BY OpenFiles
<1>4. own.state = "down" /\ occupied' \in 1 .. MaxGen /\ manifest \in Manifest
  BY DEF Open, Stored
<1> HIDE DEF r
<1>5. CASE Recover(r)
  <2>1. own' = Recovered(r) /\ manifest' = [manifest EXCEPT !.epoch = @ + 1]
    BY <1>5 DEF Recover
  <2>2. manifest' \in Manifest
    BY <1>4, <2>1 DEF Manifest
  <2>3. /\ own' \in Owner /\ own'.frames = <<>> /\ own'.noops = {} /\ ~own'.retry /\ own'.next = 1
    BY <1>1, <2>1, RecoveredIs
  <2> QED
    BY <1>3, <1>4, <2>2, <2>3, NoTxns, LedgerAssumption DEF Owned
<1>6. CASE RecoverCut(r)
  <2>1. own' = own /\ manifest' = manifest
    BY <1>6 DEF RecoverCut
  <2> QED
    BY <1>3, <1>4, <2>1 DEF Owned, Answered
<1>7. CASE RecoverUnreadable(r)
  <2>1. own' = [Down EXCEPT !.state = "unavailable_read"] /\ manifest' = manifest
    BY <1>7 DEF RecoverUnreadable
  <2>2. own' \in Owner /\ own'.frames = <<>> /\ own'.noops = {} /\ ~own'.retry /\ own'.next = 1
    BY Zenon, <2>1, DownIs DEF Owner
  <2> QED
    BY <1>3, <1>4, <2>1, <2>2, NoTxns, LedgerAssumption DEF Owned
<1> QED
  BY <1>2, <1>5, <1>6, <1>7

\* The owner after an exit or a loss of power.
LEMMA GoneOwned ==
  ASSUME own' = Down
  PROVE  Owned' /\ Txns(own'.frames) \subseteq Asked /\ own'.noops \subseteq Asked
BY DownIs, NoTxns, LedgerAssumption DEF Owned

-----------------------------------------------------------------------------
(* The answers.                                                            *)

\* What a step that submits nothing does to them.
AnswersKept ==
  /\ op' = op
  /\ outcome' \in [Txn -> Told]
  /\ \A t \in Txn : (outcome'[t] = "none") <=> (outcome[t] = "none")

\* Telling transactions that were asked for.
LEMMA TellIs ==
  ASSUME Answered, NEW T \in SUBSET Asked, NEW what \in Told, what # "none", Tell(T, what)
  PROVE  /\ outcome' \in [Txn -> Told]
         /\ \A t \in Txn : (outcome'[t] = "none") <=> (outcome[t] = "none")
         /\ \A t \in Txn : outcome'[t] \in {outcome[t], what}
BY DEF Answered, Asked, Tell

\* Faults are bounded.
LEMMA FaultIs ==
  ASSUME Answered
  PROVE  /\ Fault => faults' \in 0 .. MaxFaults
         /\ UNCHANGED faults => faults' \in 0 .. MaxFaults
BY LedgerAssumption DEF Answered, Fault

\* The invariant of the answers, when what they rest on is kept.
LEMMA AnsweredAfter ==
  ASSUME Answered, AnswersKept, inbox' \in Seq(Asked), faults' \in 0 .. MaxFaults,
         Txns(own'.frames) \subseteq Asked, own'.noops \subseteq Asked
  PROVE  Answered'
<1>1. Asked' = Asked
  BY DEF AnswersKept, Asked
<1> QED
  BY <1>1 DEF Answered, AnswersKept

\* Only transactions that were asked for are posted to the owner.
LEMMA InboxIs ==
  ASSUME Answered
  PROVE  /\ inbox' = inbox => inbox' \in Seq(Asked)
         /\ inbox' = <<>> => inbox' \in Seq(Asked)
         /\ inbox # <<>> => Head(inbox) \in Asked /\ Tail(inbox) \in Seq(Asked)
<1>1. inbox \in Seq(Asked)
  BY DEF Answered
<1>2. inbox # <<>> => Head(inbox) \in Asked /\ Tail(inbox) \in Seq(Asked)
  BY <1>1
<1>3. <<>> \in Seq(Asked)
  OBVIOUS
<1> QED
  BY Zenon, <1>1, <1>2, <1>3

\* A merge answers the members of the group.
LEMMA MergeAnswers ==
  ASSUME Answered, NEW segs, Merge(segs), op' = op
  PROVE  AnswersKept
<1>1. Txns(own.frames) \subseteq Asked /\ own.noops \subseteq Asked /\ outcome \in [Txn -> Told]
      /\ \A t \in Txn : (op[t] = NoOp) <=> (outcome[t] = "none")
  BY DEF Answered
<1>2. outcome' = [t \in Txn |-> IF t \in Txns(own.frames) THEN "acked"
                                ELSE IF t \in own.noops THEN "duplicate"
                                ELSE outcome[t]]
  BY DEF Merge
<1>3. outcome' \in [Txn -> Told]
  BY <1>1, <1>2 DEF Told
<1>4. \A t \in Txn : (outcome'[t] = "none") <=> (outcome[t] = "none")
  BY <1>1, <1>2 DEF Asked
<1> QED
  BY <1>3, <1>4 DEF AnswersKept

\* Who is told nothing knows what he knew.
LEMMA SameAnswers ==
  ASSUME Answered, op' = op, outcome' = outcome
  PROVE  AnswersKept
BY DEF AnswersKept, Answered

\* submit of the client.
LEMMA SubmitAnswered ==
  ASSUME Answered, NEW t \in Txn, NEW o \in Op, Submit(t, o)
  PROVE  Answered'
<1>1. /\ op[t] = NoOp /\ op' = [op EXCEPT ![t] = o] /\ outcome' = [outcome EXCEPT ![t] = "pending"]
      /\ inbox' = Append(inbox, t) /\ own' = own /\ faults' = faults
  BY DEF Submit
<1>2. o # NoOp
  BY OpAssumption DEF NoOp
<1>3. op' \in [Txn -> Op \cup {NoOp}] /\ outcome' \in [Txn -> Told]
  BY <1>1 DEF Answered, Told
<1>4. \A u \in Txn : (op'[u] = NoOp) <=> (outcome'[u] = "none")
  BY <1>1, <1>2 DEF Answered
<1>5. Asked' = Asked \cup {t}
  BY <1>1, <1>2 DEF Asked, Answered
<1>6. inbox' \in Seq(Asked')
  <2>1. inbox \in Seq(Asked)
    BY DEF Answered
  <2> DEFINE A == Asked
             B == Asked'
  <2>2. inbox \in Seq(A) /\ B = A \cup {t}
    BY <1>5, <2>1
  <2> HIDE DEF A, B
  <2>3. Append(inbox, t) \in Seq(B)
    BY <2>2
  <2> QED
    BY <1>1, <2>3 DEF B
<1> QED
  BY <1>1, <1>3, <1>4, <1>5, <1>6 DEF Answered

\* Every step keeps the invariant.
LEMMA SoundStep ==
  ASSUME Sound, [Next]_vars
  PROVE  Sound'
<1> USE DEF Sound
<1>1. FilesKept
  BY StepFiles
<1> SUFFICES manifest' \in Manifest /\ occupied' \in 1 .. MaxGen /\ Owned' /\ Answered'
  BY <1>1 DEF FilesKept, Stored
<1>f. manifest \in Manifest /\ occupied \in 1 .. MaxGen
  BY DEF Stored
<1>2. ASSUME NEW t \in Txn, NEW o \in Op, Submit(t, o)
      PROVE  manifest' \in Manifest /\ occupied' \in 1 .. MaxGen /\ Owned' /\ Answered'
  BY Zenon, <1>2, <1>f, SubmitAnswered DEF Submit, Owned
<1>3. CASE Take
  <2>1. Owned' /\ Txns(own'.frames) \subseteq Asked /\ own'.noops \subseteq Asked
    BY <1>3, TakeOwned
  <2>2. inbox' \in Seq(Asked) /\ Head(inbox) \in Asked
    BY <1>3, InboxIs DEF Take
  <2>3. faults' \in 0 .. MaxFaults /\ op' = op /\ manifest' = manifest /\ occupied' = occupied
    BY <1>3, FaultIs DEF Take
  <2>4. \/ Tell({Head(inbox)}, "nacked") \/ Tell({Head(inbox)}, "duplicate") \/ outcome' = outcome
    BY <1>3 DEF Take
  <2>5. AnswersKept
    <3>1. {Head(inbox)} \in SUBSET Asked /\ "nacked" \in Told /\ "duplicate" \in Told
      BY <2>2 DEF Told
    <3>2. CASE Tell({Head(inbox)}, "nacked")
      BY <2>3, <3>1, <3>2, TellIs DEF AnswersKept
    <3>3. CASE Tell({Head(inbox)}, "duplicate")
      BY <2>3, <3>1, <3>3, TellIs DEF AnswersKept
    <3> QED
      BY <2>3, <2>4, <3>2, <3>3, SameAnswers
  <2> QED
    BY <1>f, <2>1, <2>2, <2>3, <2>5, AnsweredAfter
<1>4. CASE Flush
  <2>1. Owned' /\ Txns(own'.frames) \subseteq Asked /\ own'.noops \subseteq Asked
    BY <1>4, FlushOwned
  <2>2. inbox' \in Seq(Asked) /\ faults' \in 0 .. MaxFaults
    BY <1>4, InboxIs, FaultIs DEF Flush
  <2>3. op' = op /\ manifest' = manifest /\ occupied' = occupied
    BY <1>4 DEF Flush
  <2>4. AnswersKept
    BY <1>4, <2>3, MergeAnswers, SameAnswers DEF Flush
  <2> QED
    BY <1>f, <2>1, <2>2, <2>3, <2>4, AnsweredAfter
<1>5. CASE Retry
  <2>1. Owned' /\ Txns(own'.frames) \subseteq Asked /\ own'.noops \subseteq Asked
    BY <1>5, RetryOwned
  <2>2. inbox' \in Seq(Asked) /\ faults' \in 0 .. MaxFaults
    BY <1>5, InboxIs, FaultIs DEF Retry
  <2>3. op' = op /\ manifest' = manifest /\ occupied' = occupied
    BY <1>5 DEF Retry
  <2>4. CASE Merge(NewSegment(segments, own.epoch))
    BY <1>f, <2>1, <2>2, <2>3, <2>4, MergeAnswers, AnsweredAfter
  <2>5. CASE Tell(Txns(own.frames) \cup own.noops, "indeterminate")
    <3>1. Txns(own.frames) \cup own.noops \in SUBSET Asked /\ "indeterminate" \in Told
      BY DEF Answered, Told
    <3>2. AnswersKept
      BY <2>3, <2>5, <3>1, TellIs DEF AnswersKept
    <3> QED
      BY <1>f, <2>1, <2>2, <2>3, <3>2, AnsweredAfter
  <2> QED
    BY <1>5, <2>4, <2>5 DEF Retry
<1>6. CASE Checkpoint
  <2>1. /\ Owned' /\ Txns(own'.frames) \subseteq Asked /\ own'.noops \subseteq Asked
        /\ manifest' \in Manifest /\ occupied' \in 1 .. MaxGen
    BY <1>6, CheckpointOwned
  <2>2. inbox' = inbox /\ op' = op /\ outcome' = outcome /\ (Fault \/ UNCHANGED faults)
    BY <1>6 DEF Checkpoint
  <2> QED
    BY <2>1, <2>2, InboxIs, FaultIs, SameAnswers, AnsweredAfter
<1>7. CASE Exit \/ PowerLoss
  <2>1. own' = Down /\ inbox' = <<>> /\ Fault /\ op' = op /\ manifest' = manifest /\ occupied' = occupied
    BY <1>7 DEF Exit, PowerLoss
  <2>2. Owned' /\ Txns(own'.frames) \subseteq Asked /\ own'.noops \subseteq Asked
    BY <2>1, GoneOwned
  <2>3. AnswersKept
    <3>1. Pending \in SUBSET Asked /\ {t \in Txn : outcome[t] \in {"pending", "indeterminate"}} \in SUBSET Asked
      BY DEF Pending, Asked, Answered
    <3>2. "indeterminate" \in Told /\ "lost" \in Told
      BY DEF Told
    <3>3. CASE Exit
      BY <2>1, <3>1, <3>2, <3>3, TellIs DEF Exit, AnswersKept
    <3>4. CASE PowerLoss
      BY Zenon, <2>1, <3>1, <3>2, <3>4, TellIs DEF PowerLoss, AnswersKept
    <3> QED
      BY <1>7, <3>3, <3>4
  <2> QED
    BY <1>f, <2>1, <2>2, <2>3, InboxIs, FaultIs, AnsweredAfter
<1>8. CASE Open
  <2> DEFINE r == Replay(manifest.hot, manifest.ckpt, Items(segments))
  <2>1. Owned' /\ Txns(own'.frames) \subseteq Asked /\ own'.noops \subseteq Asked
        /\ manifest' \in Manifest /\ occupied' \in 1 .. MaxGen
    BY <1>8, OpenOwned
  <2>2. inbox' = inbox /\ op' = op /\ (Recover(r) \/ RecoverCut(r) \/ RecoverUnreadable(r))
    BY <1>8 DEF Open
  <2> HIDE DEF r
  <2>3. faults' \in 0 .. MaxFaults
    BY <2>2, FaultIs DEF Recover, RecoverCut, RecoverUnreadable
  <2>4. AnswersKept
    <3>1. CASE outcome' = outcome
      BY <2>2, <3>1, SameAnswers
    <3>2. CASE outcome' = [t \in Txn |->
                 IF t \in Unresolved /\ Resolve(Recovered(r), t) # "unresolved"
                 THEN Resolve(Recovered(r), t) ELSE outcome[t]]
      <4>1. \A t \in Txn : Resolve(Recovered(r), t) \in {"committed", "not_applied", "unresolved"}
        BY DEF Resolve
      <4>2. \A t \in Unresolved : outcome[t] # "none"
        BY DEF Unresolved
      <4>3. outcome \in [Txn -> Told] /\ "committed" \in Told /\ "not_applied" \in Told
        BY DEF Answered, Told
      <4>4. outcome' \in [Txn -> Told]
        BY <3>2, <4>1, <4>3
      <4> QED
        BY <2>2, <3>2, <4>1, <4>2, <4>3, <4>4 DEF AnswersKept
    <3> QED
      BY <2>2, <3>1, <3>2 DEF Recover, RecoverCut, RecoverUnreadable
  <2> QED
    BY <2>1, <2>2, <2>3, <2>4, InboxIs, AnsweredAfter
<1>9. CASE UNCHANGED vars
  <2>1. Owned'
    BY <1>9 DEF vars, Owned
  <2>2. Asked' = Asked
    BY <1>9 DEF vars, Asked
  <2>3. Answered'
    BY <1>9, <2>2 DEF vars, Answered
  <2> QED
    BY <1>9, <1>f, <2>1, <2>3 DEF vars
<1> QED
  BY <1>2, <1>3, <1>4, <1>5, <1>6, <1>7, <1>8, <1>9 DEF Next

\* A fresh store.
LEMMA SoundInit == Init => Sound
<1> SUFFICES ASSUME Init PROVE Sound
  OBVIOUS
<1> USE DEF Init
<1>1. Stored
  <2> DEFINE e == <<>>
  <2>1. e \in Seq(Segment) /\ DOMAIN e = {} /\ e \in Seq(FrameLine) /\ e \in Texts
    BY DEF Texts
  <2>2. segments = e /\ log = e
    BY DEF e
  <2> HIDE DEF e
  <2>3. segments \in Segments
    BY <2>1, <2>2 DEF Segments
  <2>4. DOMAIN Fsynced(segments) = {}
    BY <2>1, <2>2, <2>3, FsyncedIs
  <2>5. ToSet(log) = Held(segments)
    BY <2>1, <2>2, <2>4 DEF ToSet, Held, AllFrames
  <2>6. manifest \in Manifest
    <3>1. <<0, 0>> \in Nat \X Nat /\ <<1>> \in Seq(Nat)
      OBVIOUS
    <3> QED
      BY <3>1, NoneIs DEF Manifest
  <2>7. occupied \in 1 .. MaxGen
    BY LedgerAssumption
  <2> QED
    BY <2>1, <2>2, <2>3, <2>5, <2>6, <2>7 DEF Stored
<1>2. Owned
  BY DownIs, NoTxns, LedgerAssumption DEF Owned
<1>3. Answered
  <2>1. Txns(own.frames) = {} /\ own.noops = {}
    BY DownIs, NoTxns
  <2>2. <<>> \in Seq(Asked)
    OBVIOUS
  <2> QED
    BY <2>1, <2>2, LedgerAssumption DEF Answered, Told
<1> QED
  BY <1>1, <1>2, <1>3 DEF Sound

\* The invariant says what TypeOK does, and more.
LEMMA SoundTyped == Sound => TypeOK
<1> SUFFICES ASSUME Sound PROVE TypeOK
  OBVIOUS
<1>1. \A k \in DOMAIN segments : segments[k].safe \in 0 .. Len(segments[k].items)
  BY SegmentsAre DEF Sound, Stored
<1>2. /\ manifest.receipts \in Receipts
      /\ manifest.hot \in [Id -> Record] /\ manifest.cold \in [Id -> Record]
      /\ occupied \in 1 .. MaxGen
  BY Zenon DEF Sound, Stored, Manifest, Records
<1>3. /\ own.state \in {"down", "available", "unavailable_write", "unavailable_read"}
      /\ own.hot \in [Id -> Record] /\ own.cold \in [Id -> Record]
      /\ own.overlay \in [Id -> Record]
      /\ own.receipts \in Receipts
      /\ Len(own.frames) <= MaxGroup
      /\ own.retry => own.frames # <<>>
  BY Zenon DEF Sound, Owned, Owner, Records
<1>4. \A k \in DOMAIN log : log[k].t = "frame"
  <2>1. \A k \in DOMAIN log : log[k] \in FrameLine
    BY DEF Sound, Stored
  <2> QED
    BY <2>1, KindsOfLines
<1>5. /\ outcome \in [Txn -> Told]
      /\ \A t \in Txn : (op[t] = NoOp) = (outcome[t] = "none")
      /\ faults \in 0 .. MaxFaults
  BY DEF Sound, Answered
<1> QED
  BY <1>1, <1>2, <1>3, <1>4, <1>5 DEF TypeOK, Told

\* The segments, the MANIFEST, the memory of the owner and the answers have their types in every
\* state, whatever writes, fsyncs, renames or machines fail: the receipts are of checkpoints, an
\* open group is within its limit, and only who has submitted has been told anything.
THEOREM TypeCorrect == Spec => []TypeOK
<1>1. Init => Sound
  BY SoundInit
<1>2. Sound /\ [Next]_vars => Sound'
  BY SoundStep
<1>3. Sound => TypeOK
  BY SoundTyped
<1> QED
  BY <1>1, <1>2, <1>3, PTL DEF Spec

\* No step takes a committed frame back, not a failed write, a checkpoint, the end of an owner, a
\* loss of power or a recovery that is cut: the files of the ledger are append-only (flushGroup,
\* recover in ledger-owner.js).
THEOREM NothingTakenBack == Spec => [][ToSet(log) \subseteq ToSet(log')]_vars
<1>1. Init => Sound
  BY SoundInit
<1>2. Sound /\ [Next]_vars => Sound'
  BY SoundStep
<1>3. Sound /\ [Next]_vars => [ToSet(log) \subseteq ToSet(log')]_vars
  <2> SUFFICES ASSUME Sound, [Next]_vars PROVE ToSet(log) \subseteq ToSet(log')
    OBVIOUS
  <2> QED
    BY StepFiles DEF Sound, Stored, FilesKept
<1> QED
  BY <1>1, <1>2, <1>3, PTL DEF Spec

-----------------------------------------------------------------------------
(* What is acknowledged is committed.                                      *)

\* The owner writes after whole groups only, and so does a recovery after
\* one that was cut.
WholeEnds ==
  /\ own.state = "available" =>
       /\ own.epoch = manifest.epoch /\ Last(segments).epoch = manifest.epoch
       /\ ~own.retry => Clean(Last(segments).items)
  /\ segments # <<>> /\ Last(segments).epoch = manifest.epoch + 1 =>
       /\ Clean(Last(segments).items)
       /\ Last(segments).safe = Len(Last(segments).items)

\* More frames are of more transactions.
LEMMA CommittedIs ==
  ASSUME NEW l, NEW m, ToSet(l) \subseteq ToSet(m)
  PROVE  Txns(l) \subseteq Txns(m)
BY DEF Txns

\* A group is merged only when it is read again.
LEMMA MergeEnds ==
  ASSUME Owned, NEW segs \in Segments, segs # <<>>, Clean(Last(segs).items),
         Last(segs).epoch = own.epoch, Merge(segs)
  PROVE  /\ Clean(Last(segments').items) /\ Last(segments').epoch = own.epoch
         /\ Txns(own.frames) \subseteq Txns(log')
<1> DEFINE all == Last(segs).items \o Group(own.frames)
           written == Synced(segs, Group(own.frames))
           new == NewSegment(written, own.epoch)
<1>1. own.frames \in Seq(FrameLine) /\ Group(own.frames) \in Seq(Line) /\ own.epoch \in Nat
  BY OwnerIs
<1>2. Last(segs).items \in Seq(Line)
  BY SegmentsAre
<1>3. /\ Clean(all) /\ \A k \in DOMAIN own.frames : own.frames[k] \in Frames(all)
  BY <1>1, <1>2, GroupAppended
<1>4. /\ written \in Segments /\ written # <<>>
      /\ Last(written) = [epoch |-> Last(segs).epoch, items |-> all, safe |-> Len(all)]
      /\ Frames(all) \subseteq Held(written)
  BY Zenon, <1>1, SyncedIs
<1>5. Durable(written) \/ Durable(new)
  BY DEF Merge
<1> HIDE DEF written, all
<1>6. /\ new \in Segments /\ Held(new) = Held(written)
      /\ Last(new) = [epoch |-> own.epoch, items |-> <<>>, safe |-> 0]
  BY <1>1, <1>4, NewSegmentIs
<1> HIDE DEF new
<1>7. /\ segments' \in {written, new} /\ log' = LogOf(Fsynced(segments'))
  BY <1>5 DEF Durable
<1>8. Clean(Last(segments').items) /\ Last(segments').epoch = own.epoch
  BY <1>3, <1>4, <1>6, <1>7, EmptyClean
<1>9. ToSet(log') = Held(written)
  <2>1. segments' \in Segments /\ Held(segments') = Held(written)
    BY <1>4, <1>6, <1>7
  <2> DEFINE s == segments'
  <2>2. s \in Segments /\ Held(s) = Held(written) /\ log' = LogOf(Fsynced(s))
    BY <1>7, <2>1
  <2> HIDE DEF s
  <2> QED
    BY <2>2, FsyncedIs, LogIs DEF Held
<1>10. ToSet(own.frames) \subseteq ToSet(log')
  BY <1>3, <1>4, <1>9 DEF ToSet
<1> QED
  BY <1>8, <1>10, CommittedIs

\* flushGroup acknowledges a group only when it will be read again.
LEMMA FlushEnds ==
  ASSUME Sound, WholeEnds, Flush
  PROVE  /\ WholeEnds'
         /\ \A t \in Txn : outcome'[t] = "acked" => outcome[t] = "acked" \/ t \in Txns(log')
<1>1. /\ own.state = "available" /\ segments \in Segments /\ segments # <<>> /\ manifest' = manifest
      /\ own.epoch = manifest.epoch /\ Last(segments).epoch = manifest.epoch
      /\ Clean(Last(segments).items) /\ manifest.epoch \in Nat /\ own \in Owner
  BY DEF Flush, Sound, Stored, Owned, WholeEnds, Manifest
<1>2. CASE Merge(segments)
  <2>1. /\ Clean(Last(segments').items) /\ Last(segments').epoch = own.epoch
        /\ Txns(own.frames) \subseteq Txns(log')
    BY <1>1, <1>2, MergeEnds DEF Sound
  <2>2. own'.epoch = own.epoch /\ own'.state = own.state
    BY <1>2, MergeOwned DEF Sound
  <2>3. WholeEnds'
    BY <1>1, <2>1, <2>2 DEF WholeEnds
  <2>4. \A t \in Txn : outcome'[t] = "acked" => outcome[t] = "acked" \/ t \in Txns(own.frames)
    BY <1>2 DEF Merge
  <2> QED
    BY <2>1, <2>3, <2>4
<1>3. CASE /\ \E items \in Partial(Group(own.frames)) : Volatile(Unsynced(segments, items))
           /\ own' = [own EXCEPT !.retry = TRUE] /\ UNCHANGED outcome
  <2>1. PICK items \in Partial(Group(own.frames)) : Volatile(Unsynced(segments, items))
    BY <1>3
  <2>2. items \in Seq(Line)
    BY OwnerIs DEF Sound
  <2>3. Last(segments').epoch = Last(segments).epoch
    BY <1>1, <2>1, <2>2, UnsyncedIs DEF Volatile
  <2>4. own'.epoch = own.epoch /\ own'.retry
    BY <1>1, <1>3 DEF Owner
  <2>5. WholeEnds'
    BY <1>1, <2>3, <2>4 DEF WholeEnds
  <2> QED
    BY <1>3, <2>5
<1> QED
  BY <1>2, <1>3 DEF Flush

\* The same of the second attempt: its new segment holds nothing else.
LEMMA RetryEnds ==
  ASSUME Sound, WholeEnds, Retry
  PROVE  /\ WholeEnds'
         /\ \A t \in Txn : outcome'[t] = "acked" => outcome[t] = "acked" \/ t \in Txns(log')
<1> DEFINE segs == NewSegment(segments, own.epoch)
<1>1. /\ own.state = "available" /\ segments \in Segments /\ manifest' = manifest
      /\ own.epoch = manifest.epoch /\ manifest.epoch \in Nat /\ own \in Owner
  BY DEF Retry, Sound, Stored, Owned, WholeEnds, Manifest
<1>2. /\ segs \in Segments /\ segs # <<>> /\ Clean(Last(segs).items) /\ Last(segs).epoch = own.epoch
  <2>1. Last(segs) = [epoch |-> own.epoch, items |-> <<>>, safe |-> 0] /\ segs \in Segments /\ segs # <<>>
    BY <1>1, NewSegmentIs
  <2> QED
    BY <2>1, EmptyClean
<1>3. \/ Merge(segs)
      \/ /\ \E items \in Partial(Group(own.frames)) : Volatile(Unsynced(segs, items))
         /\ own' = NoGroup([own EXCEPT !.state = "unavailable_write"])
         /\ Tell(Txns(own.frames) \cup own.noops, "indeterminate")
  BY DEF Retry
<1> HIDE DEF segs
<1>4. CASE Merge(segs)
  <2>1. /\ Clean(Last(segments').items) /\ Last(segments').epoch = own.epoch
        /\ Txns(own.frames) \subseteq Txns(log')
    BY <1>2, <1>4, MergeEnds DEF Sound
  <2>2. own'.epoch = own.epoch /\ own'.state = own.state
    BY <1>4, MergeOwned DEF Sound
  <2>3. WholeEnds'
    BY <1>1, <2>1, <2>2 DEF WholeEnds
  <2>4. \A t \in Txn : outcome'[t] = "acked" => outcome[t] = "acked" \/ t \in Txns(own.frames)
    BY <1>4 DEF Merge
  <2> QED
    BY <2>1, <2>3, <2>4
<1>5. CASE /\ \E items \in Partial(Group(own.frames)) : Volatile(Unsynced(segs, items))
           /\ own' = NoGroup([own EXCEPT !.state = "unavailable_write"])
           /\ Tell(Txns(own.frames) \cup own.noops, "indeterminate")
  <2>1. PICK items \in Partial(Group(own.frames)) : Volatile(Unsynced(segs, items))
    BY <1>5
  <2>2. items \in Seq(Line)
    BY OwnerIs DEF Sound
  <2>3. Last(segments').epoch = own.epoch
    BY <1>2, <2>1, <2>2, UnsyncedIs DEF Volatile
  <2>4. own'.state = "unavailable_write"
    <3> DEFINE o == [own EXCEPT !.state = "unavailable_write"]
    <3>1. o \in Owner /\ o.state = "unavailable_write"
      BY Zenon, <1>1 DEF Owner
    <3> HIDE DEF o
    <3>2. NoGroup(o).state = o.state
      BY <3>1, NoGroupIs
    <3> QED
      BY <1>5, <3>1, <3>2 DEF o
  <2>5. WholeEnds'
    BY <1>1, <2>3, <2>4 DEF WholeEnds
  <2>6. \A t \in Txn : outcome'[t] = "acked" => outcome[t] = "acked"
    BY <1>5 DEF Tell
  <2> QED
    BY <2>5, <2>6
<1> QED
  BY <1>3, <1>4, <1>5

\* The first segment of a new epoch holds whole groups only.
LEMMA OpenedEnds ==
  ASSUME Sound, WholeEnds
  PROVE  /\ Opened \in Segments /\ Opened # <<>> /\ Last(Opened).epoch = manifest.epoch + 1
         /\ Last(Opened).items \in Seq(Line)
         /\ Clean(Last(Opened).items) /\ Last(Opened).safe = Len(Last(Opened).items)
<1>1. /\ Opened \in Segments /\ Opened # <<>> /\ Last(Opened).epoch = manifest.epoch + 1
      /\ \/ Opened = segments /\ segments # <<>> /\ Last(segments).epoch = manifest.epoch + 1
         \/ Last(Opened) = [epoch |-> manifest.epoch + 1, items |-> <<>>, safe |-> 0]
  BY OpenedIs DEF Sound
<1>2. Last(Opened).items \in Seq(Line)
  BY <1>1, SegmentsAre
<1>3. CASE Opened = segments /\ segments # <<>> /\ Last(segments).epoch = manifest.epoch + 1
  BY <1>1, <1>2, <1>3 DEF WholeEnds
<1>4. CASE Last(Opened) = [epoch |-> manifest.epoch + 1, items |-> <<>>, safe |-> 0]
  <2>1. Len(<<>>) = 0
    OBVIOUS
  <2> QED
    BY <1>1, <1>2, <1>4, <2>1, EmptyClean
<1> QED
  BY <1>1, <1>3, <1>4

\* A copy of the last group that is whole leaves a segment of whole groups.
LEMMA CopyEnds ==
  ASSUME Sound, WholeEnds
  PROVE  LET r == Replay(manifest.hot, manifest.ckpt, Items(segments))
             new == Synced(Opened, LastGroup(r))
         IN  /\ Last(new).epoch = manifest.epoch + 1
             /\ Clean(Last(new).items) /\ Last(new).safe = Len(Last(new).items)
<1> DEFINE r == Replay(manifest.hot, manifest.ckpt, Items(segments))
           g == LastGroup(r)
           s == Last(Opened).items
           new == Synced(Opened, g)
<1>1. /\ Opened \in Segments /\ Opened # <<>> /\ Last(Opened).epoch = manifest.epoch + 1
      /\ s \in Seq(Line) /\ Clean(s)
  BY OpenedEnds
<1>2. g \in Seq(Line) /\ (g = <<>> \/ \E fr \in Seq(FrameLine) : g = Group(fr))
  BY ReplayIs DEF Sound
<1> HIDE DEF g, r
<1>3. Last(new) = [epoch |-> Last(Opened).epoch, items |-> s \o g, safe |-> Len(s \o g)]
  BY Zenon, <1>1, <1>2, SyncedIs
<1>4. Clean(s \o g)
  <2>1. CASE g = <<>>
    <3>1. s \o <<>> = s
      BY <1>1
    <3> QED
      BY <1>1, <2>1, <3>1
  <2>2. CASE \E fr \in Seq(FrameLine) : g = Group(fr)
    BY <1>1, <2>2, GroupAppended
  <2> QED
    BY <1>2, <2>1, <2>2
<1> QED
  BY <1>1, <1>3, <1>4 DEF g, r

\* open acknowledges nothing, and leaves whole groups where it goes on writing.
LEMMA OpenEnds ==
  ASSUME Sound, WholeEnds, ~MayTearCopy, Open
  PROVE  WholeEnds' /\ \A t \in Txn : outcome'[t] = "acked" => outcome[t] = "acked"
<1> DEFINE r == Replay(manifest.hot, manifest.ckpt, Items(segments))
           new == Synced(Opened, LastGroup(r))
<1>1. /\ Last(new).epoch = manifest.epoch + 1
      /\ Clean(Last(new).items) /\ Last(new).safe = Len(Last(new).items)
  BY CopyEnds
<1>2. Recover(r) \/ RecoverCut(r) \/ RecoverUnreadable(r)
  BY DEF Open
<1>3. r \in Replaying
  BY ReplayIs DEF Sound
<1> HIDE DEF r
<1>4. manifest.epoch \in Nat /\ own.state = "down" /\ manifest \in Manifest
  BY DEF Sound, Stored, Manifest, Open
<1> DEFINE fresh == Opened
<1>5. Last(fresh).epoch = manifest.epoch + 1 /\ Clean(Last(fresh).items)
      /\ Last(fresh).safe = Len(Last(fresh).items)
  BY OpenedEnds
<1>6. CASE Recover(r)
  <2>1. segments' = new /\ own' = Recovered(r) /\ manifest' = [manifest EXCEPT !.epoch = @ + 1]
    BY <1>6 DEF Recover, Durable
  <2>2. own'.epoch = manifest.epoch + 1 /\ manifest'.epoch = manifest.epoch + 1
    BY <1>3, <1>4, <2>1, RecoveredIs DEF Sound, Manifest
  <2> HIDE DEF new
  <2>3. WholeEnds'
    BY <1>1, <1>4, <2>1, <2>2 DEF WholeEnds
  <2>4. \A t \in Txn : outcome'[t] = "acked" => outcome[t] = "acked"
    BY <1>6 DEF Recover, Resolve
  <2> QED
    BY <2>3, <2>4
<1>7. CASE RecoverCut(r)
  <2>1. (segments' = fresh \/ segments' = new) /\ own' = own /\ manifest' = manifest /\ outcome' = outcome
    BY <1>7 DEF RecoverCut, Durable, Volatile
  <2> HIDE DEF new, fresh
  <2> QED
    BY <1>1, <1>4, <1>5, <2>1 DEF WholeEnds
<1>8. CASE RecoverUnreadable(r)
  <2>1. /\ own' = [Down EXCEPT !.state = "unavailable_read"] /\ outcome' = outcome
        /\ segments' = segments /\ manifest' = manifest
    BY <1>8 DEF RecoverUnreadable
  <2>2. own'.state = "unavailable_read"
    BY <2>1 DEF Down
  <2> QED
    BY <2>1, <2>2 DEF WholeEnds
<1> QED
  BY <1>2, <1>6, <1>7, <1>8

\* A loss of power cuts what a next owner does not write behind.
LEMMA PowerLossEnds ==
  ASSUME Sound, WholeEnds, PowerLoss
  PROVE  WholeEnds'
<1>1. /\ Len(segments') = Len(segments) /\ segments' \in Segments /\ segments \in Segments
      /\ \A k \in DOMAIN segments :
           /\ segments'[k].epoch = segments[k].epoch
           /\ segments[k].safe = Len(segments[k].items) => segments'[k] = segments[k]
  BY PowerLossFiles DEF Sound, Stored, FilesKept
<1>2. own'.state = "down" /\ manifest' = manifest
  BY DownIs DEF PowerLoss
<1>3. CASE segments' = <<>>
  BY <1>2, <1>3 DEF WholeEnds
<1>4. CASE segments' # <<>>
  <2> DEFINE n == Len(segments)
             new == segments'
  <2>1. new \in Segments /\ new # <<>> /\ Len(new) = n
    BY <1>1, <1>4
  <2> HIDE DEF new
  <2>2. Last(new) = new[n] /\ n \in DOMAIN new /\ DOMAIN new = 1 .. n
    BY <2>1, SegmentsAre
  <2>3. segments # <<>> /\ Last(segments) = segments[n] /\ n \in DOMAIN segments
    <3>1. n # 0 /\ DOMAIN segments = 1 .. n
      BY <1>1, <2>2, SegmentsAre
    <3>2. segments # <<>>
      BY <3>1
    <3> QED
      BY <1>1, <3>2, SegmentsAre
  <2>4. Last(new).epoch = Last(segments).epoch
        /\ (Last(segments).safe = Len(Last(segments).items) => Last(new) = Last(segments))
    BY <1>1, <2>2, <2>3 DEF new
  <2> QED
    BY <1>2, <2>3, <2>4 DEF WholeEnds, new
<1> QED
  BY <1>3, <1>4

\* Every step keeps WholeEnds, and acknowledges what is in the log.
LEMMA EndsStep ==
  ASSUME Sound, WholeEnds, ~MayTearCopy, [Next]_vars
  PROVE  /\ WholeEnds'
         /\ \A t \in Txn : outcome'[t] = "acked" => outcome[t] = "acked" \/ t \in Txns(log')
<1>1. ASSUME NEW t \in Txn, NEW o \in Op, Submit(t, o)
      PROVE  WholeEnds' /\ \A u \in Txn : outcome'[u] = "acked" => outcome[u] = "acked"
  BY <1>1 DEF Submit, WholeEnds, Sound, Answered
<1>2. CASE Take
  <2>1. own'.state = own.state /\ own'.epoch = own.epoch /\ own'.retry = own.retry
    BY Zenon, <1>2 DEF Take, Sound, Owned, Owner
  <2>2. segments' = segments /\ manifest' = manifest
    BY <1>2 DEF Take
  <2>3. \A u \in Txn : outcome'[u] = "acked" => outcome[u] = "acked"
    BY <1>2 DEF Take, Tell
  <2> QED
    BY <2>1, <2>2, <2>3 DEF WholeEnds
<1>3. CASE Checkpoint
  <2>1. /\ own'.state = own.state /\ own'.epoch = own.epoch /\ own'.retry = own.retry
        /\ (manifest' = manifest \/ manifest'.epoch = own.epoch)
    BY <1>3, CheckpointOwned DEF Sound
  <2>2. segments' = segments /\ outcome' = outcome /\ own.state = "available"
    BY <1>3 DEF Checkpoint
  <2> QED
    BY <2>1, <2>2 DEF WholeEnds
<1>4. CASE Exit
  <2>1. own'.state = "down" /\ segments' = segments /\ manifest' = manifest
    BY <1>4, DownIs DEF Exit
  <2>2. \A u \in Txn : outcome'[u] = "acked" => outcome[u] = "acked"
    BY <1>4 DEF Exit, Tell
  <2> QED
    BY <2>1, <2>2 DEF WholeEnds
<1>5. CASE PowerLoss
  <2>1. \A u \in Txn : outcome'[u] = "acked" => outcome[u] = "acked"
    BY <1>5 DEF PowerLoss, Tell
  <2> QED
    BY <1>5, <2>1, PowerLossEnds
<1>6. CASE UNCHANGED vars
  BY <1>6 DEF vars, WholeEnds
<1> QED
  BY <1>1, <1>2, <1>3, <1>4, <1>5, <1>6, FlushEnds, RetryEnds, OpenEnds DEF Next

\* An acknowledged transaction is committed and stays so, whatever fails afterwards, if a recovery
\* is never cut within its copy of the last group: flushGroup acknowledges after the fsync, a
\* failed group is written again in a segment of its own, and recover opens a new one.  With
\* such a cut it is not so (ledger_recopy).
THEOREM AckedStaysCommitted == ~MayTearCopy => (Spec => []AckedDurable)
<1> DEFINE I == Sound /\ WholeEnds /\ AckedDurable
<1> SUFFICES ASSUME ~MayTearCopy PROVE Spec => []AckedDurable
  OBVIOUS
<1>1. Init => I
  <2> SUFFICES ASSUME Init PROVE I
    OBVIOUS
  <2>1. Sound
    BY SoundInit
  <2>2. WholeEnds
    BY DownIs DEF Init, WholeEnds
  <2>3. AckedDurable
    BY DEF Init, AckedDurable
  <2> QED
    BY <2>1, <2>2, <2>3
<1>2. I /\ [Next]_vars => I'
  <2> SUFFICES ASSUME I, [Next]_vars PROVE I'
    OBVIOUS
  <2>1. Sound'
    BY SoundStep
  <2>2. /\ WholeEnds'
        /\ \A t \in Txn : outcome'[t] = "acked" => outcome[t] = "acked" \/ t \in Txns(log')
    BY EndsStep
  <2>3. Txns(log) \subseteq Txns(log')
    BY StepFiles, CommittedIs DEF Sound, Stored, FilesKept
  <2>4. AckedDurable'
    BY <2>2, <2>3 DEF AckedDurable, Committed
  <2> QED
    BY <2>1, <2>2, <2>4
<1> QED
  BY <1>1, <1>2, PTL DEF Spec

-----------------------------------------------------------------------------
(* Folds, one step at a time.                                              *)

\* The steps of the folds: of LogOf, of Concat, of ApplyAll and of the two of a replay.
StepOf(which, v, x) ==
  CASE which = "once" -> Once(v, x)
    [] which = "concat" -> v \o x
    [] which = "apply" -> ApplyFrame(v, x)
    [] which = "frame" -> ReplayFrame(v, x)
    [] which = "segment" -> ReplaySegment(v, x)
Runs(which, f, r, t) == f = [k \in 0 .. Len(t) |-> IF k = 0 THEN r ELSE StepOf(which, f[k - 1], t[k])]

\* Each fold has its values at all positions.
LEMMA RunExists ==
  ASSUME NEW which, NEW r, NEW t, Len(t) \in Nat
  PROVE  \E f : Runs(which, f, r, t)
<1> DEFINE Value(f, k) == IF k = 0 THEN r ELSE StepOf(which, f[k - 1], t[k])
           Fit(f, n) == f = [k \in 0 .. n |-> Value(f, k)]
           P == {n \in Nat : \E f : Fit(f, n)}
<1>1. 0 \in P
  <2> DEFINE g == [k \in 0 .. 0 |-> r]
  <2>1. \A k \in 0 .. 0 : Value(g, k) = r
    OBVIOUS
  <2>2. Fit(g, 0)
    BY <2>1
  <2> QED
    BY Zenon, <2>2
<1>2. ASSUME NEW n \in 1 .. Len(t), n - 1 \in P
      PROVE  n \in P
  <2>1. n \in Nat /\ n - 1 \in Nat
    OBVIOUS
  <2>2. PICK f : Fit(f, n - 1)
    BY <1>2
  <2> DEFINE g == [k \in 0 .. n |-> IF k = n THEN Value(f, n) ELSE f[k]]
  <2>3. \A k \in 0 .. n : Value(g, k) = Value(f, k)
    BY <2>1
  <2>4. \A k \in 0 .. n - 1 : f[k] = Value(f, k)
    BY <2>2
  <2> HIDE DEF Value
  <2>5. \A k \in 0 .. n : k = n \/ k \in 0 .. n - 1
    BY <2>1
  <2>6. \A k \in 0 .. n : g[k] = Value(f, k)
    BY <2>4, <2>5
  <2>7. g = [k \in 0 .. n |-> Value(g, k)]
    BY <2>3, <2>6
  <2> QED
    BY Zenon, <2>1, <2>7
<1>3. Len(t) \in P
  <2> HIDE DEF P
  <2>1. \A k \in 0 .. Len(t) : k \in P
    BY Zenon, <1>1, <1>2, Climb
  <2> QED
    BY <2>1
<1> QED
  BY <1>3 DEF Runs

\* A run over one more element has one more step.
LEMMA RunAppend ==
  ASSUME NEW S, NEW s \in Seq(S), NEW x \in S, NEW which, NEW r,
         NEW f, Runs(which, f, r, s), NEW g, Runs(which, g, r, Append(s, x))
  PROVE  g[Len(Append(s, x))] = StepOf(which, f[Len(s)], x)
<1> DEFINE c == Append(s, x)
           n == Len(s)
           Value(h, t, k) == IF k = 0 THEN r ELSE StepOf(which, h[k - 1], t[k])
           P == {k \in Nat : f[k] = g[k]}
<1>1. /\ n \in Nat /\ Len(c) = n + 1 /\ c[n + 1] = x
      /\ \A k \in 1 .. n : c[k] = s[k]
  OBVIOUS
<1>2. /\ f = [k \in 0 .. n |-> Value(f, s, k)]
      /\ g = [k \in 0 .. Len(c) |-> Value(g, c, k)]
  BY Zenon DEF Runs
<1> HIDE DEF c, n, Value
<1>3. /\ \A k \in 0 .. n : f[k] = Value(f, s, k)
      /\ \A k \in 0 .. Len(c) : g[k] = Value(g, c, k)
  BY Zenon, <1>2
<1>4. 0 \in P
  <2>1. 0 \in 0 .. n /\ 0 \in 0 .. Len(c)
    BY <1>1
  <2> QED
    BY <1>3, <2>1 DEF Value
<1>5. ASSUME NEW k \in 1 .. n, k - 1 \in P PROVE k \in P
  <2>1. k \in 0 .. n /\ k \in 0 .. Len(c) /\ k # 0 /\ k \in Nat
    BY <1>1
  <2>2. f[k - 1] = g[k - 1] /\ c[k] = s[k]
    BY <1>1, <1>5
  <2> QED
    BY <1>3, <2>1, <2>2 DEF Value
<1> HIDE DEF P
<1>6. n \in P
  <2>1. \A k \in 0 .. n : k \in P
    BY Zenon, <1>1, <1>4, <1>5, Climb
  <2> QED
    BY <1>1, <2>1
<1>7. Len(c) \in 0 .. Len(c) /\ Len(c) # 0 /\ Len(c) - 1 = n /\ c[Len(c)] = x
  BY <1>1
<1>8. f[n] = g[n]
  BY <1>6 DEF P
<1>9. g[Len(c)] = StepOf(which, f[n], x)
  BY <1>3, <1>7, <1>8 DEF Value
<1> QED
  BY <1>9 DEF c, n

\* So a fold over one more element takes one more step: for LogOf,
LEMMA AlongOnce ==
  ASSUME NEW S, NEW s \in Seq(S), NEW x \in S, NEW r
  PROVE  /\ Along(Once, r, <<>>) = r
         /\ Along(Once, r, Append(s, x)) = Once(Along(Once, r, s), x)
<1> DEFINE Fit(f, t) == f = [k \in 0 .. Len(t) |-> IF k = 0 THEN r ELSE Once(f[k - 1], t[k])]
           J(t) == CHOOSE f : Fit(f, t)
<1>1. ASSUME NEW t, NEW f PROVE Fit(f, t) <=> Runs("once", f, r, t)
  BY DEF Runs, StepOf
<1>2. \A t : Along(Once, r, t) = J(t)[Len(t)]
  BY Zenon DEF Along
<1> HIDE DEF Fit
<1>3. \A t : Len(t) \in Nat => Runs("once", J(t), r, t)
  BY Zenon, <1>1, RunExists
<1>4. Len(s) \in Nat /\ Len(Append(s, x)) \in Nat /\ Len(<<>>) = 0
  OBVIOUS
<1>5. StepOf("once", J(s)[Len(s)], x) = Once(J(s)[Len(s)], x)
  BY DEF StepOf
<1> HIDE DEF J
<1>6. J(Append(s, x))[Len(Append(s, x))] = StepOf("once", J(s)[Len(s)], x)
  BY <1>3, <1>4, RunAppend
<1>7. J(<<>>)[0] = r
  <2>1. Runs("once", J(<<>>), r, <<>>) /\ 0 \in 0 .. 0
    BY <1>3, <1>4
  <2> QED
    BY <1>4, <2>1 DEF Runs
<1> QED
  BY Zenon, <1>2, <1>4, <1>5, <1>6, <1>7

\* for Concat,
LEMMA AlongConcat ==
  ASSUME NEW S, NEW s \in Seq(S), NEW x \in S, NEW r
  PROVE  /\ Along(\o, r, <<>>) = r
         /\ Along(\o, r, Append(s, x)) = Along(\o, r, s) \o x
<1> DEFINE Fit(f, t) == f = [k \in 0 .. Len(t) |-> IF k = 0 THEN r ELSE f[k - 1] \o t[k]]
           J(t) == CHOOSE f : Fit(f, t)
<1>1. ASSUME NEW t, NEW f PROVE Fit(f, t) <=> Runs("concat", f, r, t)
  BY DEF Runs, StepOf
<1>2. \A t : Along(\o, r, t) = J(t)[Len(t)]
  BY Zenon DEF Along
<1> HIDE DEF Fit
<1>3. \A t : Len(t) \in Nat => Runs("concat", J(t), r, t)
  BY Zenon, <1>1, RunExists
<1>4. Len(s) \in Nat /\ Len(Append(s, x)) \in Nat /\ Len(<<>>) = 0
  OBVIOUS
<1>5. StepOf("concat", J(s)[Len(s)], x) = J(s)[Len(s)] \o x
  BY DEF StepOf
<1> HIDE DEF J
<1>6. J(Append(s, x))[Len(Append(s, x))] = StepOf("concat", J(s)[Len(s)], x)
  BY <1>3, <1>4, RunAppend
<1>7. J(<<>>)[0] = r
  <2>1. Runs("concat", J(<<>>), r, <<>>) /\ 0 \in 0 .. 0
    BY <1>3, <1>4
  <2> QED
    BY <1>4, <2>1 DEF Runs
<1> QED
  BY Zenon, <1>2, <1>4, <1>5, <1>6, <1>7

\* for ApplyAll,
LEMMA AlongApply ==
  ASSUME NEW S, NEW s \in Seq(S), NEW x \in S, NEW r
  PROVE  /\ Along(ApplyFrame, r, <<>>) = r
         /\ Along(ApplyFrame, r, Append(s, x)) = ApplyFrame(Along(ApplyFrame, r, s), x)
<1> DEFINE Fit(f, t) == f = [k \in 0 .. Len(t) |-> IF k = 0 THEN r ELSE ApplyFrame(f[k - 1], t[k])]
           J(t) == CHOOSE f : Fit(f, t)
<1>1. ASSUME NEW t, NEW f PROVE Fit(f, t) <=> Runs("apply", f, r, t)
  BY DEF Runs, StepOf
<1>2. \A t : Along(ApplyFrame, r, t) = J(t)[Len(t)]
  BY Zenon DEF Along
<1> HIDE DEF Fit
<1>3. \A t : Len(t) \in Nat => Runs("apply", J(t), r, t)
  BY Zenon, <1>1, RunExists
<1>4. Len(s) \in Nat /\ Len(Append(s, x)) \in Nat /\ Len(<<>>) = 0
  OBVIOUS
<1>5. StepOf("apply", J(s)[Len(s)], x) = ApplyFrame(J(s)[Len(s)], x)
  BY DEF StepOf
<1> HIDE DEF J
<1>6. J(Append(s, x))[Len(Append(s, x))] = StepOf("apply", J(s)[Len(s)], x)
  BY <1>3, <1>4, RunAppend
<1>7. J(<<>>)[0] = r
  <2>1. Runs("apply", J(<<>>), r, <<>>) /\ 0 \in 0 .. 0
    BY <1>3, <1>4
  <2> QED
    BY <1>4, <2>1 DEF Runs
<1> QED
  BY Zenon, <1>2, <1>4, <1>5, <1>6, <1>7

\* for the replay of frames,
LEMMA AlongFrames ==
  ASSUME NEW S, NEW s \in Seq(S), NEW x \in S, NEW r
  PROVE  /\ Along(ReplayFrame, r, <<>>) = r
         /\ Along(ReplayFrame, r, Append(s, x)) = ReplayFrame(Along(ReplayFrame, r, s), x)
<1> DEFINE Fit(f, t) == f = [k \in 0 .. Len(t) |-> IF k = 0 THEN r ELSE ReplayFrame(f[k - 1], t[k])]
           J(t) == CHOOSE f : Fit(f, t)
<1>1. ASSUME NEW t, NEW f PROVE Fit(f, t) <=> Runs("frame", f, r, t)
  BY DEF Runs, StepOf
<1>2. \A t : Along(ReplayFrame, r, t) = J(t)[Len(t)]
  BY Zenon DEF Along
<1> HIDE DEF Fit
<1>3. \A t : Len(t) \in Nat => Runs("frame", J(t), r, t)
  BY Zenon, <1>1, RunExists
<1>4. Len(s) \in Nat /\ Len(Append(s, x)) \in Nat /\ Len(<<>>) = 0
  OBVIOUS
<1>5. StepOf("frame", J(s)[Len(s)], x) = ReplayFrame(J(s)[Len(s)], x)
  BY DEF StepOf
<1> HIDE DEF J
<1>6. J(Append(s, x))[Len(Append(s, x))] = StepOf("frame", J(s)[Len(s)], x)
  BY <1>3, <1>4, RunAppend
<1>7. J(<<>>)[0] = r
  <2>1. Runs("frame", J(<<>>), r, <<>>) /\ 0 \in 0 .. 0
    BY <1>3, <1>4
  <2> QED
    BY <1>4, <2>1 DEF Runs
<1> QED
  BY Zenon, <1>2, <1>4, <1>5, <1>6, <1>7

\* and for the replay of segments.
LEMMA AlongSegments ==
  ASSUME NEW S, NEW s \in Seq(S), NEW x \in S, NEW r
  PROVE  /\ Along(ReplaySegment, r, <<>>) = r
         /\ Along(ReplaySegment, r, Append(s, x)) = ReplaySegment(Along(ReplaySegment, r, s), x)
<1> DEFINE Fit(f, t) == f = [k \in 0 .. Len(t) |-> IF k = 0 THEN r ELSE ReplaySegment(f[k - 1], t[k])]
           J(t) == CHOOSE f : Fit(f, t)
<1>1. ASSUME NEW t, NEW f PROVE Fit(f, t) <=> Runs("segment", f, r, t)
  BY DEF Runs, StepOf
<1>2. \A t : Along(ReplaySegment, r, t) = J(t)[Len(t)]
  BY Zenon DEF Along
<1> HIDE DEF Fit
<1>3. \A t : Len(t) \in Nat => Runs("segment", J(t), r, t)
  BY Zenon, <1>1, RunExists
<1>4. Len(s) \in Nat /\ Len(Append(s, x)) \in Nat /\ Len(<<>>) = 0
  OBVIOUS
<1>5. StepOf("segment", J(s)[Len(s)], x) = ReplaySegment(J(s)[Len(s)], x)
  BY DEF StepOf
<1> HIDE DEF J
<1>6. J(Append(s, x))[Len(Append(s, x))] = StepOf("segment", J(s)[Len(s)], x)
  BY <1>3, <1>4, RunAppend
<1>7. J(<<>>)[0] = r
  <2>1. Runs("segment", J(<<>>), r, <<>>) /\ 0 \in 0 .. 0
    BY <1>3, <1>4
  <2> QED
    BY <1>4, <2>1 DEF Runs
<1> QED
  BY Zenon, <1>2, <1>4, <1>5, <1>6, <1>7

-----------------------------------------------------------------------------
(* Positions, and frames in their order, each once.                        *)

\* Positions are in a strict order.
LEMMA BeforeOrder ==
  /\ \A p \in Nat \X Nat : ~Before(p, p)
  /\ \A p \in Nat \X Nat, q \in Nat \X Nat : Before(p, q) \/ p = q \/ Before(q, p)
  /\ \A p \in Nat \X Nat, q \in Nat \X Nat, r \in Nat \X Nat :
       Before(p, q) /\ Before(q, r) => Before(p, r)
<1>1. \A p \in Nat \X Nat : p = <<p[1], p[2]>> /\ p[1] \in Nat /\ p[2] \in Nat
  OBVIOUS
<1> QED
  BY <1>1 DEF Before

\* Frames of E come before all of F; a sequence of frames is in the order of their positions.
BeforeAll(E, F) == \A e \in E, f \in F : Before(e.pos, f.pos)
Wholly(g, h) == BeforeAll(ToSet(g), ToSet(h))
Sorted(l) == \A x, y \in DOMAIN l : x < y => Before(l[x].pos, l[y].pos)

\* The position of a frame.
LEMMA PosIs ==
  /\ \A f \in FrameLine : f.pos \in Nat \X Nat
  /\ \A l \in Seq(FrameLine) : /\ Len(l) \in Nat /\ DOMAIN l = 1 .. Len(l)
                               /\ \A x \in DOMAIN l : l[x] \in FrameLine /\ l[x].pos \in Nat \X Nat
                               /\ \A x \in DOMAIN l : l[x] \in ToSet(l)
                               /\ \A f \in ToSet(l) : f \in FrameLine /\ \E x \in DOMAIN l : f = l[x]
<1>1. \A f \in FrameLine : f.pos \in Nat \X Nat
  BY DEF FrameLine
<1>2. ASSUME NEW l \in Seq(FrameLine)
      PROVE /\ Len(l) \in Nat /\ DOMAIN l = 1 .. Len(l)
            /\ \A x \in DOMAIN l : l[x] \in FrameLine
  OBVIOUS
<1>3. \A l : (\A x \in DOMAIN l : l[x] \in ToSet(l)) /\ (\A f \in ToSet(l) : \E x \in DOMAIN l : f = l[x])
  BY DEF ToSet
<1> QED
  BY <1>1, <1>2, <1>3

\* Sorted frames that come after sorted frames.
LEMMA SortedJoined ==
  ASSUME NEW a \in Seq(FrameLine), NEW b \in Seq(FrameLine), Sorted(a), Sorted(b), Wholly(a, b)
  PROVE  Sorted(a \o b)
<1> DEFINE c == a \o b
<1>1. /\ DOMAIN c = 1 .. Len(a) + Len(b) /\ Len(a) \in Nat /\ Len(b) \in Nat
      /\ \A k \in 1 .. Len(a) : c[k] = a[k]
      /\ \A k \in 1 .. Len(a) + Len(b) : k \notin 1 .. Len(a) => k - Len(a) \in 1 .. Len(b) /\ c[k] = b[k - Len(a)]
  OBVIOUS
<1> HIDE DEF c
<1>2. ASSUME NEW x \in DOMAIN c, NEW y \in DOMAIN c, x < y
      PROVE  Before(c[x].pos, c[y].pos)
  <2>1. CASE y \in 1 .. Len(a)
    <3>1. x \in 1 .. Len(a)
      BY <1>1, <1>2, <2>1
    <3>2. c[x] = a[x] /\ c[y] = a[y] /\ x \in DOMAIN a /\ y \in DOMAIN a
      BY <1>1, <2>1, <3>1, PosIs
    <3> QED
      BY <1>2, <3>2 DEF Sorted
  <2>2. CASE y \notin 1 .. Len(a) /\ x \in 1 .. Len(a)
    <3>1. c[x] \in ToSet(a) /\ c[y] \in ToSet(b)
      BY Zenon, <1>1, <2>2, PosIs
    <3> QED
      BY <3>1 DEF Wholly, BeforeAll
  <2>3. CASE y \notin 1 .. Len(a) /\ x \notin 1 .. Len(a)
    <3>1. /\ c[x] = b[x - Len(a)] /\ c[y] = b[y - Len(a)]
          /\ x - Len(a) \in DOMAIN b /\ y - Len(a) \in DOMAIN b
      BY Zenon, <1>1, <2>3, PosIs
    <3>2. x - Len(a) < y - Len(a)
      BY <1>1, <1>2
    <3> QED
      BY <3>1, <3>2 DEF Sorted
  <2> QED
    BY <2>1, <2>2, <2>3
<1> QED
  BY <1>2 DEF Sorted, c

\* Frames that are sorted are a beginning of sorted frames that add later ones only.
LEMMA SortedPrefix ==
  ASSUME NEW l \in Seq(FrameLine), NEW m \in Seq(FrameLine), Sorted(l), Sorted(m),
         ToSet(l) \subseteq ToSet(m), BeforeAll(ToSet(l), ToSet(m) \ ToSet(l))
  PROVE  Len(l) <= Len(m) /\ \A k \in DOMAIN l : m[k] = l[k]
<1> DEFINE P == {k \in Nat : \A j \in 1 .. k : j \in DOMAIN m /\ m[j] = l[j]}
<1>1. /\ Len(l) \in Nat /\ Len(m) \in Nat /\ DOMAIN l = 1 .. Len(l) /\ DOMAIN m = 1 .. Len(m)
      /\ \A x \in DOMAIN l : l[x].pos \in Nat \X Nat /\ l[x] \in ToSet(l)
      /\ \A x \in DOMAIN m : m[x].pos \in Nat \X Nat /\ m[x] \in ToSet(m)
      /\ \A f \in ToSet(m) : \E x \in DOMAIN m : f = m[x]
      /\ \A f \in ToSet(l) : \E x \in DOMAIN l : f = l[x]
  BY PosIs
<1>2. 0 \in P
  OBVIOUS
<1>3. ASSUME NEW k \in 1 .. Len(l), k - 1 \in P PROVE k \in P
  <2>1. \A j \in 1 .. k - 1 : j \in DOMAIN m /\ m[j] = l[j]
    BY <1>3
  <2>2. k \in DOMAIN l /\ l[k] \in ToSet(m)
    BY Zenon, <1>1
  <2>3. PICK x \in DOMAIN m : l[k] = m[x]
    BY <1>1, <2>2
  <2>4. ~(x < k)
    <3> SUFFICES ASSUME x < k PROVE FALSE
      OBVIOUS
    <3>1. x \in 1 .. k - 1 /\ x \in DOMAIN l
      BY <1>1, <2>2
    <3>2. Before(l[x].pos, l[k].pos) /\ l[x] = l[k]
      BY <2>1, <2>2, <2>3, <3>1 DEF Sorted
    <3> QED
      BY <1>1, <2>2, <3>2, BeforeOrder
  <2>5. ~(k < x)
    <3> SUFFICES ASSUME k < x PROVE FALSE
      OBVIOUS
    <3>1. k \in DOMAIN m
      BY <1>1, <2>2
    <3>2. Before(m[k].pos, l[k].pos)
      BY <2>3, <3>1 DEF Sorted
    <3>3. m[k] \in ToSet(l)
      <4> SUFFICES ASSUME m[k] \notin ToSet(l) PROVE FALSE
        OBVIOUS
      <4>1. Before(l[k].pos, m[k].pos)
        BY <1>1, <2>2, <3>1 DEF BeforeAll
      <4>2. l[k].pos \in Nat \X Nat /\ m[k].pos \in Nat \X Nat
        BY <1>1, <2>2, <3>1
      <4>3. Before(m[k].pos, m[k].pos)
        BY <3>2, <4>1, <4>2, BeforeOrder
      <4> QED
        BY <4>2, <4>3, BeforeOrder
    <3>4. PICK y \in DOMAIN l : m[k] = l[y]
      BY <1>1, <3>3
    <3>5. ~(y < k)
      <4> SUFFICES ASSUME y < k PROVE FALSE
        OBVIOUS
      <4>1. y \in 1 .. k - 1
        BY <1>1
      <4>2. y \in DOMAIN m /\ m[y] = m[k] /\ Before(m[y].pos, m[k].pos)
        BY <2>1, <3>1, <3>4, <4>1 DEF Sorted
      <4> QED
        BY Zenon, <1>1, <3>1, <4>2, BeforeOrder
    <3>6. y # k
      BY <1>1, <2>2, <3>2, <3>4, BeforeOrder
    <3>7. k < y
      BY <1>1, <2>2, <3>5, <3>6
    <3>8. Before(l[k].pos, m[k].pos)
      BY <2>2, <3>4, <3>7 DEF Sorted
    <3>9. l[k].pos \in Nat \X Nat /\ m[k].pos \in Nat \X Nat
      BY <1>1, <2>2, <3>1
    <3>10. Before(m[k].pos, m[k].pos)
      BY <3>2, <3>8, <3>9, BeforeOrder
    <3> QED
      BY <3>9, <3>10, BeforeOrder
  <2>6. x = k
    BY <1>1, <2>2, <2>4, <2>5
  <2>7. \A j \in 1 .. k : j = k \/ j \in 1 .. k - 1
    BY <1>1
  <2>8. k \in Nat
    OBVIOUS
  <2> QED
    BY <2>1, <2>3, <2>6, <2>7, <2>8
<1> HIDE DEF P
<1>4. \A k \in 0 .. Len(l) : k \in P
  BY Zenon, <1>1, <1>2, <1>3, Climb
<1>5. \A j \in 1 .. Len(l) : j \in DOMAIN m /\ m[j] = l[j]
  <2>1. Len(l) \in P
    BY <1>1, <1>4
  <2> QED
    BY <2>1 DEF P
<1>6. Len(l) <= Len(m)
  <2>1. CASE Len(l) = 0
    BY <1>1, <2>1
  <2>2. CASE Len(l) # 0
    <3>1. Len(l) \in 1 .. Len(l)
      BY <1>1, <2>2
    <3>2. Len(l) \in 1 .. Len(m)
      BY <1>1, <1>5, <3>1
    <3> QED
      BY <1>1, <3>2
  <2> QED
    BY <2>1, <2>2
<1> QED
  BY <1>1, <1>5, <1>6

\* Sorted frames are determined by their set,
LEMMA SortedSame ==
  ASSUME NEW l \in Seq(FrameLine), NEW m \in Seq(FrameLine), Sorted(l), Sorted(m), ToSet(l) = ToSet(m)
  PROVE  l = m
<1>1. BeforeAll(ToSet(l), ToSet(m) \ ToSet(l)) /\ BeforeAll(ToSet(m), ToSet(l) \ ToSet(m))
  BY DEF BeforeAll
<1>2. Len(l) <= Len(m) /\ \A k \in DOMAIN l : m[k] = l[k]
  BY <1>1, SortedPrefix
<1>3. Len(m) <= Len(l)
  BY <1>1, SortedPrefix
<1>4. Len(l) \in Nat /\ Len(m) \in Nat
  BY PosIs
<1>5. Len(l) = Len(m)
  BY <1>2, <1>3, <1>4
<1> QED
  BY <1>2, <1>5

\* and later ones are put behind them.
LEMMA SortedMore ==
  ASSUME NEW l \in Seq(FrameLine), NEW m \in Seq(FrameLine), NEW g \in Seq(FrameLine),
         Sorted(l), Sorted(m), Sorted(g), Wholly(l, g), ToSet(m) = ToSet(l) \cup ToSet(g)
  PROVE  m = l \o g
<1>1. l \o g \in Seq(FrameLine) /\ ToSet(l \o g) = ToSet(l) \cup ToSet(g)
  BY Elements
<1>2. Sorted(l \o g)
  BY SortedJoined
<1> QED
  BY Zenon, <1>1, <1>2, SortedSame

\* Each frame of s once.
Uniq(s) == Along(Once, <<>>, s)

\* Frames that follow others, one at a time.
LEMMA JoinBySteps ==
  ASSUME NEW S, NEW c \in Seq(S), NEW g \in Seq(S)
  PROVE  /\ c \o SubSeq(g, 1, 0) = c /\ c \o SubSeq(g, 1, Len(g)) = c \o g
         /\ \A j \in 1 .. Len(g) : /\ c \o SubSeq(g, 1, j - 1) \in Seq(S) /\ g[j] \in S
                                   /\ c \o SubSeq(g, 1, j) = Append(c \o SubSeq(g, 1, j - 1), g[j])
<1>1. Len(g) \in Nat /\ \A j \in 1 .. Len(g) : g[j] \in S
  OBVIOUS
<1>2. SubSeq(g, 1, 0) = <<>> /\ SubSeq(g, 1, Len(g)) = g /\ c \o <<>> = c
  OBVIOUS
<1>3. ASSUME NEW j \in 1 .. Len(g)
      PROVE  /\ c \o SubSeq(g, 1, j - 1) \in Seq(S)
             /\ c \o SubSeq(g, 1, j) = Append(c \o SubSeq(g, 1, j - 1), g[j])
  <2>1. SubSeq(g, 1, j - 1) \in Seq(S) /\ SubSeq(g, 1, j) = Append(SubSeq(g, 1, j - 1), g[j])
    BY <1>1
  <2> DEFINE h == SubSeq(g, 1, j - 1)
  <2> HIDE DEF h
  <2>2. ASSUME NEW x \in S, h \in Seq(S) PROVE c \o Append(h, x) = Append(c \o h, x) /\ c \o h \in Seq(S)
    BY <2>2
  <2> QED
    BY Zenon, <1>1, <2>1, <2>2 DEF h
<1> QED
  BY Zenon, <1>1, <1>2, <1>3

\* Uniq keeps the frames,
LEMMA UniqIs ==
  ASSUME NEW S, NEW s \in Seq(S)
  PROVE  Uniq(s) \in Seq(S) /\ ToSet(Uniq(s)) = ToSet(s)
<1>1. Uniq(s) = Firsts(s)[Len(s)]
  BY Zenon DEF Uniq, Along, Firsts
<1> QED
  BY <1>1, FirstsIs

\* takes the next,
LEMMA UniqStep ==
  ASSUME NEW S, NEW s \in Seq(S), NEW x \in S
  PROVE  Uniq(<<>>) = <<>> /\ Uniq(Append(s, x)) = Once(Uniq(s), x)
BY Zenon, AlongOnce DEF Uniq

\* adds nothing for frames that it has,
LEMMA UniqOld ==
  ASSUME NEW S, NEW c \in Seq(S), NEW g \in Seq(S), ToSet(g) \subseteq ToSet(c)
  PROVE  Uniq(c \o g) = Uniq(c)
<1> DEFINE P == {j \in Nat : Uniq(c \o SubSeq(g, 1, j)) = Uniq(c)}
<1>1. Len(g) \in Nat /\ \A j \in 1 .. Len(g) : j \in Nat /\ g[j] \in ToSet(g)
  BY DEF ToSet
<1>2. 0 \in P
  BY Zenon, JoinBySteps
<1>3. ASSUME NEW j \in 1 .. Len(g), j - 1 \in P PROVE j \in P
  <2> DEFINE h == c \o SubSeq(g, 1, j - 1)
  <2>1. h \in Seq(S) /\ g[j] \in S /\ c \o SubSeq(g, 1, j) = Append(h, g[j])
    BY SMTT(30), JoinBySteps
  <2>2. Uniq(h) = Uniq(c)
    BY <1>3
  <2> HIDE DEF h
  <2>3. Uniq(Append(h, g[j])) = Once(Uniq(h), g[j])
    BY <2>1, UniqStep
  <2>4. Contains(Uniq(c), g[j])
    <3>1. g[j] \in ToSet(Uniq(c))
      BY <1>1, UniqIs
    <3> QED
      BY <3>1 DEF Contains, ToSet
  <2>5. Uniq(c \o SubSeq(g, 1, j)) = Uniq(c)
    BY Zenon, <2>1, <2>2, <2>3, <2>4 DEF Once
  <2> QED
    BY <1>1, <2>5
<1> HIDE DEF P
<1>4. \A j \in 0 .. Len(g) : j \in P
  BY Zenon, <1>1, <1>2, <1>3, Climb
<1>5. Len(g) \in P
  BY <1>1, <1>4
<1> QED
  BY Zenon, <1>5, JoinBySteps DEF P

\* and adds all frames that come after those it has.
LEMMA UniqNew ==
  ASSUME NEW c \in Seq(FrameLine), NEW g \in Seq(FrameLine), Sorted(g), Wholly(c, g)
  PROVE  Uniq(c \o g) = Uniq(c) \o g
<1> DEFINE u == Uniq(c)
           P == {j \in Nat : Uniq(c \o SubSeq(g, 1, j)) = u \o SubSeq(g, 1, j)}
<1>1. /\ Len(g) \in Nat /\ DOMAIN g = 1 .. Len(g)
      /\ \A j \in 1 .. Len(g) : j \in Nat /\ g[j] \in ToSet(g) /\ g[j].pos \in Nat \X Nat
  BY PosIs
<1>2. u \in Seq(FrameLine) /\ ToSet(u) = ToSet(c)
  BY UniqIs
<1> HIDE DEF u
<1>3. 0 \in P
  <2>1. c \o SubSeq(g, 1, 0) = c
    BY JoinBySteps
  <2>2. u \o SubSeq(g, 1, 0) = u
    BY <1>2, JoinBySteps
  <2> QED
    BY Zenon, <2>1, <2>2 DEF u
<1>4. ASSUME NEW j \in 1 .. Len(g), j - 1 \in P PROVE j \in P
  <2> DEFINE h == c \o SubSeq(g, 1, j - 1)
             v == u \o SubSeq(g, 1, j - 1)
  <2>1. /\ h \in Seq(FrameLine) /\ g[j] \in FrameLine
        /\ c \o SubSeq(g, 1, j) = Append(h, g[j]) /\ u \o SubSeq(g, 1, j) = Append(v, g[j])
    <3>1. h \in Seq(FrameLine) /\ g[j] \in FrameLine /\ c \o SubSeq(g, 1, j) = Append(h, g[j])
      BY SMTT(30), JoinBySteps
    <3>2. u \o SubSeq(g, 1, j) = Append(v, g[j])
      BY SMTT(30), <1>2, JoinBySteps
    <3> QED
      BY Zenon, <3>1, <3>2
  <2>2. Uniq(h) = v
    BY <1>4
  <2>3. ~Contains(v, g[j])
    <3> DEFINE b == SubSeq(g, 1, j - 1)
    <3>1. b \in Seq(FrameLine) /\ Len(b) = j - 1 /\ \A i \in 1 .. j - 1 : b[i] = g[i]
      BY <1>1
    <3> HIDE DEF b
    <3>2. ToSet(u \o b) = ToSet(u) \cup ToSet(b)
      BY <1>2, <3>1, Elements
    <3>3. g[j] \notin ToSet(u)
      <4> SUFFICES ASSUME g[j] \in ToSet(c) PROVE FALSE
        BY <1>2
      <4>1. Before(g[j].pos, g[j].pos)
        BY <1>1 DEF Wholly, BeforeAll
      <4> QED
        BY <1>1, <4>1, BeforeOrder
    <3>4. g[j] \notin ToSet(b)
      <4> SUFFICES ASSUME g[j] \in ToSet(b) PROVE FALSE
        OBVIOUS
      <4>1. PICK i \in 1 .. j - 1 : g[j] = g[i]
        <5>1. PICK i \in DOMAIN b : g[j] = b[i]
          BY DEF ToSet
        <5>2. i \in 1 .. j - 1
          BY <3>1
        <5> QED
          BY <3>1, <5>1, <5>2
      <4>2. i \in DOMAIN g /\ j \in DOMAIN g /\ i < j
        BY <1>1
      <4>3. Before(g[i].pos, g[j].pos)
        BY <4>2 DEF Sorted
      <4> QED
        BY <1>1, <4>1, <4>3, BeforeOrder
    <3>5. g[j] \notin ToSet(v)
      BY <3>2, <3>3, <3>4 DEF b
    <3>6. v \in Seq(FrameLine)
      BY Zenon, <1>1, <1>2, JoinBySteps
    <3> HIDE DEF v
    <3>7. DOMAIN v = 1 .. Len(v)
      BY <3>6
    <3> QED
      BY <3>5, <3>7 DEF Contains, ToSet
  <2> HIDE DEF h, v
  <2>4. Uniq(Append(h, g[j])) = Once(Uniq(h), g[j])
    BY <2>1, UniqStep
  <2>5. Uniq(c \o SubSeq(g, 1, j)) = u \o SubSeq(g, 1, j)
    BY Zenon, <2>1, <2>2, <2>3, <2>4 DEF Once
  <2> QED
    BY <1>1, <2>5
<1> HIDE DEF P
<1>5. \A j \in 0 .. Len(g) : j \in P
  BY Zenon, <1>1, <1>3, <1>4, Climb
<1>6. Len(g) \in P
  BY <1>1, <1>5
<1> QED
  BY ZenonT(40), <1>2, <1>6, JoinBySteps DEF P, u

-----------------------------------------------------------------------------
(* The groups of all segments, put together.                               *)

\* The groups of some segments, segment by segment, and the frames of groups.
Lists == Seq(Seq(Seq(FrameLine)))
GroupsIn(L) == UNION {ToSet(L[k]) : k \in DOMAIN L}
FramesIn(G) == UNION {ToSet(g) : g \in G}

\* A beginning that is one longer.
LEMMA LongerBeginning ==
  ASSUME NEW S, NEW g \in Seq(S), NEW j \in DOMAIN g
  PROVE  /\ SubSeq(g, 1, j - 1) \in Seq(S) /\ g[j] \in S
         /\ SubSeq(g, 1, j) = Append(SubSeq(g, 1, j - 1), g[j])
OBVIOUS

\* Nothing put together.
LEMMA ConcatEmpty == Concat(<<>>) = <<>>
<1>1. <<>> \in Seq({0}) /\ 0 \in {0}
  OBVIOUS
<1>2. Along(\o, <<>>, <<>>) = <<>>
  BY Zenon, <1>1, AlongConcat
<1> QED
  BY Zenon, <1>2 DEF Concat

\* Concat one step further.
LEMMA ConcatStep ==
  ASSUME NEW S, NEW ss \in Seq(Seq(S)), NEW x \in Seq(S)
  PROVE  Concat(Append(ss, x)) = Concat(ss) \o x
<1> DEFINE D == Seq(S)
<1>1. ss \in Seq(D) /\ x \in D
  OBVIOUS
<1> HIDE DEF D
<1>2. Along(\o, <<>>, Append(ss, x)) = Along(\o, <<>>, ss) \o x
  BY ZenonT(40), <1>1, AlongConcat
<1> QED
  BY Zenon, <1>2 DEF Concat

\* What is known of lists of groups.
LEMMA ListsAre ==
  ASSUME NEW L \in Lists
  PROVE  /\ Len(L) \in Nat /\ DOMAIN L = 1 .. Len(L)
         /\ \A k \in DOMAIN L : /\ L[k] \in Seq(Seq(FrameLine)) /\ Len(L[k]) \in Nat
                                /\ DOMAIN L[k] = 1 .. Len(L[k])
                                /\ \A i \in DOMAIN L[k] : L[k][i] \in Seq(FrameLine)
<1> DEFINE D == Seq(Seq(FrameLine))
<1>1. L \in Seq(D)
  BY DEF Lists
<1> HIDE DEF D
<1>2. Len(L) \in Nat /\ DOMAIN L = 1 .. Len(L) /\ \A k \in DOMAIN L : L[k] \in D
  BY <1>1
<1>3. ASSUME NEW G \in D PROVE /\ Len(G) \in Nat /\ DOMAIN G = 1 .. Len(G)
                               /\ \A i \in DOMAIN G : G[i] \in Seq(FrameLine)
  BY DEF D
<1> QED
  BY <1>2, <1>3 DEF D

\* The frames of all segments up to k, and of the first i groups of segment k as well.
Below(L, k) == Concat([m \in 1 .. k |-> Concat(L[m])])
Up(L, k, i) == Below(L, k - 1) \o Concat(SubSeq(L[k], 1, i))

\* The frames of more segments.
LEMMA BelowIs ==
  ASSUME NEW L \in Lists
  PROVE  /\ Below(L, 0) = <<>>
         /\ \A k \in DOMAIN L : Below(L, k) = Below(L, k - 1) \o Concat(L[k])
         /\ \A k \in 0 .. Len(L) : /\ Below(L, k) \in Seq(FrameLine)
                                   /\ \A f \in FrameLine : f \in ToSet(Below(L, k)) <=>
                                        \E m \in 1 .. k : \E j \in DOMAIN L[m] : f \in ToSet(L[m][j])
<1>1. /\ Len(L) \in Nat /\ DOMAIN L = 1 .. Len(L)
      /\ \A k \in DOMAIN L : L[k] \in Seq(Seq(FrameLine))
  BY ListsAre
<1>2. \A k \in DOMAIN L : /\ Concat(L[k]) \in Seq(FrameLine)
                          /\ \A f \in FrameLine : f \in ToSet(Concat(L[k])) <=> \E j \in DOMAIN L[k] : f \in ToSet(L[k][j])
  BY <1>1, ConcatIs
<1> DEFINE B(k) == [m \in 1 .. k |-> Concat(L[m])]
<1>3. \A k \in 0 .. Len(L) : B(k) \in Seq(Seq(FrameLine)) /\ DOMAIN B(k) = 1 .. k
  <2> TAKE k \in 0 .. Len(L)
  <2>1. k \in Nat /\ \A m \in 1 .. k : Concat(L[m]) \in Seq(FrameLine)
    BY <1>1, <1>2
  <2>2. B(k) \in [1 .. k -> Seq(FrameLine)]
    BY <2>1
  <2> HIDE DEF B
  <2> QED
    BY <2>1, <2>2
<1>4. ASSUME NEW k \in DOMAIN L PROVE B(k) = Append(B(k - 1), Concat(L[k]))
  <2>1. k \in Nat /\ k - 1 \in Nat /\ k \in 0 .. Len(L) /\ k - 1 \in 0 .. Len(L)
    BY <1>1
  <2>2. /\ B(k) \in Seq(Seq(FrameLine)) /\ DOMAIN B(k) = 1 .. k
        /\ B(k - 1) \in Seq(Seq(FrameLine)) /\ DOMAIN B(k - 1) = 1 .. k - 1
    BY Zenon, <1>3, <2>1
  <2> DEFINE c == Append(B(k - 1), Concat(L[k]))
  <2>3. Len(B(k - 1)) = k - 1 /\ Len(B(k)) = k
    BY <2>1, <2>2
  <2>4. /\ \A m \in 1 .. k : B(k)[m] = Concat(L[m])
        /\ \A m \in 1 .. k - 1 : B(k - 1)[m] = Concat(L[m])
    OBVIOUS
  <2> HIDE DEF B
  <2>5. c \in Seq(Seq(FrameLine)) /\ Len(c) = k /\ c[k] = Concat(L[k]) /\ \A m \in 1 .. k - 1 : c[m] = B(k - 1)[m]
    BY <1>2, <2>1, <2>2, <2>3
  <2> HIDE DEF c
  <2>6. \A m \in 1 .. k : m = k \/ m \in 1 .. k - 1
    BY <2>1
  <2>7. \A m \in 1 .. k : c[m] = B(k)[m]
    BY <2>4, <2>5, <2>6
  <2>8. c = B(k)
    BY <2>1, <2>2, <2>3, <2>5, <2>7
  <2> QED
    BY <2>8 DEF c
<1>5. ASSUME NEW k \in 0 .. Len(L)
      PROVE  /\ Below(L, k) \in Seq(FrameLine)
             /\ \A f \in FrameLine : f \in ToSet(Below(L, k)) <=>
                                        \E m \in 1 .. k : \E j \in DOMAIN L[m] : f \in ToSet(L[m][j])
  <2>1. \A m \in 1 .. k : B(k)[m] = Concat(L[m]) /\ m \in DOMAIN L
    BY <1>1
  <2>2. Below(L, k) = Concat(B(k))
    BY DEF Below
  <2>3. B(k) \in Seq(Seq(FrameLine)) /\ DOMAIN B(k) = 1 .. k
    BY <1>3
  <2> HIDE DEF B
  <2>4. /\ Concat(B(k)) \in Seq(FrameLine)
        /\ \A f \in FrameLine : f \in ToSet(Concat(B(k))) <=> \E m \in DOMAIN B(k) : f \in ToSet(B(k)[m])
    BY <2>3, ConcatIs
  <2> QED
    BY Zenon, <1>2, <2>1, <2>2, <2>3, <2>4
<1>6. Below(L, 0) = <<>>
  <2>1. B(0) = <<>>
    OBVIOUS
  <2>2. Concat(<<>>) = <<>>
    BY ConcatEmpty
  <2> QED
    BY <2>1, <2>2 DEF Below
<1>7. ASSUME NEW k \in DOMAIN L PROVE Below(L, k) = Below(L, k - 1) \o Concat(L[k])
  <2>1. k - 1 \in 0 .. Len(L)
    BY <1>1
  <2>2. B(k - 1) \in Seq(Seq(FrameLine)) /\ Concat(L[k]) \in Seq(FrameLine)
    BY Zenon, <1>2, <1>3, <2>1
  <2>3. B(k) = Append(B(k - 1), Concat(L[k]))
    BY Zenon, <1>4
  <2>4. Below(L, k) = Concat(B(k)) /\ Below(L, k - 1) = Concat(B(k - 1))
    BY DEF Below
  <2> HIDE DEF B
  <2> QED
    BY Zenon, <2>2, <2>3, <2>4, ConcatStep
<1> QED
  BY Zenon, <1>5, <1>6, <1>7

\* The frames of more groups.
LEMMA UpIs ==
  ASSUME NEW L \in Lists, NEW k \in DOMAIN L
  PROVE  /\ Up(L, k, 0) = Below(L, k - 1)
         /\ Up(L, k, Len(L[k])) = Below(L, k)
         /\ \A i \in 0 .. Len(L[k]) :
              /\ Up(L, k, i) \in Seq(FrameLine)
              /\ \A f \in FrameLine : f \in ToSet(Up(L, k, i)) <=>
                   \E m \in DOMAIN L : \E j \in DOMAIN L[m] : (m < k \/ (m = k /\ j <= i)) /\ f \in ToSet(L[m][j])
         /\ \A i \in DOMAIN L[k] : /\ Up(L, k, i) = Up(L, k, i - 1) \o L[k][i]
                                   /\ Concat(SubSeq(L[k], 1, i - 1)) \in Seq(FrameLine)
                                   /\ Concat(SubSeq(L[k], 1, i)) = Concat(SubSeq(L[k], 1, i - 1)) \o L[k][i]
<1> DEFINE G == L[k]
           C(i) == Concat(SubSeq(G, 1, i))
<1>1. /\ Len(L) \in Nat /\ DOMAIN L = 1 .. Len(L) /\ k \in 1 .. Len(L) /\ k - 1 \in 0 .. Len(L)
      /\ G \in Seq(Seq(FrameLine)) /\ Len(G) \in Nat /\ DOMAIN G = 1 .. Len(G)
      /\ \A i \in DOMAIN G : G[i] \in Seq(FrameLine)
  BY ListsAre
<1>2. /\ Below(L, k - 1) \in Seq(FrameLine)
      /\ \A f \in FrameLine : f \in ToSet(Below(L, k - 1)) <=>
                                        \E m \in 1 .. k - 1 : \E j \in DOMAIN L[m] : f \in ToSet(L[m][j])
      /\ Below(L, k) = Below(L, k - 1) \o Concat(G)
  BY Zenon, <1>1, BelowIs
<1> HIDE DEF G
<1>3. \A i \in 0 .. Len(G) : /\ SubSeq(G, 1, i) \in Seq(Seq(FrameLine)) /\ DOMAIN SubSeq(G, 1, i) = 1 .. i
                             /\ \A j \in 1 .. i : SubSeq(G, 1, i)[j] = G[j]
  BY <1>1
<1>4. ASSUME NEW i \in 0 .. Len(G)
      PROVE  /\ C(i) \in Seq(FrameLine)
             /\ \A f \in FrameLine : f \in ToSet(C(i)) <=> \E j \in 1 .. i : f \in ToSet(G[j])
  <2> DEFINE s == SubSeq(G, 1, i)
  <2>1. s \in Seq(Seq(FrameLine)) /\ DOMAIN s = 1 .. i /\ \A j \in 1 .. i : s[j] = G[j]
    BY <1>3
  <2> HIDE DEF s
  <2>2. Concat(s) \in Seq(FrameLine) /\ \A f \in FrameLine : f \in ToSet(Concat(s)) <=> \E j \in DOMAIN s : f \in ToSet(s[j])
    BY <2>1, ConcatIs
  <2>3. Concat(s) \in Seq(FrameLine) /\ \A f \in FrameLine : f \in ToSet(Concat(s)) <=> \E j \in 1 .. i : f \in ToSet(G[j])
    BY Zenon, <2>1, <2>2
  <2> QED
    BY <2>3 DEF s
<1>5. ASSUME NEW i \in DOMAIN G PROVE C(i) = C(i - 1) \o G[i]
  <2>1. SubSeq(G, 1, i - 1) \in Seq(Seq(FrameLine)) /\ G[i] \in Seq(FrameLine)
    BY <1>1, <1>3
  <2>2. SubSeq(G, 1, i) = Append(SubSeq(G, 1, i - 1), G[i])
    BY Zenon, <1>1, LongerBeginning
  <2> QED
    BY Zenon, <2>1, <2>2, ConcatStep
<1>6. C(0) = <<>> /\ C(Len(G)) = Concat(G)
  <2>1. SubSeq(G, 1, 0) = <<>> /\ SubSeq(G, 1, Len(G)) = G
    BY <1>1
  <2>2. Concat(<<>>) = <<>>
    BY ConcatEmpty
  <2> QED
    BY Zenon, <2>1, <2>2
<1>7. \A i : Up(L, k, i) = Below(L, k - 1) \o C(i)
  BY DEF Up, G
<1> HIDE DEF C
<1> DEFINE b == Below(L, k - 1)
<1> HIDE DEF b
<1>8. b \o <<>> = b
  BY <1>2 DEF b
<1>9. ASSUME NEW i \in 0 .. Len(G)
      PROVE  /\ b \o C(i) \in Seq(FrameLine)
             /\ \A f \in FrameLine : f \in ToSet(b \o C(i)) <=>
                  \E m \in DOMAIN L : \E j \in DOMAIN L[m] : (m < k \/ (m = k /\ j <= i)) /\ f \in ToSet(L[m][j])
  <2>1. b \o C(i) \in Seq(FrameLine) /\ ToSet(b \o C(i)) = ToSet(b) \cup ToSet(C(i))
    BY <1>2, <1>4, Elements DEF b
  <2>2. \A m \in DOMAIN L : m < k <=> m \in 1 .. k - 1
    BY <1>1
  <2>3. 1 .. k - 1 \subseteq DOMAIN L /\ \A m \in 1 .. k - 1 : m # k
    BY <1>1
  <2>4. \A j \in DOMAIN L[k] : j <= i <=> j \in 1 .. i
    BY <1>1 DEF G
  <2>5. 1 .. i \subseteq DOMAIN L[k]
    BY <1>1 DEF G
  <2>6. \A f \in FrameLine : f \in ToSet(b \o C(i)) <=>
          (\E m \in 1 .. k - 1 : \E j \in DOMAIN L[m] : f \in ToSet(L[m][j])) \/ \E j \in 1 .. i : f \in ToSet(L[k][j])
    BY <1>2, <1>4, <2>1 DEF b, G
  <2>7. \A f \in FrameLine :
          (\E m \in DOMAIN L : \E j \in DOMAIN L[m] : (m < k \/ (m = k /\ j <= i)) /\ f \in ToSet(L[m][j]))
          <=> (\E m \in 1 .. k - 1 : \E j \in DOMAIN L[m] : f \in ToSet(L[m][j])) \/ \E j \in 1 .. i : f \in ToSet(L[k][j])
    BY <2>2, <2>3, <2>4, <2>5
  <2> QED
    BY <2>1, <2>6, <2>7
<1>10. ASSUME NEW i \in DOMAIN G PROVE b \o C(i) = (b \o C(i - 1)) \o G[i] /\ C(i - 1) \in Seq(FrameLine)
  <2>a. i - 1 \in 0 .. Len(G)
    BY <1>1
  <2>1. C(i - 1) \in Seq(FrameLine) /\ b \in Seq(FrameLine) /\ G[i] \in Seq(FrameLine)
    BY <1>1, <1>2, <1>4, <2>a DEF b
  <2>b. C(i) = C(i - 1) \o G[i]
    BY <1>5
  <2>2. \A x \in Seq(FrameLine), y \in Seq(FrameLine), z \in Seq(FrameLine) : x \o (y \o z) = (x \o y) \o z
    OBVIOUS
  <2> QED
    BY <2>1, <2>b, <2>2
<1> QED
  BY Zenon, <1>2, <1>5, <1>6, <1>7, <1>8, <1>9, <1>10 DEF b, G, C

\* What goes on from group to group and from segment to segment, reaches all.
LEMMA ClimbTwice ==
  ASSUME NEW L \in Lists, NEW P,
         1 \in DOMAIN L => <<1, 0>> \in P,
         \A k \in DOMAIN L : \A i \in DOMAIN L[k] : <<k, i - 1>> \in P => <<k, i>> \in P,
         \A k \in DOMAIN L : k + 1 \in DOMAIN L /\ <<k, Len(L[k])>> \in P => <<k + 1, 0>> \in P
  PROVE  \A k \in DOMAIN L : \A i \in 0 .. Len(L[k]) : <<k, i>> \in P
<1> DEFINE Q(k) == {i \in Nat : <<k, i>> \in P}
           R == {k \in Nat : k \in DOMAIN L => \A i \in 0 .. Len(L[k]) : <<k, i>> \in P}
<1>1. /\ Len(L) \in Nat /\ DOMAIN L = 1 .. Len(L)
      /\ \A k \in DOMAIN L : Len(L[k]) \in Nat /\ DOMAIN L[k] = 1 .. Len(L[k])
  BY ListsAre
<1>2. ASSUME NEW k \in DOMAIN L, <<k, 0>> \in P PROVE \A i \in 0 .. Len(L[k]) : <<k, i>> \in P
  <2>1. 0 \in Q(k)
    BY <1>2
  <2>2. ASSUME NEW i \in 1 .. Len(L[k]), i - 1 \in Q(k) PROVE i \in Q(k)
    BY <1>1, <2>2
  <2> HIDE DEF Q
  <2>3. \A i \in 0 .. Len(L[k]) : i \in Q(k)
    BY Zenon, <1>1, <2>1, <2>2, Climb
  <2> QED
    BY <2>3 DEF Q
<1>3. 0 \in R
  BY <1>1
<1>4. ASSUME NEW k \in 1 .. Len(L), k - 1 \in R PROVE k \in R
  <2>1. k \in Nat /\ k \in DOMAIN L
    BY <1>1
  <2>2. <<k, 0>> \in P
    <3>1. CASE k = 1
      BY <2>1, <3>1
    <3>2. CASE k # 1
      <4>1. k - 1 \in DOMAIN L /\ (k - 1) + 1 = k
        BY <1>1, <3>2
      <4>2. <<k - 1, Len(L[k - 1])>> \in P
        BY <1>1, <1>4, <4>1
      <4> QED
        BY Zenon, <2>1, <4>1, <4>2
    <3> QED
      BY <3>1, <3>2
  <2> QED
    BY <1>2, <2>1, <2>2
<1> HIDE DEF R
<1>5. \A k \in 0 .. Len(L) : k \in R
  BY Zenon, <1>1, <1>3, <1>4, Climb
<1>6. \A k \in DOMAIN L : k \in 0 .. Len(L)
  BY <1>1
<1> QED
  BY Zenon, <1>5, <1>6 DEF R

-----------------------------------------------------------------------------
(* Groups in order, perhaps repeated.                                      *)

\* Groups are in the order of their positions, or repeated whole.
InOrder(L) ==
  \A k, m \in DOMAIN L : \A i \in DOMAIN L[k], j \in DOMAIN L[m] :
    /\ L[k][i] # <<>> /\ Sorted(L[k][i])
    /\ k < m \/ (k = m /\ i < j) => L[k][i] = L[m][j] \/ Wholly(L[k][i], L[m][j])

\* The log of the groups of segments.
LogAlong(L) == Uniq(Below(L, Len(L)))

\* The groups of a list, and their frames.
LEMMA GroupsInIs ==
  ASSUME NEW L
  PROVE  /\ \A g : g \in GroupsIn(L) <=> \E k \in DOMAIN L : \E i \in DOMAIN L[k] : g = L[k][i]
         /\ \A f : f \in FramesIn(GroupsIn(L)) <=> \E k \in DOMAIN L : \E i \in DOMAIN L[k] : f \in ToSet(L[k][i])
<1>1. \A s, g : g \in ToSet(s) <=> \E i \in DOMAIN s : g = s[i]
  BY DEF ToSet
<1>2. \A g : g \in GroupsIn(L) <=> \E k \in DOMAIN L : g \in ToSet(L[k])
  BY DEF GroupsIn
<1>3. \A g : g \in GroupsIn(L) <=> \E k \in DOMAIN L : \E i \in DOMAIN L[k] : g = L[k][i]
  BY <1>1, <1>2
<1>4. \A f : f \in FramesIn(GroupsIn(L)) <=> \E g \in GroupsIn(L) : f \in ToSet(g)
  BY DEF FramesIn
<1> QED
  BY <1>3, <1>4

\* A group is one that has been read, or comes after all that have.
LEMMA OldOrNew ==
  ASSUME NEW L \in Lists, InOrder(L), NEW k \in DOMAIN L, NEW i \in DOMAIN L[k]
  PROVE  /\ Sorted(L[k][i])
         /\ ToSet(L[k][i]) \subseteq ToSet(Up(L, k, i - 1)) \/ Wholly(Up(L, k, i - 1), L[k][i])
<1> DEFINE g == L[k][i]
           c == Up(L, k, i - 1)
           Earlier(m, j) == m < k \/ (m = k /\ j <= i - 1)
<1>1. /\ DOMAIN L = 1 .. Len(L) /\ Len(L) \in Nat /\ Len(L[k]) \in Nat /\ DOMAIN L[k] = 1 .. Len(L[k])
      /\ g \in Seq(FrameLine)
  BY ListsAre
<1>2. i - 1 \in 0 .. Len(L[k])
  BY <1>1
<1>3. /\ c \in Seq(FrameLine)
      /\ \A f \in FrameLine : f \in ToSet(c) <=> \E m \in DOMAIN L : \E j \in DOMAIN L[m] : Earlier(m, j) /\ f \in ToSet(L[m][j])
  BY <1>2, UpIs
<1>4. ASSUME NEW m \in DOMAIN L, NEW j \in DOMAIN L[m], Earlier(m, j)
      PROVE  L[m][j] = g \/ Wholly(L[m][j], g)
  <2>1. m < k \/ (m = k /\ j < i)
    <3>1. CASE m = k
      <4>1. j \in Nat /\ i \in Nat
        BY <1>1, <3>1
      <4> QED
        BY <1>4, <4>1
    <3> QED
      BY <1>4, <3>1
  <2> QED
    BY <2>1 DEF InOrder
<1>5. Sorted(g)
  BY DEF InOrder
<1> HIDE DEF c, g, Earlier
<1>6. CASE \E m \in DOMAIN L : \E j \in DOMAIN L[m] : Earlier(m, j) /\ L[m][j] = g
  <2>1. ToSet(g) \subseteq ToSet(c)
    BY <1>1, <1>3, <1>6, PosIs
  <2> QED
    BY <1>5, <2>1 DEF c, g
<1>7. CASE ~\E m \in DOMAIN L : \E j \in DOMAIN L[m] : Earlier(m, j) /\ L[m][j] = g
  <2>1. ASSUME NEW f \in ToSet(c), NEW e \in ToSet(g) PROVE Before(f.pos, e.pos)
    <3>1. f \in FrameLine
      BY <1>3, PosIs
    <3>2. PICK m \in DOMAIN L : \E j \in DOMAIN L[m] : Earlier(m, j) /\ f \in ToSet(L[m][j])
      BY <1>3, <3>1
    <3>3. PICK j \in DOMAIN L[m] : Earlier(m, j) /\ f \in ToSet(L[m][j])
      BY <3>2
    <3>4. Wholly(L[m][j], g)
      BY <1>4, <1>7, <3>3
    <3> QED
      BY <3>3, <3>4 DEF Wholly, BeforeAll
  <2> QED
    BY <1>5, <2>1 DEF Wholly, BeforeAll, c, g
<1> QED
  BY <1>6, <1>7

\* The log of groups in order is sorted.
LEMMA LogSorted ==
  ASSUME NEW L \in Lists, InOrder(L)
  PROVE  /\ LogAlong(L) \in Seq(FrameLine) /\ Sorted(LogAlong(L))
         /\ ToSet(LogAlong(L)) = FramesIn(GroupsIn(L))
<1> DEFINE n == Len(L)
           P == {p \in Nat \X Nat : Sorted(Uniq(Up(L, p[1], p[2])))}
<1>1. /\ n \in Nat /\ DOMAIN L = 1 .. n
      /\ \A k \in DOMAIN L : /\ L[k] \in Seq(Seq(FrameLine)) /\ Len(L[k]) \in Nat
                             /\ DOMAIN L[k] = 1 .. Len(L[k])
                             /\ \A i \in DOMAIN L[k] : L[k][i] \in Seq(FrameLine)
  BY ListsAre
<1>2. /\ Below(L, 0) = <<>>
      /\ \A k \in 0 .. n : /\ Below(L, k) \in Seq(FrameLine)
                           /\ \A f \in FrameLine : f \in ToSet(Below(L, k)) <=>
                                \E m \in 1 .. k : \E j \in DOMAIN L[m] : f \in ToSet(L[m][j])
  BY BelowIs
<1>3. Sorted(Uniq(<<>>))
  <2>1. Uniq(<<>>) = <<>>
    <3>1. <<>> \in Seq({0})
      OBVIOUS
    <3> QED
      BY Zenon, <3>1, UniqStep
  <2> QED
    BY <2>1 DEF Sorted
<1>4. 1 \in DOMAIN L => <<1, 0>> \in P
  <2>1. 1 \in DOMAIN L => Up(L, 1, 0) = Below(L, 1 - 1)
    BY UpIs
  <2> QED
    BY <1>2, <1>3, <2>1
<1>5. ASSUME NEW k \in DOMAIN L, NEW i \in DOMAIN L[k], <<k, i - 1>> \in P PROVE <<k, i>> \in P
  <2> DEFINE c == Up(L, k, i - 1)
             g == L[k][i]
  <2>1. k \in Nat /\ i \in Nat /\ i - 1 \in Nat /\ i - 1 \in 0 .. Len(L[k])
    BY <1>1
  <2>2. c \in Seq(FrameLine) /\ g \in Seq(FrameLine) /\ Up(L, k, i) = c \o g
    BY Zenon, <1>1, <2>1, UpIs
  <2>3. Sorted(g) /\ (ToSet(g) \subseteq ToSet(c) \/ Wholly(c, g))
    BY OldOrNew
  <2>4. Sorted(Uniq(c))
    BY <1>5
  <2> HIDE DEF c, g
  <2>5. CASE ToSet(g) \subseteq ToSet(c)
    <3>1. Uniq(c \o g) = Uniq(c)
      BY <2>2, <2>5, UniqOld
    <3> QED
      BY Zenon, <2>1, <2>2, <2>4, <3>1
  <2>6. CASE Wholly(c, g)
    <3>1. Uniq(c \o g) = Uniq(c) \o g
      BY <2>2, <2>3, <2>6, UniqNew
    <3>2. Uniq(c) \in Seq(FrameLine) /\ ToSet(Uniq(c)) = ToSet(c)
      BY <2>2, UniqIs
    <3>3. Wholly(Uniq(c), g)
      BY <2>6, <3>2 DEF Wholly
    <3>4. Sorted(Uniq(c) \o g)
      BY <2>2, <2>3, <2>4, <3>2, <3>3, SortedJoined
    <3> QED
      BY Zenon, <2>1, <2>2, <3>1, <3>4
  <2> QED
    BY <2>3, <2>5, <2>6
<1>6. ASSUME NEW k \in DOMAIN L, k + 1 \in DOMAIN L, <<k, Len(L[k])>> \in P PROVE <<k + 1, 0>> \in P
  <2>1. Up(L, k, Len(L[k])) = Below(L, k) /\ Up(L, k + 1, 0) = Below(L, (k + 1) - 1)
    BY <1>6, UpIs
  <2>a. k \in Nat
    BY <1>1
  <2>2. (k + 1) - 1 = k /\ k + 1 \in Nat
    BY <2>a
  <2> QED
    BY <1>6, <2>1, <2>2
<1> HIDE DEF P
<1>7. \A k \in DOMAIN L : \A i \in 0 .. Len(L[k]) : <<k, i>> \in P
  BY Zenon, <1>4, <1>5, <1>6, ClimbTwice
<1>8. Sorted(LogAlong(L))
  <2>1. CASE n = 0
    BY <1>2, <1>3, <2>1 DEF LogAlong
  <2>2. CASE n # 0
    <3>1. n \in DOMAIN L /\ Len(L[n]) \in 0 .. Len(L[n])
      BY <1>1, <2>2
    <3>2. <<n, Len(L[n])>> \in P
      BY <1>7, <3>1
    <3>3. Up(L, n, Len(L[n])) = Below(L, n)
      BY <3>1, UpIs
    <3> QED
      BY <3>2, <3>3 DEF P, LogAlong
  <2> QED
    BY <2>1, <2>2
<1>9. n \in 0 .. n
  BY <1>1
<1>10. LogAlong(L) \in Seq(FrameLine) /\ ToSet(LogAlong(L)) = ToSet(Below(L, n))
  BY <1>2, <1>9, UniqIs DEF LogAlong
<1>11. ToSet(Below(L, n)) = FramesIn(GroupsIn(L))
  <2>1. ToSet(Below(L, n)) \subseteq FrameLine
    BY <1>2, <1>9, PosIs
  <2>2. \A k \in DOMAIN L : \A i \in DOMAIN L[k] : ToSet(L[k][i]) \subseteq FrameLine
    BY <1>1, PosIs
  <2>3. \A f : f \in FramesIn(GroupsIn(L)) <=> \E k \in DOMAIN L : \E i \in DOMAIN L[k] : f \in ToSet(L[k][i])
    BY GroupsInIs
  <2> QED
    BY Zenon, <1>1, <1>2, <1>9, <2>1, <2>2, <2>3
<1> QED
  BY <1>8, <1>10, <1>11

\* The groups of K are among those of L, at the same places.
Within(K, L) ==
  \A k \in DOMAIN K : \A i \in DOMAIN K[k] : k \in DOMAIN L /\ i \in DOMAIN L[k] /\ K[k][i] = L[k][i]

\* K has, besides, the group g at its end.
Extended(K, L, g) ==
  \A k \in DOMAIN K : \A i \in DOMAIN K[k] :
    \/ k \in DOMAIN L /\ i \in DOMAIN L[k] /\ K[k][i] = L[k][i]
    \/ k = Len(K) /\ i = Len(K[k]) /\ K[k][i] = g

\* Groups that are left of groups in order are in order.
LEMMA OrderWithin ==
  ASSUME NEW K, NEW L, Within(K, L)
  PROVE  GroupsIn(K) \subseteq GroupsIn(L) /\ (InOrder(L) => InOrder(K))
<1>1. GroupsIn(K) \subseteq GroupsIn(L)
  BY GroupsInIs DEF Within
<1>2. InOrder(L) => InOrder(K)
  <2> SUFFICES ASSUME InOrder(L), NEW k \in DOMAIN K, NEW m \in DOMAIN K, NEW i \in DOMAIN K[k], NEW j \in DOMAIN K[m]
               PROVE  /\ K[k][i] # <<>> /\ Sorted(K[k][i])
                      /\ k < m \/ (k = m /\ i < j) => K[k][i] = K[m][j] \/ Wholly(K[k][i], K[m][j])
    BY DEF InOrder
  <2>1. k \in DOMAIN L /\ i \in DOMAIN L[k] /\ K[k][i] = L[k][i]
    BY DEF Within
  <2>2. m \in DOMAIN L /\ j \in DOMAIN L[m] /\ K[m][j] = L[m][j]
    BY DEF Within
  <2> QED
    BY <2>1, <2>2 DEF InOrder
<1> QED
  BY <1>1, <1>2

\* A group that is put behind groups in order, and comes after all others.
LEMMA OrderExtended ==
  ASSUME NEW K \in Lists, NEW L \in Lists, NEW g \in Seq(FrameLine), Extended(K, L, g), InOrder(L),
         g # <<>>, Sorted(g), \A h \in GroupsIn(L) : h = g \/ Wholly(h, g)
  PROVE  GroupsIn(K) \subseteq GroupsIn(L) \cup {g} /\ InOrder(K)
<1>1. GroupsIn(K) \subseteq GroupsIn(L) \cup {g}
  BY GroupsInIs DEF Extended
<1>2. /\ DOMAIN K = 1 .. Len(K) /\ Len(K) \in Nat
      /\ \A k \in DOMAIN K : DOMAIN K[k] = 1 .. Len(K[k]) /\ Len(K[k]) \in Nat
  BY ListsAre
<1>3. ASSUME NEW k \in DOMAIN K, NEW m \in DOMAIN K, NEW i \in DOMAIN K[k], NEW j \in DOMAIN K[m]
      PROVE  /\ K[k][i] # <<>> /\ Sorted(K[k][i])
             /\ k < m \/ (k = m /\ i < j) => K[k][i] = K[m][j] \/ Wholly(K[k][i], K[m][j])
  <2> DEFINE Old(q, p) == q \in DOMAIN L /\ p \in DOMAIN L[q] /\ K[q][p] = L[q][p]
             New(q, p) == q = Len(K) /\ p = Len(K[q]) /\ K[q][p] = g
  <2>1. (Old(k, i) \/ New(k, i)) /\ (Old(m, j) \/ New(m, j))
    BY DEF Extended
  <2>2. K[k][i] # <<>> /\ Sorted(K[k][i])
    BY <2>1 DEF InOrder
  <2>3. CASE Old(k, i) /\ Old(m, j)
    BY <2>2, <2>3 DEF InOrder
  <2>4. CASE Old(k, i) /\ New(m, j)
    <3>1. K[k][i] \in GroupsIn(L)
      BY <2>4, GroupsInIs
    <3> QED
      BY <2>2, <2>4, <3>1
  <2>5. CASE New(k, i)
    <3>1. ~(k < m) /\ (k = m => ~(i < j))
      BY <1>2, <2>5
    <3> QED
      BY <2>2, <3>1
  <2> QED
    BY <2>1, <2>3, <2>4, <2>5
<1> QED
  BY <1>1, <1>3 DEF InOrder

\* The log depends on which groups there are.
LEMMA LogFollows ==
  ASSUME NEW K \in Lists, NEW L \in Lists, InOrder(K), InOrder(L)
  PROVE  /\ GroupsIn(K) = GroupsIn(L) => LogAlong(K) = LogAlong(L)
         /\ \A g \in Seq(FrameLine) :
              /\ GroupsIn(K) = GroupsIn(L) \cup {g} /\ Sorted(g)
              /\ \A h \in GroupsIn(L) : Wholly(h, g)
              => LogAlong(K) = LogAlong(L) \o g
<1> DEFINE l == LogAlong(L)
           m == LogAlong(K)
<1>1. /\ l \in Seq(FrameLine) /\ Sorted(l) /\ ToSet(l) = FramesIn(GroupsIn(L))
      /\ m \in Seq(FrameLine) /\ Sorted(m) /\ ToSet(m) = FramesIn(GroupsIn(K))
  BY LogSorted
<1> HIDE DEF l, m
<1>2. GroupsIn(K) = GroupsIn(L) => m = l
  BY <1>1, SortedSame
<1>3. ASSUME NEW g \in Seq(FrameLine), GroupsIn(K) = GroupsIn(L) \cup {g}, Sorted(g),
             \A h \in GroupsIn(L) : Wholly(h, g)
      PROVE  m = l \o g
  <2>1. ToSet(m) = ToSet(l) \cup ToSet(g)
    BY <1>1, <1>3 DEF FramesIn
  <2>2. Wholly(l, g)
    BY <1>1, <1>3 DEF FramesIn, Wholly, BeforeAll
  <2> QED
    BY Zenon, <1>1, <1>3, <2>1, <2>2, SortedMore
<1> QED
  BY <1>2, <1>3 DEF l, m

-----------------------------------------------------------------------------
(* The groups of what is left of a segment.                                *)

\* The groups of segments.
GroupsOf(T) == [k \in DOMAIN T |-> GroupFrames(T[k]).groups]

\* Each segment has the groups of its lines, and their frames make the log.
LEMMA GroupsOfIs ==
  ASSUME NEW T \in Texts
  PROVE  /\ GroupsOf(T) \in Lists /\ DOMAIN GroupsOf(T) = DOMAIN T /\ Len(GroupsOf(T)) = Len(T)
         /\ \A k \in DOMAIN T : GroupsOf(T)[k] = GroupFrames(T[k]).groups
         /\ LogOf(T) = LogAlong(GroupsOf(T))
         /\ FramesIn(GroupsIn(GroupsOf(T))) = AllFrames(T)
<1> DEFINE D == Seq(Seq(FrameLine))
           K == GroupsOf(T)
<1>1. /\ DOMAIN T = 1 .. Len(T) /\ Len(T) \in Nat
      /\ \A k \in DOMAIN T : T[k] \in Seq(Line)
  BY DEF Texts
<1>2. \A k \in DOMAIN T : GroupFrames(T[k]).groups \in D
  BY <1>1, ReadingOf DEF Reading
<1>3. K \in [1 .. Len(T) -> D] /\ DOMAIN K = DOMAIN T /\ \A k \in DOMAIN T : K[k] = GroupFrames(T[k]).groups
  BY <1>1, <1>2 DEF GroupsOf
<1> HIDE DEF K
<1>4. K \in Lists /\ Len(K) = Len(T)
  <2> HIDE DEF D
  <2>1. K \in Seq(D) /\ Len(K) = Len(T)
    BY <1>1, <1>3
  <2> QED
    BY <2>1 DEF Lists, D
<1>5. LogOf(T) = LogAlong(K)
  <2> DEFINE B == [k \in DOMAIN T |-> Concat(GroupFrames(T[k]).groups)]
             C == [m \in 1 .. Len(K) |-> Concat(K[m])]
  <2>1. LogOf(T) = Along(Once, <<>>, Concat(B))
    BY Zenon DEF LogOf, Along, Once
  <2>2. B = C
    BY <1>1, <1>3, <1>4
  <2>3. LogAlong(K) = Uniq(Concat(C))
    BY DEF LogAlong, Below
  <2> HIDE DEF B, C
  <2> QED
    BY <2>1, <2>2, <2>3 DEF Uniq
<1>6. FramesIn(GroupsIn(K)) = AllFrames(T)
  <2>1. \A k \in DOMAIN T : Frames(T[k]) = {f \in FrameLine : \E i \in DOMAIN K[k] : \E j \in DOMAIN K[k][i] : f = K[k][i][j]}
    BY <1>3 DEF Frames, Closed
  <2>2. \A f : f \in AllFrames(T) <=> \E k \in DOMAIN T : f \in Frames(T[k])
    BY DEF AllFrames
  <2>3. \A k \in DOMAIN K : \A i \in DOMAIN K[k] : K[k][i] \in Seq(FrameLine)
    BY <1>4, ListsAre
  <2>4. \A k \in DOMAIN K : \A i \in DOMAIN K[k] : \A f :
          f \in ToSet(K[k][i]) <=> f \in FrameLine /\ \E j \in DOMAIN K[k][i] : f = K[k][i][j]
    BY <2>3, PosIs
  <2>5. \A f : f \in FramesIn(GroupsIn(K)) <=> \E k \in DOMAIN K : \E i \in DOMAIN K[k] : f \in ToSet(K[k][i])
    BY GroupsInIs
  <2>6. \A f : f \in AllFrames(T) <=> \E k \in DOMAIN K : \E i \in DOMAIN K[k] : f \in FrameLine /\ \E j \in DOMAIN K[k][i] : f = K[k][i][j]
    BY SMTT(30), <1>3, <2>1, <2>2
  <2> QED
    BY <2>4, <2>5, <2>6
<1> QED
  BY <1>3, <1>4, <1>5, <1>6 DEF K

\* The groups g are the first of the groups h.
First(g, h) == \A i \in DOMAIN g : i \in DOMAIN h /\ g[i] = h[i]

\* A line takes no group from those that are closed.
LEMMA StepFirst ==
  ASSUME NEW r \in Reading, NEW l \in Kept
  PROVE  First(r.groups, GroupStep(r, l).groups)
<1>1. r.groups \in Seq(Seq(FrameLine)) /\ r.open \in Seq(FrameLine)
  BY DEF Reading
<1> DEFINE D == Seq(FrameLine)
<1> HIDE DEF D
<1>2. \A i \in DOMAIN r.groups : /\ i \in DOMAIN Append(r.groups, r.open)
                                 /\ Append(r.groups, r.open)[i] = r.groups[i]
  BY <1>1 DEF D
<1>3. GroupStep(r, l).groups \in {r.groups, Append(r.groups, r.open)}
  <2>1. CASE r.bad
    BY <2>1 DEF GroupStep
  <2>2. CASE ~r.bad /\ l.t = "frame"
    BY <2>2 DEF GroupStep, Reading
  <2>3. CASE ~r.bad /\ l.t # "frame"
    BY <2>3 DEF GroupStep, Reading
  <2> QED
    BY <2>1, <2>2, <2>3
<1> QED
  BY <1>2, <1>3 DEF First

\* So what is closed at a line is first at the end.
LEMMA AfterFirst ==
  ASSUME NEW s \in Seq(Kept), NEW j \in 0 .. Len(s)
  PROVE  First(After(s)[j].groups, After(s)[Len(s)].groups)
<1> DEFINE P == {k \in Nat : k >= j => First(After(s)[j].groups, After(s)[k].groups)}
<1>1. Len(s) \in Nat /\ \A k \in 1 .. Len(s) : s[k] \in Kept
  OBVIOUS
<1>2. 0 \in P
  BY <1>1 DEF First
<1>3. ASSUME NEW k \in 1 .. Len(s), k - 1 \in P PROVE k \in P
  <2>1. CASE k <= j
    BY <1>1, <2>1 DEF First
  <2>2. CASE ~(k <= j)
    <3>1. k - 1 >= j /\ k \in Nat
      BY <1>1, <2>2
    <3>2. First(After(s)[j].groups, After(s)[k - 1].groups)
      BY <1>3, <3>1
    <3>3. After(s)[k - 1] \in Reading /\ After(s)[k] = GroupStep(After(s)[k - 1], s[k])
      BY <1>1, AfterIs, AfterType
    <3>4. First(After(s)[k - 1].groups, After(s)[k].groups)
      BY <1>1, <3>3, StepFirst
    <3> QED
      BY <3>1, <3>2, <3>4 DEF First
  <2> QED
    BY <2>1, <2>2
<1> HIDE DEF P
<1>4. \A k \in 0 .. Len(s) : k \in P
  BY Zenon, <1>1, <1>2, <1>3, Climb
<1>5. Len(s) \in P
  BY <1>1, <1>4
<1> QED
  BY <1>1, <1>5 DEF P

\* The lines of t are the first of s, and perhaps a torn one.
Cut(t, s) ==
  \E n \in 0 .. Len(s) : /\ \A k \in 1 .. n : t[k] = s[k]
                         /\ Len(t) = n \/ (Len(t) = n + 1 /\ t[n + 1] = Torn /\ n < Len(s))

\* Only the last line may be torn.
TornLast(s) == \A k \in DOMAIN s : s[k] = Torn => k = Len(s)

\* Of the l lines that are left of m, the first n whole, one at k that is torn is the last.
LEMMA CutEnds ==
  \A n, k, l, m \in Nat :
    k <= l /\ n <= m /\ (l = n \/ (l = n + 1 /\ n < m)) /\ (k <= n => k = m) => k = l
OBVIOUS

\* What is left of a segment has its first groups.
LEMMA GroupsCut ==
  ASSUME NEW s \in Seq(Line), NEW t \in Seq(Line), Cut(t, s)
  PROVE  First(GroupFrames(t).groups, GroupFrames(s).groups) /\ (TornLast(s) => TornLast(t))
<1> DEFINE c == Decoded(t)
           d == Decoded(s)
<1>1. /\ c \in Seq(Kept) /\ Len(c) \in 0 .. Len(t) /\ \A k \in 1 .. Len(c) : c[k] = t[k]
      /\ d \in Seq(Kept) /\ Len(d) \in 0 .. Len(s) /\ \A k \in 1 .. Len(d) : d[k] = s[k]
      /\ Len(d) < Len(s) => s[Len(d) + 1] = Torn
  BY DecodedIs
<1>2. GroupFrames(t) = After(c)[Len(c)] /\ GroupFrames(s) = After(d)[Len(d)]
  BY GroupsAre
<1> HIDE DEF c, d
<1>3. PICK n \in 0 .. Len(s) : /\ \A k \in 1 .. n : t[k] = s[k]
                               /\ Len(t) = n \/ (Len(t) = n + 1 /\ t[n + 1] = Torn /\ n < Len(s))
  BY DEF Cut
<1>4. \A k \in 1 .. Len(c) : c[k] \in Kept /\ c[k] # Torn
  <2>1. \A k \in 1 .. Len(c) : c[k] \in Kept
    BY <1>1
  <2> QED
    BY <2>1, KindsOfLines DEF Kept
<1>5. Len(c) <= n
  <2> SUFFICES ASSUME ~(Len(c) <= n) PROVE FALSE
    OBVIOUS
  <2>1. n + 1 \in 1 .. Len(c) /\ Len(t) = n + 1 /\ t[n + 1] = Torn
    BY <1>1, <1>3
  <2> QED
    BY <1>1, <1>4, <2>1
<1>6. \A k \in 1 .. Len(c) : c[k] = s[k]
  <2>1. \A k \in 1 .. Len(c) : k \in 1 .. n
    BY <1>1, <1>5
  <2> QED
    BY <1>1, <1>3, <2>1
<1>7. Len(c) <= Len(d)
  <2> SUFFICES ASSUME ~(Len(c) <= Len(d)) PROVE FALSE
    OBVIOUS
  <2>1. Len(d) + 1 \in 1 .. Len(c) /\ Len(d) < Len(s)
    BY <1>1, <1>3, <1>5
  <2> QED
    BY <1>1, <1>4, <1>6, <2>1
<1>8. \A k \in 0 .. Len(c) : After(c)[k] = After(d)[k]
  <2>1. Len(c) \in Nat /\ Len(d) \in Nat
    BY <1>1
  <2>2. \A k \in 1 .. Len(c) : k \in 1 .. Len(d)
    BY <1>1, <1>7
  <2>3. \A k \in 1 .. Len(c) : c[k] = d[k]
    BY <1>1, <1>6, <2>2
  <2> QED
    BY <1>7, <2>1, <2>3, AfterSame
<1>9. Len(c) \in 0 .. Len(d) /\ Len(c) \in 0 .. Len(c)
  BY <1>1, <1>7
<1>10. First(After(d)[Len(c)].groups, After(d)[Len(d)].groups)
  BY <1>1, <1>9, AfterFirst
<1>11. TornLast(s) => TornLast(t)
  <2> SUFFICES ASSUME TornLast(s), NEW k \in DOMAIN t, t[k] = Torn PROVE k = Len(t)
    BY DEF TornLast
  <2>1. DOMAIN t = 1 .. Len(t) /\ DOMAIN s = 1 .. Len(s) /\ Len(t) \in Nat /\ Len(s) \in Nat
    OBVIOUS
  <2>2. n \in Nat /\ n <= Len(s) /\ k \in Nat /\ k \in 1 .. Len(t)
    BY <2>1
  <2>3. k <= Len(t)
    BY <2>1, <2>2
  <2>4. ASSUME k <= n PROVE k = Len(s)
    <3>0. k \in 1 .. n
      BY <2>2, <2>4
    <3>1. t[k] = s[k]
      BY <1>3, <3>0
    <3>2. k \in DOMAIN s
      BY <2>1, <2>2, <3>0
    <3> QED
      BY <3>1, <3>2 DEF TornLast
  <2>5. Len(t) = n \/ (Len(t) = n + 1 /\ n < Len(s))
    BY <1>3
  <2> DEFINE l == Len(t)
             m == Len(s)
  <2>6. l \in Nat /\ m \in Nat /\ n \in Nat /\ k \in Nat /\ k <= l /\ n <= m
        /\ (l = n \/ (l = n + 1 /\ n < m)) /\ (k <= n => k = m)
    BY Zenon, <2>1, <2>2, <2>3, <2>4, <2>5
  <2> HIDE DEF l, m
  <2>7. k = l
    BY ONLY <2>6, CutEnds
  <2> QED
    BY <2>7 DEF l
<1> QED
  BY <1>2, <1>8, <1>9, <1>10, <1>11

-----------------------------------------------------------------------------
(* The groups after a write.                                               *)

\* The groups that segments hold durably, and those that are found in them.
DurableGroups(segs) == GroupsOf(Fsynced(segs))
AllGroups(segs) == GroupsOf(Items(segs))
TornLasts(segs) == \A k \in DOMAIN segs : TornLast(segs[k].items)

\* The beginning of a segment is what is left of it.
LEMMA BeginningCut ==
  ASSUME NEW s \in Seq(Line), NEW t \in Seq(Line), Len(s) <= Len(t), \A k \in 1 .. Len(s) : t[k] = s[k]
  PROVE  Cut(s, t)
<1>1. Len(s) \in 0 .. Len(t)
  OBVIOUS
<1> QED
  BY <1>1 DEF Cut

\* What is known of the groups of segments.
LEMMA SegmentGroups ==
  ASSUME NEW segs \in Segments
  PROVE  LET F == DurableGroups(segs)
             I == AllGroups(segs)
         IN  /\ F \in Lists /\ DOMAIN F = DOMAIN segs /\ Len(F) = Len(segs)
             /\ I \in Lists /\ DOMAIN I = DOMAIN segs /\ Len(I) = Len(segs)
             /\ \A k \in DOMAIN segs : /\ I[k] = GroupFrames(segs[k].items).groups
                                       /\ F[k] = GroupFrames(SubSeq(segs[k].items, 1, segs[k].safe)).groups
             /\ Within(F, I)
             /\ LogOf(Fsynced(segs)) = LogAlong(F) /\ LogOf(Items(segs)) = LogAlong(I)
             /\ Held(segs) = FramesIn(GroupsIn(F))
<1> DEFINE F == DurableGroups(segs)
           I == AllGroups(segs)
<1>1. /\ Fsynced(segs) \in Texts /\ DOMAIN Fsynced(segs) = DOMAIN segs
      /\ \A k \in DOMAIN segs : Fsynced(segs)[k] = SubSeq(segs[k].items, 1, segs[k].safe)
  BY FsyncedIs
<1>2. /\ Items(segs) \in Texts /\ DOMAIN Items(segs) = DOMAIN segs
      /\ \A k \in DOMAIN segs : Items(segs)[k] = segs[k].items
  BY ItemsTexts DEF Items
<1>3. /\ F \in Lists /\ DOMAIN F = DOMAIN segs /\ Len(F) = Len(Fsynced(segs))
      /\ \A k \in DOMAIN segs : F[k] = GroupFrames(SubSeq(segs[k].items, 1, segs[k].safe)).groups
      /\ LogOf(Fsynced(segs)) = LogAlong(F) /\ Held(segs) = FramesIn(GroupsIn(F))
  BY Zenon, <1>1, GroupsOfIs DEF DurableGroups, Held
<1>4. /\ I \in Lists /\ DOMAIN I = DOMAIN segs /\ Len(I) = Len(Items(segs))
      /\ \A k \in DOMAIN segs : I[k] = GroupFrames(segs[k].items).groups
      /\ LogOf(Items(segs)) = LogAlong(I)
  BY <1>2, GroupsOfIs DEF AllGroups
<1> HIDE DEF F, I
<1>5. Within(F, I)
  <2> SUFFICES ASSUME NEW k \in DOMAIN segs PROVE First(F[k], I[k])
    BY <1>3, <1>4 DEF Within, First
  <2>1. segs[k].items \in Seq(Line) /\ segs[k].safe \in 0 .. Len(segs[k].items) /\ Len(segs[k].items) \in Nat
    BY SegmentsAre
  <2> DEFINE t == segs[k].items
             n == segs[k].safe
             s == SubSeq(t, 1, n)
  <2> HIDE DEF t, n
  <2>a. t \in Seq(Line) /\ n \in 0 .. Len(t)
    BY <2>1 DEF t, n
  <2>2. s \in Seq(Line) /\ Len(s) = n /\ \A j \in 1 .. n : s[j] = t[j]
    BY <2>a, Prefix
  <2> HIDE DEF s
  <2>3. Len(s) <= Len(t) /\ \A j \in 1 .. Len(s) : t[j] = s[j]
    BY <2>a, <2>2
  <2>4. First(GroupFrames(s).groups, GroupFrames(t).groups)
    BY <2>a, <2>2, <2>3, BeginningCut, GroupsCut
  <2> QED
    BY <1>3, <1>4, <2>4 DEF s, t, n
<1>6. Len(F) = Len(segs) /\ Len(I) = Len(segs)
  <2>1. DOMAIN F = 1 .. Len(F) /\ Len(F) \in Nat /\ DOMAIN I = 1 .. Len(I) /\ Len(I) \in Nat
    BY <1>3, <1>4, ListsAre
  <2>2. DOMAIN segs = 1 .. Len(segs) /\ Len(segs) \in Nat
    BY SegmentsAre
  <2> DEFINE a == Len(F)
             b == Len(I)
             c == Len(segs)
  <2>3. a \in Nat /\ b \in Nat /\ c \in Nat /\ 1 .. a = 1 .. c /\ 1 .. b = 1 .. c
    BY Zenon, <1>3, <1>4, <2>1, <2>2
  <2> HIDE DEF a, b, c
  <2>4. a = c /\ b = c
    BY <2>3
  <2> QED
    BY <2>4 DEF a, b, c
<1> QED
  BY <1>3, <1>4, <1>5, <1>6 DEF F, I

\* Groups between those of a segment and one more.
LEMMA FirstBetween ==
  ASSUME NEW S, NEW g \in Seq(S), NEW x \in S, NEW h \in Seq(S), First(g, h), First(h, Append(g, x))
  PROVE  h = g \/ h = Append(g, x)
<1> DEFINE c == Append(g, x)
<1>1. /\ Len(g) \in Nat /\ Len(h) \in Nat /\ DOMAIN g = 1 .. Len(g) /\ DOMAIN h = 1 .. Len(h)
      /\ c \in Seq(S) /\ Len(c) = Len(g) + 1 /\ DOMAIN c = 1 .. Len(g) + 1
  OBVIOUS
<1> HIDE DEF c
<1>2. /\ \A i \in 1 .. Len(g) : i \in 1 .. Len(h) /\ g[i] = h[i]
      /\ \A i \in 1 .. Len(h) : i \in 1 .. Len(g) + 1 /\ h[i] = c[i]
  BY Zenon, <1>1 DEF First, c
<1>3. Len(g) <= Len(h) /\ Len(h) <= Len(g) + 1
  <2>1. Len(g) # 0 => Len(g) \in 1 .. Len(g)
    BY <1>1
  <2>2. Len(h) # 0 => Len(h) \in 1 .. Len(h)
    BY <1>1
  <2>3. Len(g) # 0 => Len(g) \in 1 .. Len(h)
    BY <1>2, <2>1
  <2>4. Len(h) # 0 => Len(h) \in 1 .. Len(g) + 1
    BY <1>2, <2>2
  <2> QED
    BY <1>1, <2>3, <2>4
<1>4. CASE Len(h) = Len(g)
  <2>1. DOMAIN h = DOMAIN g /\ \A i \in DOMAIN g : h[i] = g[i]
    BY <1>1, <1>2, <1>4
  <2>2. h = g
    BY <1>4, <2>1
  <2> QED
    BY <2>2
<1>5. CASE Len(h) = Len(g) + 1
  <2>1. h = c
    BY <1>1, <1>2, <1>5
  <2> QED
    BY <2>1 DEF c
<1>6. Len(h) = Len(g) \/ Len(h) = Len(g) + 1
  <2> DEFINE a == Len(g)
             b == Len(h)
  <2>1. a \in Nat /\ b \in Nat /\ a <= b /\ b <= a + 1
    BY <1>1, <1>3
  <2> HIDE DEF a, b
  <2>2. b = a \/ b = a + 1
    BY <2>1
  <2> QED
    BY <2>2 DEF a, b
<1> QED
  BY <1>4, <1>5, <1>6

\* What a write leaves is cut somewhere in its lines.
LEMMA PartialCut ==
  ASSUME NEW s \in Seq(Line), NEW g \in Seq(Line), NEW items \in Partial(g)
  PROVE  /\ s \o items \in Seq(Line) /\ Len(s \o items) = Len(s) + Len(items)
         /\ \A j \in 1 .. Len(s) : (s \o items)[j] = s[j]
         /\ Cut(s \o items, s \o g) /\ Cut(s, s \o items)
<1> DEFINE all == s \o g
           t == s \o items
           n == Len(s)
<1>1. items \in Seq(Line) /\ Len(g) \in Nat /\ Len(items) \in Nat /\ n \in Nat
  BY PartialIs
<1>2. \E k \in 0 .. Len(g) : /\ \A j \in 1 .. k : items[j] = g[j]
                             /\ Len(items) = k \/ (Len(items) = k + 1 /\ items[k + 1] = Torn /\ k < Len(g))
  <2>1. CASE \E k \in 0 .. Len(g) : items = SubSeq(g, 1, k)
    <3>1. PICK k \in 0 .. Len(g) : items = SubSeq(g, 1, k)
      BY <2>1
    <3>2. Len(items) = k /\ \A j \in 1 .. k : items[j] = g[j]
      BY <1>1, <3>1, Prefix
    <3> QED
      BY <3>2
  <2>2. CASE \E k \in 0 .. Len(g) - 1 : items = Append(SubSeq(g, 1, k), Torn)
    <3>1. PICK k \in 0 .. Len(g) - 1 : items = Append(SubSeq(g, 1, k), Torn)
      BY <2>2
    <3>2. k \in 0 .. Len(g) /\ k < Len(g) /\ k \in Nat
      BY <1>1
    <3> DEFINE b == SubSeq(g, 1, k)
    <3>3. b \in Seq(Line) /\ Len(b) = k /\ \A j \in 1 .. k : b[j] = g[j]
      BY <1>1, <3>2, Prefix
    <3> HIDE DEF b
    <3>4. Torn \in Line
      BY DEF Line
    <3>5. Len(Append(b, Torn)) = k + 1 /\ Append(b, Torn)[k + 1] = Torn /\ \A j \in 1 .. k : Append(b, Torn)[j] = b[j]
      BY <3>2, <3>3, <3>4
    <3>6. items = Append(b, Torn)
      BY <3>1 DEF b
    <3> QED
      BY Zenon, <3>2, <3>3, <3>5, <3>6
  <2> QED
    BY Zenon, <2>1, <2>2 DEF Partial
<1>3. PICK k \in 0 .. Len(g) : /\ \A j \in 1 .. k : items[j] = g[j]
                               /\ Len(items) = k \/ (Len(items) = k + 1 /\ items[k + 1] = Torn /\ k < Len(g))
  BY <1>2
<1>5. /\ Len(all) = n + Len(g) /\ \A j \in 1 .. n : all[j] = s[j]
      /\ \A j \in 1 .. Len(g) : all[n + j] = g[j]
      /\ t \in Seq(Line) /\ Len(t) = n + Len(items) /\ \A j \in 1 .. n : t[j] = s[j]
      /\ \A j \in 1 .. Len(items) : t[n + j] = items[j]
  BY <1>1
<1> HIDE DEF all, t
<1>6. Cut(t, all)
  <2> DEFINE m == n + k
  <2>1. m \in 0 .. Len(all)
    BY <1>1, <1>5
  <2>2. \A j \in 1 .. m : t[j] = all[j]
    <3>1. ASSUME NEW j \in 1 .. m PROVE t[j] = all[j]
      <4>1. CASE j \in 1 .. n
        BY <1>5, <4>1
      <4>2. CASE j \notin 1 .. n
        <5>1. j - n \in 1 .. k /\ j - n \in 1 .. Len(items) /\ j - n \in 1 .. Len(g) /\ n + (j - n) = j
          BY <1>1, <1>3, <4>2
        <5> QED
          BY ZenonT(40), <1>3, <1>5, <5>1
      <4> QED
        BY <4>1, <4>2
    <3> QED
      BY <3>1
  <2>3. Len(t) = m \/ (Len(t) = m + 1 /\ t[m + 1] = Torn /\ m < Len(all))
    <3>1. CASE Len(items) = k
      BY <1>5, <3>1
    <3>2. CASE Len(items) = k + 1 /\ items[k + 1] = Torn /\ k < Len(g)
      <4>1. k + 1 \in 1 .. Len(items) /\ n + (k + 1) = m + 1
        BY <1>1, <3>2
      <4>2. t[m + 1] = Torn
        BY <1>5, <3>2, <4>1
      <4> QED
        BY <1>1, <1>5, <3>2, <4>2
    <3> QED
      BY <1>3, <3>1, <3>2
  <2> HIDE DEF m
  <2> QED
    BY <2>1, <2>2, <2>3 DEF Cut
<1>7. Cut(s, t)
  <2>1. n <= Len(t)
    BY <1>1, <1>5
  <2> QED
    BY Zenon, <1>5, <2>1, BeginningCut
<1> QED
  BY <1>5, <1>6, <1>7 DEF t, all

\* What a write of a group behind whole groups leaves.
LEMMA GroupsWritten ==
  ASSUME NEW s \in Seq(Line), Clean(s), NEW fr \in Seq(FrameLine), NEW items \in Partial(Group(fr))
  PROVE  /\ s \o items \in Seq(Line) /\ TornLast(s \o items)
         /\ GroupFrames(s \o items).groups \in {GroupFrames(s).groups, Append(GroupFrames(s).groups, fr)}
<1> DEFINE all == s \o Group(fr)
           t == s \o items
<1>4. all \in Seq(Line) /\ Clean(all) /\ GroupFrames(all).groups = Append(GroupFrames(s).groups, fr)
  BY GroupAppended
<1>5. t \in Seq(Line) /\ Cut(t, all) /\ Cut(s, t)
  <2> DEFINE g == Group(fr)
  <2>1. g \in Seq(Line)
    BY GroupIs
  <2> HIDE DEF g
  <2>2. items \in Partial(g)
    BY DEF g
  <2>3. s \o items \in Seq(Line) /\ Cut(s \o items, s \o g) /\ Cut(s, s \o items)
    BY <2>1, <2>2, PartialCut
  <2> QED
    BY <2>3 DEF g
<1> HIDE DEF all, t
<1>8. TornLast(all)
  BY <1>4 DEF Clean, TornLast
<1>9. /\ First(GroupFrames(t).groups, GroupFrames(all).groups) /\ TornLast(t)
      /\ First(GroupFrames(s).groups, GroupFrames(t).groups)
  BY Zenon, <1>4, <1>5, <1>8, GroupsCut
<1>10. GroupFrames(t).groups \in Seq(Seq(FrameLine)) /\ GroupFrames(s).groups \in Seq(Seq(FrameLine))
  BY <1>5, ReadingOf DEF Reading
<1> DEFINE D == Seq(FrameLine)
<1>11. GroupFrames(t).groups \in Seq(D) /\ GroupFrames(s).groups \in Seq(D) /\ fr \in D
  BY <1>10
<1> HIDE DEF D
<1>12. GroupFrames(t).groups \in {GroupFrames(s).groups, Append(GroupFrames(s).groups, fr)}
  BY <1>4, <1>9, <1>11, FirstBetween
<1> QED
  BY <1>5, <1>9, <1>12 DEF t

\* An empty segment has no groups.
LEMMA EmptyGroups == GroupFrames(<<>>).groups = <<>>
<1> DEFINE s == <<>>
<1>1. s \in Seq(Line) /\ Len(s) = 0
  OBVIOUS
<1> HIDE DEF s
<1>2. Decoded(s) \in Seq(Kept) /\ Len(Decoded(s)) = 0
  <2>1. Decoded(s) \in Seq(Kept) /\ Len(Decoded(s)) \in 0 .. Len(s)
    BY Zenon, <1>1, DecodedIs
  <2> QED
    BY <1>1, <2>1
<1>3. GroupFrames(s) = Start
  BY <1>2, GroupsAre, AfterIs
<1> QED
  BY <1>3 DEF Start, s

\* A new segment has no groups.
LEMMA NewGroups ==
  ASSUME NEW segs \in Segments, NEW e \in Nat
  PROVE  LET new == NewSegment(segs, e)
         IN  /\ GroupsIn(DurableGroups(new)) = GroupsIn(DurableGroups(segs))
             /\ GroupsIn(AllGroups(new)) = GroupsIn(AllGroups(segs))
             /\ InOrder(AllGroups(segs)) => InOrder(AllGroups(new))
             /\ TornLasts(segs) => TornLasts(new)
<1> DEFINE n == Len(segs)
           s == [epoch |-> e, items |-> <<>>, safe |-> 0]
           new == NewSegment(segs, e)
           F == DurableGroups(segs)
           I == AllGroups(segs)
           G == DurableGroups(new)
           J == AllGroups(new)
<1>1. /\ segs \in Seq(Segment) /\ n \in Nat /\ DOMAIN segs = 1 .. n
      /\ new \in Segments /\ s.items = <<>> /\ s.safe = 0 /\ s \in Segment
  BY Zenon, SegmentsAre, NewSegmentIs DEF Segment
<1>2. DOMAIN new = 1 .. n + 1 /\ new[n + 1] = s /\ \A k \in 1 .. n : new[k] = segs[k]
  <2> HIDE DEF s
  <2>1. new = Append(segs, s)
    BY DEF NewSegment, s
  <2> HIDE DEF new
  <2> QED
    BY <1>1, <2>1
<1> HIDE DEF new, s
<1>3. /\ DOMAIN F = 1 .. n /\ DOMAIN I = 1 .. n /\ DOMAIN G = 1 .. n + 1 /\ DOMAIN J = 1 .. n + 1
      /\ \A k \in 1 .. n : /\ I[k] = GroupFrames(segs[k].items).groups
                           /\ F[k] = GroupFrames(SubSeq(segs[k].items, 1, segs[k].safe)).groups
      /\ \A k \in 1 .. n + 1 : /\ J[k] = GroupFrames(new[k].items).groups
                               /\ G[k] = GroupFrames(SubSeq(new[k].items, 1, new[k].safe)).groups
  BY <1>1, <1>2, SegmentGroups
<1> HIDE DEF F, G, I, J
<1>4. \A k \in 1 .. n : k \in 1 .. n + 1
  BY <1>1
<1>5. \A k \in 1 .. n + 1 : k \in 1 .. n \/ k = n + 1
  BY <1>1
<1>6. \A k \in 1 .. n : J[k] = I[k] /\ G[k] = F[k]
  BY <1>2, <1>3, <1>4
<1>7. n + 1 \in 1 .. n + 1
  BY <1>1
<1>8. J[n + 1] = <<>> /\ G[n + 1] = <<>>
  <2>1. SubSeq(<<>>, 1, 0) = <<>>
    OBVIOUS
  <2>2. new[n + 1].items = <<>> /\ new[n + 1].safe = 0
    BY <1>1, <1>2
  <2>3. /\ J[n + 1] = GroupFrames(new[n + 1].items).groups
        /\ G[n + 1] = GroupFrames(SubSeq(new[n + 1].items, 1, new[n + 1].safe)).groups
    BY <1>3, <1>7
  <2> QED
    BY Zenon, <2>1, <2>2, <2>3, EmptyGroups
<1>9. DOMAIN J[n + 1] = {} /\ DOMAIN G[n + 1] = {}
  <2>1. DOMAIN <<>> = {}
    OBVIOUS
  <2> QED
    BY <1>8, <2>1
<1>10. Within(J, I) /\ Within(I, J) /\ Within(G, F) /\ Within(F, G)
  BY <1>3, <1>4, <1>5, <1>6, <1>9 DEF Within
<1>11. TornLasts(segs) => TornLasts(new)
  <2>1. TornLast(s.items)
    <3>1. DOMAIN <<>> = {}
      OBVIOUS
    <3> QED
      BY <1>1, <3>1 DEF TornLast
  <2> QED
    BY <1>1, <1>2, <1>5, <2>1 DEF TornLasts
<1>12. GroupsIn(G) = GroupsIn(F) /\ GroupsIn(J) = GroupsIn(I) /\ (InOrder(I) => InOrder(J))
  <2>1. GroupsIn(G) \subseteq GroupsIn(F) /\ GroupsIn(F) \subseteq GroupsIn(G)
    BY <1>10, OrderWithin
  <2>2. GroupsIn(J) \subseteq GroupsIn(I) /\ GroupsIn(I) \subseteq GroupsIn(J)
    BY <1>10, OrderWithin
  <2>3. InOrder(I) => InOrder(J)
    BY <1>10, OrderWithin
  <2> QED
    BY Zenon, <2>1, <2>2, <2>3
<1> QED
  BY <1>11, <1>12 DEF F, G, I, J, new

\* The segments with more lines in the last one, of which some are safe.
Lengthened(segs, items, safe) ==
  [segs EXCEPT ![Len(segs)] =
     [epoch |-> segs[Len(segs)].epoch, items |-> segs[Len(segs)].items \o items, safe |-> safe]]

\* The groups after a write of a group to the last segment.
LEMMA WrittenGroups ==
  ASSUME NEW segs \in Segments, segs # <<>>, Clean(Last(segs).items), NEW fr \in Seq(FrameLine),
         NEW items \in Partial(Group(fr)), NEW new \in Segments, NEW safe,
         new = Lengthened(segs, items, safe), segs[Len(segs)].safe <= safe
  PROVE  /\ Extended(AllGroups(new), AllGroups(segs), fr) /\ Within(AllGroups(segs), AllGroups(new))
         /\ Within(DurableGroups(segs), DurableGroups(new))
         /\ safe = segs[Len(segs)].safe => DurableGroups(new) = DurableGroups(segs)
         /\ GroupFrames(segs[Len(segs)].items \o items).groups
              = Append(GroupFrames(segs[Len(segs)].items).groups, fr)
            /\ safe = Len(segs[Len(segs)].items \o items)
              => fr \in GroupsIn(DurableGroups(new))
         /\ TornLasts(segs) => TornLasts(new)
<1> DEFINE n == Len(segs)
           old == segs[n].items
           all == old \o items
           s == [epoch |-> segs[n].epoch, items |-> all, safe |-> safe]
           F == DurableGroups(segs)
           I == AllGroups(segs)
           G == DurableGroups(new)
           J == AllGroups(new)
<1>1. /\ n \in Nat /\ DOMAIN segs = 1 .. n /\ n \in 1 .. n /\ old = Last(segs).items
      /\ \A k \in 1 .. n : /\ segs[k].items \in Seq(Line) /\ Len(segs[k].items) \in Nat
                           /\ segs[k].safe \in 0 .. Len(segs[k].items)
  BY SegmentsAre
<1>2. /\ all \in Seq(Line) /\ TornLast(all)
      /\ GroupFrames(all).groups \in {GroupFrames(old).groups, Append(GroupFrames(old).groups, fr)}
  BY <1>1, GroupsWritten
<1>3. /\ DOMAIN new = 1 .. n /\ new[n] = s /\ \A k \in 1 .. n : k # n => new[k] = segs[k]
      /\ s.items = all /\ s.safe = safe
  <2> HIDE DEF s
  <2>1. new = [segs EXCEPT ![n] = s]
    BY DEF s, Lengthened
  <2>2. s.items = all /\ s.safe = safe
    BY DEF s
  <2> QED
    BY Zenon, <1>1, <2>1, <2>2
<1> HIDE DEF s, n, all, old
<1>4. /\ DOMAIN F = 1 .. n /\ DOMAIN I = 1 .. n /\ DOMAIN G = 1 .. n /\ DOMAIN J = 1 .. n
      /\ \A k \in 1 .. n : /\ I[k] = GroupFrames(segs[k].items).groups
                           /\ F[k] = GroupFrames(SubSeq(segs[k].items, 1, segs[k].safe)).groups
      /\ \A k \in 1 .. n : /\ J[k] = GroupFrames(new[k].items).groups
                           /\ G[k] = GroupFrames(SubSeq(new[k].items, 1, new[k].safe)).groups
      /\ F \in Lists /\ I \in Lists /\ G \in Lists /\ J \in Lists /\ Len(J) = n
  <2>1. /\ DOMAIN F = 1 .. n /\ DOMAIN I = 1 .. n /\ F \in Lists /\ I \in Lists
        /\ \A k \in 1 .. n : /\ I[k] = GroupFrames(segs[k].items).groups
                             /\ F[k] = GroupFrames(SubSeq(segs[k].items, 1, segs[k].safe)).groups
    BY <1>1, SegmentGroups
  <2>2. /\ DOMAIN G = 1 .. n /\ DOMAIN J = 1 .. n /\ G \in Lists /\ J \in Lists
        /\ \A k \in 1 .. n : /\ J[k] = GroupFrames(new[k].items).groups
                             /\ G[k] = GroupFrames(SubSeq(new[k].items, 1, new[k].safe)).groups
    BY Zenon, <1>3, SegmentGroups
  <2>3. Len(J) = n
    <3>1. Len(J) = Len(new)
      BY SegmentGroups
    <3>2. Len(new) = n
      BY DEF n, Lengthened
    <3> QED
      BY <3>1, <3>2
  <2> QED
    BY <2>1, <2>2, <2>3
<1> HIDE DEF F, G, I, J
<1>5. \A k \in 1 .. n : k # n => J[k] = I[k] /\ G[k] = F[k]
  <2> SUFFICES ASSUME NEW k \in 1 .. n, k # n PROVE J[k] = I[k] /\ G[k] = F[k]
    OBVIOUS
  <2>1. new[k] = segs[k]
    BY <1>3
  <2> QED
    BY <1>4, <2>1
<1>6. J[n] = GroupFrames(all).groups /\ I[n] = GroupFrames(old).groups
  BY <1>1, <1>3, <1>4 DEF old
<1>7. /\ I[n] \in Seq(Seq(FrameLine)) /\ DOMAIN I[n] = 1 .. Len(I[n]) /\ Len(I[n]) \in Nat
  BY <1>1, <1>4, ListsAre
<1> DEFINE D == Seq(FrameLine)
           h == I[n]
<1>8. LET c == Append(h, fr) IN
      /\ DOMAIN c = 1 .. Len(h) + 1 /\ Len(c) = Len(h) + 1 /\ c[Len(h) + 1] = fr
      /\ \A i \in 1 .. Len(h) : c[i] = h[i]
  <2>1. h \in Seq(D) /\ fr \in D
    BY <1>7
  <2> HIDE DEF D, h
  <2> QED
    BY <2>1
<1>9. /\ \A i \in DOMAIN J[n] : (i \in DOMAIN I[n] /\ J[n][i] = I[n][i]) \/ (i = Len(J[n]) /\ J[n][i] = fr)
      /\ \A i \in DOMAIN I[n] : i \in DOMAIN J[n] /\ J[n][i] = I[n][i]
  <2>1. CASE J[n] = I[n]
    BY <2>1
  <2>2. CASE J[n] = Append(h, fr)
    <3>1. \A i \in 1 .. Len(h) + 1 : i \in 1 .. Len(h) \/ i = Len(h) + 1
      BY <1>7
    <3>2. \A i \in 1 .. Len(h) : i \in 1 .. Len(h) + 1
      BY <1>7
    <3> QED
      BY <1>7, <1>8, <2>2, <3>1, <3>2
  <2> QED
    BY <1>2, <1>6, <2>1, <2>2
<1> HIDE DEF h, D
<1>10. Extended(J, I, fr)
  <2> SUFFICES ASSUME NEW k \in 1 .. n, NEW i \in DOMAIN J[k]
               PROVE  \/ k \in 1 .. n /\ i \in DOMAIN I[k] /\ J[k][i] = I[k][i]
                      \/ k = n /\ i = Len(J[k]) /\ J[k][i] = fr
    BY <1>4 DEF Extended
  <2> QED
    BY <1>5, <1>9
<1>11. Within(I, J)
  BY <1>4, <1>5, <1>9 DEF Within
<1>12. First(F[n], G[n]) /\ (safe = segs[n].safe => F[n] = G[n])
  <2> DEFINE p == segs[n].safe
             a == SubSeq(old, 1, p)
             b == SubSeq(all, 1, safe)
  <2>1. F[n] = GroupFrames(a).groups /\ G[n] = GroupFrames(b).groups
    BY <1>1, <1>3, <1>4 DEF old
  <2>2. p \in 0 .. Len(old) /\ old \in Seq(Line) /\ Len(old) \in Nat /\ p \in Nat
    BY <1>1 DEF old
  <2>3. safe \in 0 .. Len(all) /\ p <= safe
    <3>1. new[n].safe \in 0 .. Len(new[n].items)
      BY <1>1, <1>3, SegmentsAre
    <3> QED
      BY <1>3, <3>1 DEF n
  <2>4. \A j \in 1 .. Len(old) : all[j] = old[j]
    <3>1. items \in Seq(Line)
      BY GroupIs, PartialIs
    <3> QED
      BY <2>2, <3>1, Joined DEF all
  <2>5. a \in Seq(Line) /\ Len(a) = p /\ \A j \in 1 .. p : a[j] = old[j]
    BY <2>2, Prefix
  <2>6. b \in Seq(Line) /\ Len(b) = safe /\ \A j \in 1 .. safe : b[j] = all[j]
    BY <1>2, <2>3, Prefix
  <2> HIDE DEF a, b, p
  <2>7. \A j \in 1 .. p : j \in 1 .. Len(old) /\ j \in 1 .. safe
    BY <2>2, <2>3
  <2>8. Len(a) <= Len(b) /\ \A j \in 1 .. Len(a) : b[j] = a[j]
    BY Zenon, <2>3, <2>4, <2>5, <2>6, <2>7
  <2>9. First(GroupFrames(a).groups, GroupFrames(b).groups)
    BY <2>5, <2>6, <2>8, BeginningCut, GroupsCut
  <2>10. safe = p => a = b
    BY <2>5, <2>6, <2>8
  <2> QED
    BY <2>1, <2>9, <2>10 DEF p
<1>13. Within(F, G)
  BY <1>4, <1>5, <1>12 DEF Within, First
<1>14. safe = segs[n].safe => G = F
  <2> SUFFICES ASSUME safe = segs[n].safe PROVE G = F
    OBVIOUS
  <2>1. \A k \in 1 .. n : G[k] = F[k]
    BY <1>5, <1>12
  <2>2. DOMAIN G = DOMAIN F /\ Len(G) = Len(F) /\ Len(G) \in Nat /\ DOMAIN G = 1 .. Len(G) /\ DOMAIN F = 1 .. Len(F)
    <3>1. Len(G) = Len(new) /\ Len(F) = Len(segs)
      BY SegmentGroups DEF F, G
    <3> QED
      BY <1>4, <3>1, ListsAre
  <2>3. G = [k \in DOMAIN Fsynced(new) |-> GroupFrames(Fsynced(new)[k]).groups]
        /\ F = [k \in DOMAIN Fsynced(segs) |-> GroupFrames(Fsynced(segs)[k]).groups]
    BY DEF G, F, DurableGroups, GroupsOf
  <2> QED
    <3> HIDE DEF G, F
    <3>1. G = [k \in DOMAIN G |-> G[k]] /\ F = [k \in DOMAIN F |-> F[k]]
      BY <2>3
    <3>2. \A k \in DOMAIN G : k \in 1 .. n
      BY <1>4, <2>2
    <3> QED
      BY <2>1, <2>2, <3>1, <3>2
<1>15. GroupFrames(all).groups = Append(GroupFrames(old).groups, fr) /\ safe = Len(all) => fr \in GroupsIn(G)
  <2> SUFFICES ASSUME GroupFrames(all).groups = Append(GroupFrames(old).groups, fr), safe = Len(all)
               PROVE  fr \in GroupsIn(G)
    OBVIOUS
  <2>1. SubSeq(all, 1, safe) = all
    BY <1>2
  <2>a. new[n].items = all /\ new[n].safe = safe
    BY <1>3
  <2>b. G[n] = GroupFrames(SubSeq(new[n].items, 1, new[n].safe)).groups
    BY <1>1, <1>4
  <2>c. G[n] = Append(GroupFrames(old).groups, fr)
    BY Zenon, <2>1, <2>a, <2>b
  <2>2. G[n] = Append(h, fr)
    BY <1>6, <2>c DEF h
  <2>3. Len(h) + 1 \in 1 .. Len(h) + 1
    BY <1>7 DEF h
  <2>4. Len(h) + 1 \in DOMAIN G[n] /\ G[n][Len(h) + 1] = fr
    BY <1>8, <2>2, <2>3
  <2> QED
    BY Zenon, <1>1, <1>4, <2>4, GroupsInIs
<1>16. TornLasts(segs) => TornLasts(new)
  BY Zenon, <1>1, <1>2, <1>3 DEF TornLasts
<1> QED
  BY <1>10, <1>11, <1>13, <1>14, <1>15, <1>16 DEF F, G, I, J, n, old, all

-----------------------------------------------------------------------------
(* Groups that are durable, and groups that are found.                     *)

\* The groups that are durable, and those that a recovery would find.
HeldGroups(segs) == GroupsIn(DurableGroups(segs))
FoundGroups(segs) == GroupsIn(AllGroups(segs))

\* A group that is written and fsynced is held, and so is all that was found.
LEMMA MergedGroups ==
  ASSUME NEW segs \in Segments, segs # <<>>, Clean(Last(segs).items), NEW fr \in Seq(FrameLine),
         InOrder(AllGroups(segs)), TornLasts(segs), fr # <<>>, Sorted(fr),
         \A h \in FoundGroups(segs) : /\ h = fr \/ Wholly(h, fr)
                                      /\ h = fr \/ h \in HeldGroups(segs)
  PROVE  LET new == Synced(segs, Group(fr))
         IN  /\ InOrder(AllGroups(new)) /\ TornLasts(new) /\ new \in Segments
             /\ HeldGroups(new) = FoundGroups(segs) \cup {fr}
             /\ FoundGroups(new) = FoundGroups(segs) \cup {fr}
<1> DEFINE items == Group(fr)
           safe == Len(segs[Len(segs)].items \o items)
           new == Lengthened(segs, items, safe)
<1>1. Synced(segs, items) = new
  BY Zenon DEF Synced, Lengthened
<1>2. items \in Seq(Line) /\ Len(items) \in Nat /\ items \in Partial(items)
  <2>1. items \in Seq(Line)
    BY GroupIs
  <2> HIDE DEF items
  <2>2. Len(items) \in 0 .. Len(items) /\ items = SubSeq(items, 1, Len(items))
    BY <2>1
  <2>3. items \in {SubSeq(items, 1, k) : k \in 0 .. Len(items)}
    BY Zenon, <2>2
  <2> QED
    BY <2>1, <2>3 DEF Partial
<1>3. Synced(segs, items) \in Segments
  BY <1>2, SyncedIs
<1>4. /\ segs[Len(segs)].items \in Seq(Line) /\ Len(segs) \in DOMAIN segs /\ Last(segs) = segs[Len(segs)]
      /\ segs[Len(segs)].safe \in 0 .. Len(segs[Len(segs)].items)
      /\ Len(segs[Len(segs)].items) \in Nat
  BY SegmentsAre
<1>5. segs[Len(segs)].safe <= safe
  <2>1. Len(segs[Len(segs)].items \o items) = Len(segs[Len(segs)].items) + Len(items)
    BY <1>2, <1>4, Joined
  <2> QED
    BY <1>2, <1>4, <2>1
<1>6. GroupFrames(segs[Len(segs)].items \o items).groups = Append(GroupFrames(segs[Len(segs)].items).groups, fr)
  BY <1>4, GroupAppended
<1>7. new \in Segments /\ items \in Partial(Group(fr))
  BY <1>1, <1>2, <1>3
<1> HIDE DEF items
<1> HIDE DEF safe
<1>8. /\ Extended(AllGroups(new), AllGroups(segs), fr) /\ Within(AllGroups(segs), AllGroups(new))
      /\ Within(DurableGroups(segs), DurableGroups(new))
      /\ fr \in GroupsIn(DurableGroups(new))
      /\ TornLasts(new)
  <2>1. safe = Len(segs[Len(segs)].items \o items)
    BY DEF safe
  <2> QED
    BY <1>5, <1>6, <1>7, <2>1, WrittenGroups
<1> HIDE DEF new
<1>9. AllGroups(new) \in Lists /\ AllGroups(segs) \in Lists /\ Within(DurableGroups(new), AllGroups(new))
  BY <1>7, SegmentGroups
<1>10. InOrder(AllGroups(new)) /\ FoundGroups(new) \subseteq FoundGroups(segs) \cup {fr}
  <2>1. \A h \in GroupsIn(AllGroups(segs)) : h = fr \/ Wholly(h, fr)
    BY DEF FoundGroups
  <2> QED
    BY <1>8, <1>9, <2>1, OrderExtended DEF FoundGroups
<1>11. /\ FoundGroups(segs) \subseteq FoundGroups(new) /\ HeldGroups(segs) \subseteq HeldGroups(new)
       /\ HeldGroups(new) \subseteq FoundGroups(new) /\ fr \in HeldGroups(new)
  BY <1>8, <1>9, OrderWithin DEF FoundGroups, HeldGroups
<1> QED
  BY <1>1, <1>7, <1>8, <1>10, <1>11 DEF items

\* A group whose write fails may be found; nothing more is held.
LEMMA FailedGroups ==
  ASSUME NEW segs \in Segments, segs # <<>>, Clean(Last(segs).items), NEW fr \in Seq(FrameLine),
         NEW items \in Partial(Group(fr)),
         InOrder(AllGroups(segs)), TornLasts(segs), fr # <<>>, Sorted(fr),
         \A h \in FoundGroups(segs) : h = fr \/ Wholly(h, fr)
  PROVE  LET new == Unsynced(segs, items)
         IN  /\ InOrder(AllGroups(new)) /\ TornLasts(new) /\ new \in Segments
             /\ DurableGroups(new) = DurableGroups(segs)
             /\ FoundGroups(segs) \subseteq FoundGroups(new)
             /\ FoundGroups(new) \subseteq FoundGroups(segs) \cup {fr}
<1> DEFINE n == Len(segs)
           safe == segs[n].safe
           new == Lengthened(segs, items, safe)
<1>2. items \in Seq(Line)
  BY GroupIs, PartialIs
<1>4. /\ segs[n] \in Segment /\ segs[n].items \in Seq(Line) /\ n \in DOMAIN segs /\ Last(segs) = segs[n]
      /\ segs[n].safe \in 0 .. Len(segs[n].items)
      /\ Len(segs[n].items) \in Nat
  BY SegmentsAre
<1>1. Unsynced(segs, items) = new
  <2> DEFINE all == segs[n].items \o items
  <2>1. [segs[n] EXCEPT !.items = all] = [epoch |-> segs[n].epoch, items |-> all, safe |-> segs[n].safe]
    <3> HIDE DEF all
    <3> QED
      BY <1>4, SegmentWith
  <2>2. Unsynced(segs, items) = [segs EXCEPT ![n] = [segs[n] EXCEPT !.items = all]]
    BY Zenon DEF Unsynced
  <2> QED
    BY Zenon, <2>1, <2>2 DEF Lengthened
<1>3. new \in Segments
  BY <1>1, <1>2, UnsyncedIs
<1>5. segs[n].safe <= safe /\ safe = segs[n].safe
  BY <1>4
<1>8. /\ Extended(AllGroups(new), AllGroups(segs), fr) /\ Within(AllGroups(segs), AllGroups(new))
      /\ DurableGroups(new) = DurableGroups(segs) /\ TornLasts(new)
  <2> HIDE DEF safe
  <2> QED
    BY <1>3, <1>5, WrittenGroups
<1> HIDE DEF new
<1>9. AllGroups(new) \in Lists /\ AllGroups(segs) \in Lists
  BY <1>3, SegmentGroups
<1>10. InOrder(AllGroups(new)) /\ FoundGroups(new) \subseteq FoundGroups(segs) \cup {fr}
  <2>1. \A h \in GroupsIn(AllGroups(segs)) : h = fr \/ Wholly(h, fr)
    BY DEF FoundGroups
  <2> QED
    BY <1>8, <1>9, <2>1, OrderExtended DEF FoundGroups
<1>11. FoundGroups(segs) \subseteq FoundGroups(new)
  BY <1>8, OrderWithin DEF FoundGroups
<1> QED
  BY <1>1, <1>3, <1>8, <1>10, <1>11

\* A segment that is fsynced to its end is left as it is by one more fsync.
LEMMA SyncedNothing ==
  ASSUME NEW segs \in Segments, segs # <<>>, Last(segs).safe = Len(Last(segs).items)
  PROVE  Synced(segs, <<>>) = segs
<1> DEFINE n == Len(segs)
           all == segs[n].items \o <<>>
           s == [epoch |-> segs[n].epoch, items |-> all, safe |-> Len(all)]
<1>1. /\ segs[n] \in Segment /\ segs[n].items \in Seq(Line) /\ n \in DOMAIN segs /\ Last(segs) = segs[n]
  BY SegmentsAre
<1>2. Synced(segs, <<>>) = [segs EXCEPT ![n] = s]
  BY Zenon DEF Synced
<1>3. all = segs[n].items
  BY <1>1
<1>4. s = segs[n]
  <2> HIDE DEF all
  <2> QED
    BY <1>1, <1>3 DEF Segment
<1> HIDE DEF s
<1>5. segs \in Seq(Segment)
  BY DEF Segments
<1> QED
  BY <1>1, <1>2, <1>4, <1>5

-----------------------------------------------------------------------------
(* The groups after a loss of power.                                       *)

\* What a loss of power leaves of a segment.
LEMMA LeftOver ==
  ASSUME NEW s \in Seq(Line), NEW n \in 0 .. Len(s), NEW t \in Partial(SubSeq(s, n + 1, Len(s)))
  PROVE  LET left == SubSeq(s, 1, n) \o t
         IN  /\ left \in Seq(Line) /\ Len(left) = n + Len(t) /\ Len(t) \in Nat
             /\ Cut(left, s) /\ Cut(SubSeq(s, 1, n), left)
<1> DEFINE head == SubSeq(s, 1, n)
           rest == SubSeq(s, n + 1, Len(s))
<1>1. head \in Seq(Line) /\ Len(head) = n
  BY Prefix
<1>2. rest \in Seq(Line)
  OBVIOUS
<1>3. head \o rest = s
  <2>1. /\ 1 \in 1 .. Len(s) + 1 /\ n \in 1 - 1 .. Len(s) /\ Len(s) \in n .. Len(s)
    OBVIOUS
  <2>2. head \o rest = SubSeq(s, 1, Len(s))
    BY Zenon, <2>1, ConcatAdjacentSubSeq
  <2> QED
    BY Zenon, <2>2, Prefix
<1>4. t \in Partial(rest)
  OBVIOUS
<1> HIDE DEF head, rest
<1>5. /\ head \o t \in Seq(Line) /\ Len(head \o t) = Len(head) + Len(t)
      /\ Cut(head \o t, head \o rest) /\ Cut(head, head \o t)
  BY Zenon, <1>1, <1>2, <1>4, PartialCut
<1>6. Len(t) \in Nat
  <2>1. t \in Seq(Line)
    BY <1>2, <1>4, PartialIs
  <2> QED
    BY <2>1
<1> QED
  BY Zenon, <1>1, <1>3, <1>5, <1>6 DEF head

\* After a loss of power all that is left is durable.
LEMMA PowerLossLeaves ==
  ASSUME Stored, PowerLoss
  PROVE  /\ Len(segments') = Len(segments) /\ segments' \in Segments
         /\ log' = LogOf(Fsynced(segments'))
         /\ \A k \in DOMAIN segments :
              /\ segments'[k].safe = Len(segments'[k].items)
              /\ Cut(segments'[k].items, segments[k].items)
              /\ Cut(SubSeq(segments[k].items, 1, segments[k].safe), segments'[k].items)
<1> DEFINE exposed == {k \in DOMAIN segments : segments[k].safe < Len(segments[k].items)}
<1>1. PICK tail \in [exposed -> UNION {Tails(segments[k]) : k \in exposed}] :
        /\ \A k \in exposed : tail[k] \in Tails(segments[k])
        /\ Durable([k \in DOMAIN segments |->
             IF k \in exposed
             THEN [epoch |-> segments[k].epoch,
                   items |-> SubSeq(segments[k].items, 1, segments[k].safe) \o tail[k],
                   safe |-> segments[k].safe + Len(tail[k])]
             ELSE segments[k]])
  BY Zenon DEF PowerLoss
<1> DEFINE left(k) == SubSeq(segments[k].items, 1, segments[k].safe) \o tail[k]
           part(k) == IF k \in exposed
                      THEN [epoch |-> segments[k].epoch, items |-> left(k), safe |-> segments[k].safe + Len(tail[k])]
                      ELSE segments[k]
           new == [k \in DOMAIN segments |-> part(k)]
<1>2. segments' = new /\ log' = LogOf(Fsynced(segments'))
  BY <1>1 DEF Durable
<1>3. \A k \in DOMAIN segments :
        /\ segments[k].items \in Seq(Line) /\ Len(segments[k].items) \in Nat
        /\ segments[k].safe \in 0 .. Len(segments[k].items)
  BY SegmentsAre DEF Stored
<1>4. ASSUME NEW k \in DOMAIN segments
      PROVE  /\ part(k).safe = Len(part(k).items) /\ Cut(part(k).items, segments[k].items)
             /\ Cut(SubSeq(segments[k].items, 1, segments[k].safe), part(k).items)
  <2> DEFINE s == segments[k].items
             n == segments[k].safe
  <2>1. s \in Seq(Line) /\ Len(s) \in Nat /\ n \in 0 .. Len(s)
    BY <1>3
  <2>2. CASE k \notin exposed
    <3>1. part(k) = segments[k]
      BY <2>2
    <3>2. n = Len(s)
      BY <2>1, <2>2
    <3> HIDE DEF s, n, part
    <3>3. Cut(s, s) /\ SubSeq(s, 1, n) = s
      BY <2>1, <3>2, Prefix, BeginningCut
    <3> QED
      BY Zenon, <3>1, <3>2, <3>3 DEF s, n
  <2>3. CASE k \in exposed
    <3> DEFINE t == tail[k]
               m == n + Len(t)
    <3>1. t \in Partial(SubSeq(s, n + 1, Len(s)))
      BY <1>1, <2>3 DEF Tails
    <3>2. part(k).items = SubSeq(s, 1, n) \o t /\ part(k).safe = m
      BY Zenon, <2>3
    <3> HIDE DEF s, n, t, part
    <3>3. LET e == SubSeq(s, 1, n) \o t
          IN  /\ e \in Seq(Line) /\ Len(e) = n + Len(t) /\ Len(t) \in Nat
              /\ Cut(e, s) /\ Cut(SubSeq(s, 1, n), e)
      BY <2>1, <3>1, LeftOver
    <3> QED
      BY <3>2, <3>3 DEF s, n
  <2> QED
    BY Zenon, <2>2, <2>3
<1>5. segments' \in Segments /\ Len(segments') = Len(segments)
  BY PowerLossFiles DEF FilesKept
<1>6. \A k \in DOMAIN segments : segments'[k] = part(k)
  BY <1>2
<1> HIDE DEF part
<1> QED
  BY <1>2, <1>4, <1>5, <1>6

\* A loss of power leaves all groups that were held, and finds no others than were found.
LEMMA PowerLossGroups ==
  ASSUME Stored, PowerLoss, InOrder(AllGroups(segments)), TornLasts(segments)
  PROVE  /\ InOrder(AllGroups(segments')) /\ TornLasts(segments') /\ segments' \in Segments
         /\ log' = LogOf(Fsynced(segments'))
         /\ HeldGroups(segments) \subseteq HeldGroups(segments')
         /\ HeldGroups(segments') = FoundGroups(segments')
         /\ FoundGroups(segments') \subseteq FoundGroups(segments)
<1> DEFINE new == segments'
           F == DurableGroups(segments)
           I == AllGroups(segments)
           G == DurableGroups(new)
           J == AllGroups(new)
           n == Len(segments)
<1>1. /\ Len(new) = n /\ new \in Segments /\ segments \in Segments /\ log' = LogOf(Fsynced(new))
      /\ \A k \in DOMAIN segments :
           /\ new[k].safe = Len(new[k].items) /\ Cut(new[k].items, segments[k].items)
           /\ Cut(SubSeq(segments[k].items, 1, segments[k].safe), new[k].items)
  BY PowerLossLeaves DEF Stored
<1> HIDE DEF new
<1>2. /\ DOMAIN segments = 1 .. n /\ DOMAIN new = 1 .. n
      /\ \A k \in 1 .. n : /\ segments[k].items \in Seq(Line) /\ segments[k].safe \in 0 .. Len(segments[k].items)
                           /\ new[k].items \in Seq(Line)
  BY <1>1, SegmentsAre
<1>3. /\ DOMAIN F = 1 .. n /\ DOMAIN I = 1 .. n /\ DOMAIN G = 1 .. n /\ DOMAIN J = 1 .. n
      /\ \A k \in 1 .. n : /\ I[k] = GroupFrames(segments[k].items).groups
                           /\ F[k] = GroupFrames(SubSeq(segments[k].items, 1, segments[k].safe)).groups
                           /\ J[k] = GroupFrames(new[k].items).groups
                           /\ G[k] = GroupFrames(SubSeq(new[k].items, 1, new[k].safe)).groups
  <2>1. /\ DOMAIN F = 1 .. n /\ DOMAIN I = 1 .. n
        /\ \A k \in 1 .. n : /\ I[k] = GroupFrames(segments[k].items).groups
                             /\ F[k] = GroupFrames(SubSeq(segments[k].items, 1, segments[k].safe)).groups
    BY <1>1, <1>2, SegmentGroups
  <2>2. /\ DOMAIN G = 1 .. n /\ DOMAIN J = 1 .. n
        /\ \A k \in 1 .. n : /\ J[k] = GroupFrames(new[k].items).groups
                             /\ G[k] = GroupFrames(SubSeq(new[k].items, 1, new[k].safe)).groups
    BY <1>1, <1>2, SegmentGroups
  <2> QED
    BY <2>1, <2>2
<1> HIDE DEF F, I, G, J, n
<1>4. \A k \in 1 .. n : G[k] = J[k]
  <2> SUFFICES ASSUME NEW k \in 1 .. n PROVE G[k] = J[k]
    OBVIOUS
  <2>1. SubSeq(new[k].items, 1, new[k].safe) = new[k].items
    BY <1>1, <1>2, Prefix
  <2> QED
    BY Zenon, <1>3, <2>1
<1>5. ASSUME NEW k \in 1 .. n
      PROVE  /\ First(J[k], I[k]) /\ First(F[k], J[k])
             /\ TornLast(segments[k].items) => TornLast(new[k].items)
  <2> DEFINE s == segments[k].items
             t == new[k].items
             h == SubSeq(s, 1, segments[k].safe)
  <2>1. s \in Seq(Line) /\ t \in Seq(Line) /\ Cut(t, s) /\ Cut(h, t) /\ h \in Seq(Line)
    BY Zenon, <1>1, <1>2, Prefix
  <2>2. I[k] = GroupFrames(s).groups /\ J[k] = GroupFrames(t).groups /\ F[k] = GroupFrames(h).groups
    BY <1>3
  <2> HIDE DEF s, t, h
  <2>3. /\ First(GroupFrames(t).groups, GroupFrames(s).groups) /\ (TornLast(s) => TornLast(t))
        /\ First(GroupFrames(h).groups, GroupFrames(t).groups)
    BY <2>1, GroupsCut
  <2> QED
    BY <2>2, <2>3 DEF s, t
<1>6. Within(J, I) /\ Within(F, J)
  BY <1>3, <1>5 DEF Within, First
<1>7. GroupsIn(F) \subseteq GroupsIn(J) /\ GroupsIn(J) \subseteq GroupsIn(I) /\ (InOrder(I) => InOrder(J))
  BY <1>6, OrderWithin
<1>8. GroupsIn(G) = GroupsIn(J)
  BY <1>3, <1>4 DEF GroupsIn
<1>9. TornLasts(new)
  BY <1>2, <1>5 DEF TornLasts
<1> QED
  BY <1>1, <1>7, <1>8, <1>9 DEF HeldGroups, FoundGroups, F, I, G, J, new

-----------------------------------------------------------------------------
(* The replay, segment by segment, and the last group.                     *)

\* The beginnings of a sequence.
LEMMA Beginnings ==
  ASSUME NEW S, NEW s \in Seq(S)
  PROVE  /\ Len(s) \in Nat /\ SubSeq(s, 1, 0) = <<>> /\ SubSeq(s, 1, Len(s)) = s
         /\ \A k \in 0 .. Len(s) : SubSeq(s, 1, k) \in Seq(S)
         /\ \A k \in 1 .. Len(s) : /\ SubSeq(s, 1, k) = Append(SubSeq(s, 1, k - 1), s[k])
                                   /\ s[k] \in S /\ SubSeq(s, 1, k - 1) \in Seq(S)
<1>1. /\ Len(s) \in Nat /\ SubSeq(s, 1, 0) = <<>> /\ SubSeq(s, 1, Len(s)) = s
      /\ \A k \in 0 .. Len(s) : SubSeq(s, 1, k) \in Seq(S)
  OBVIOUS
<1>2. \A k \in 1 .. Len(s) : k \in DOMAIN s
  OBVIOUS
<1> QED
  BY <1>1, <1>2, LongerBeginning

\* The replay of frames leaves the last group, and a fault.
LEMMA FramesReplayed ==
  ASSUME NEW r \in Replaying, NEW s \in Seq(FrameLine)
  PROVE  LET q == Along(ReplayFrame, r, s)
         IN  q \in Replaying /\ q.last = r.last /\ q.from = r.from /\ (r.fault => q.fault)
<1> DEFINE n == Len(s)
           R(k) == Along(ReplayFrame, r, SubSeq(s, 1, k))
           P == {k \in Nat : k <= n => /\ R(k) \in Replaying /\ R(k).last = r.last /\ R(k).from = r.from
                                       /\ (r.fault => R(k).fault)}
<1>1. /\ n \in Nat /\ SubSeq(s, 1, 0) = <<>> /\ SubSeq(s, 1, n) = s
      /\ \A k \in 1 .. n : /\ SubSeq(s, 1, k) = Append(SubSeq(s, 1, k - 1), s[k])
                           /\ s[k] \in FrameLine /\ SubSeq(s, 1, k - 1) \in Seq(FrameLine)
  BY Beginnings
<1>2. R(0) = r
  <2>1. R(0) = Along(ReplayFrame, r, <<>>)
    BY Zenon, <1>1
  <2>2. <<>> \in Seq(Nat) /\ 0 \in Nat
    OBVIOUS
  <2> QED
    BY Zenon, <2>1, <2>2, AlongFrames
<1>3. \A k \in 1 .. n : R(k) = ReplayFrame(R(k - 1), s[k])
  <2> SUFFICES ASSUME NEW k \in 1 .. n PROVE R(k) = ReplayFrame(R(k - 1), s[k])
    BY Zenon
  <2> DEFINE b == SubSeq(s, 1, k - 1)
  <2>1. b \in Seq(FrameLine) /\ s[k] \in FrameLine /\ SubSeq(s, 1, k) = Append(b, s[k])
    BY <1>1
  <2> HIDE DEF b
  <2>2. Along(ReplayFrame, r, Append(b, s[k])) = ReplayFrame(Along(ReplayFrame, r, b), s[k])
    BY ZenonT(40), <2>1, AlongFrames
  <2> QED
    BY Zenon, <2>1, <2>2 DEF b
<1> HIDE DEF R
<1>4. 0 \in P
  BY <1>2
<1>5. ASSUME NEW k \in 1 .. n, k - 1 \in P PROVE k \in P
  <2> DEFINE q == R(k - 1)
  <2>1. k \in Nat /\ k - 1 \in Nat /\ k - 1 <= n
    BY <1>1
  <2>2. q \in Replaying /\ q.last = r.last /\ q.from = r.from /\ (r.fault => q.fault)
    BY <1>5, <2>1
  <2>3. R(k) = ReplayFrame(q, s[k]) /\ s[k] \in FrameLine
    BY <1>1, <1>3
  <2> HIDE DEF q
  <2>4. ReplayFrame(q, s[k]) \in Replaying
    BY <2>2, <2>3, ReplayFrameType
  <2>5. /\ ReplayFrame(q, s[k]).last = q.last /\ ReplayFrame(q, s[k]).from = q.from
        /\ (q.fault => ReplayFrame(q, s[k]).fault)
    BY <2>2 DEF ReplayFrame, Replaying
  <2> QED
    BY <2>1, <2>2, <2>3, <2>4, <2>5
<1> HIDE DEF P
<1>6. n \in P /\ n <= n
  <2>1. \A k \in 0 .. n : k \in P
    BY Zenon, <1>1, <1>4, <1>5, Climb
  <2> QED
    BY <1>1, <2>1
<1>7. R(n) = Along(ReplayFrame, r, s)
  BY Zenon, <1>1 DEF R
<1> QED
  BY <1>6, <1>7 DEF P

\* The replay of a segment.
LEMMA SegmentReplayed ==
  ASSUME NEW r \in Replaying, NEW s \in Seq(Line)
  PROVE  LET g == GroupFrames(s).groups
             q == Along(ReplayFrame, r, Concat(g))
             w == ReplaySegment(r, s)
         IN  /\ w \in Replaying /\ g \in Seq(Seq(FrameLine)) /\ (r.fault \/ Corrupt(s) => w.fault)
             /\ ~r.fault /\ ~Corrupt(s) =>
                  /\ w.hot = q.hot /\ w.from = q.from /\ w.seen = q.seen /\ w.fresh = q.fresh /\ w.fault = q.fault
                  /\ w.last = IF g = <<>> THEN r.last ELSE Last(g)
<1> DEFINE gr == GroupFrames(s)
           q == Along(ReplayFrame, r, Concat(gr.groups))
           w == ReplaySegment(r, s)
<1>1. w \in Replaying
  BY ReplaySegmentType
<1>2. w = IF r.fault \/ Corrupt(s) THEN [r EXCEPT !.fault = TRUE]
          ELSE [q EXCEPT !.unapplied = @ \cup Txns(gr.open),
                         !.last = IF gr.groups = <<>> THEN @ ELSE Last(gr.groups)]
  BY Zenon DEF ReplaySegment
<1>3. q \in Replaying /\ q.last = r.last
  <2> DEFINE all == Concat(gr.groups)
  <2>1. all \in Seq(FrameLine)
    BY GroupsConcat
  <2> HIDE DEF all
  <2>2. LET z == Along(ReplayFrame, r, all)
        IN  z \in Replaying /\ z.last = r.last /\ z.from = r.from /\ (r.fault => z.fault)
    BY <2>1, FramesReplayed
  <2> QED
    BY <2>2 DEF all
<1>4. gr.groups \in Seq(Seq(FrameLine))
  BY ReadingOf DEF Reading
<1> HIDE DEF gr, q, w
<1>5. [r EXCEPT !.fault = TRUE].fault
  BY DEF Replaying
<1> DEFINE l == IF gr.groups = <<>> THEN q.last ELSE Last(gr.groups)
           u == q.unapplied \cup Txns(gr.open)
<1>6. ~r.fault /\ ~Corrupt(s) => w = [q EXCEPT !.unapplied = u, !.last = l]
  BY <1>2
<1> HIDE DEF u, l
<1>7. LET z == [q EXCEPT !.unapplied = u, !.last = l]
      IN  z.hot = q.hot /\ z.from = q.from /\ z.seen = q.seen /\ z.fresh = q.fresh /\ z.fault = q.fault /\ z.last = l
  BY <1>3 DEF Replaying
<1>8. l = IF gr.groups = <<>> THEN r.last ELSE Last(gr.groups)
  BY <1>3 DEF l
<1> QED
  BY Zenon, <1>1, <1>2, <1>4, <1>5, <1>6, <1>7, <1>8 DEF gr, q, w

\* The replay of the first k segments.
ReplayTo(hot, from, T, k) ==
  Along(ReplaySegment,
        [hot |-> hot, from |-> from, seen |-> {}, fresh |-> {},
         unapplied |-> {}, last |-> <<>>, fault |-> FALSE],
        SubSeq(T, 1, k))

\* One segment at a time.
LEMMA ReplayBySteps ==
  ASSUME NEW hot \in Records, NEW from \in Nat \X Nat, NEW T \in Texts
  PROVE  /\ ReplayTo(hot, from, T, Len(T)) = Replay(hot, from, T)
         /\ ReplayTo(hot, from, T, 0) =
              [hot |-> hot, from |-> from, seen |-> {}, fresh |-> {},
               unapplied |-> {}, last |-> <<>>, fault |-> FALSE]
         /\ \A k \in 0 .. Len(T) : ReplayTo(hot, from, T, k) \in Replaying
         /\ \A k \in 1 .. Len(T) :
              /\ T[k] \in Seq(Line)
              /\ ReplayTo(hot, from, T, k) = ReplaySegment(ReplayTo(hot, from, T, k - 1), T[k])
<1> DEFINE n == Len(T)
           r == [hot |-> hot, from |-> from, seen |-> {}, fresh |-> {},
                 unapplied |-> {}, last |-> <<>>, fault |-> FALSE]
           R(k) == ReplayTo(hot, from, T, k)
           D == Seq(Line)
<1>1. T \in Seq(D)
  BY DEF Texts
<1> HIDE DEF D
<1>2. /\ n \in Nat /\ SubSeq(T, 1, 0) = <<>> /\ SubSeq(T, 1, n) = T
      /\ \A k \in 1 .. n : /\ SubSeq(T, 1, k) = Append(SubSeq(T, 1, k - 1), T[k])
                           /\ T[k] \in D /\ SubSeq(T, 1, k - 1) \in Seq(D)
  BY <1>1, Beginnings
<1>3. R(n) = Replay(hot, from, T)
  BY <1>2, Zenon DEF ReplayTo, Replay
<1>4. R(0) = r
  <2>1. R(0) = Along(ReplaySegment, r, <<>>)
    BY Zenon, <1>2 DEF ReplayTo
  <2> HIDE DEF r, R
  <2>2. <<>> \in Seq(Nat) /\ 0 \in Nat
    OBVIOUS
  <2> QED
    BY Zenon, <2>1, <2>2, AlongSegments
<1> HIDE DEF r
<1>5. \A k \in 1 .. n : R(k) = ReplaySegment(R(k - 1), T[k])
  <2> SUFFICES ASSUME NEW k \in 1 .. n PROVE R(k) = ReplaySegment(R(k - 1), T[k])
    OBVIOUS
  <2> DEFINE b == SubSeq(T, 1, k - 1)
  <2>1. b \in Seq(D) /\ T[k] \in D /\ SubSeq(T, 1, k) = Append(b, T[k])
    BY <1>2
  <2>2. R(k) = Along(ReplaySegment, r, SubSeq(T, 1, k)) /\ R(k - 1) = Along(ReplaySegment, r, b)
    BY DEF ReplayTo, r
  <2> HIDE DEF b, R
  <2>3. Along(ReplaySegment, r, Append(b, T[k])) = ReplaySegment(Along(ReplaySegment, r, b), T[k])
    BY ZenonT(40), <2>1, AlongSegments
  <2> QED
    BY Zenon, <2>1, <2>2, <2>3
<1> HIDE DEF R
<1>6. r \in Replaying
  BY DEF r, Replaying
<1> DEFINE P == {k \in Nat : k <= n => R(k) \in Replaying}
<1>7. 0 \in P
  BY <1>4, <1>6
<1>8. ASSUME NEW k \in 1 .. n, k - 1 \in P PROVE k \in P
  <2>1. k \in Nat /\ k - 1 \in Nat /\ k - 1 <= n
    BY <1>2
  <2>2. R(k - 1) \in Replaying /\ T[k] \in Seq(Line)
    BY <1>2, <1>8, <2>1 DEF D
  <2>3. ReplaySegment(R(k - 1), T[k]) \in Replaying
    BY <2>2, ReplaySegmentType
  <2> QED
    BY <1>5, <2>1, <2>3
<1> HIDE DEF P
<1>9. \A k \in 0 .. n : k \in P
  BY Zenon, <1>2, <1>7, <1>8, Climb
<1>10. \A k \in 0 .. n : R(k) \in Replaying
  BY <1>2, <1>9 DEF P
<1> QED
  BY <1>2, <1>3, <1>4, <1>5, <1>10 DEF R, r, D

\* What recover copies is the last of the groups that it finds.
LEMMA LastFound ==
  ASSUME NEW hot \in Records, NEW from \in Nat \X Nat, NEW T \in Texts, InOrder(GroupsOf(T)),
         ~Replay(hot, from, T).fault
  PROVE  LET last == Replay(hot, from, T).last
             found == GroupsIn(GroupsOf(T))
         IN  /\ last \in Seq(FrameLine)
             /\ last = <<>> => found = {}
             /\ last # <<>> => last \in found /\ \A g \in found : g = last \/ Wholly(g, last)
<1> DEFINE n == Len(T)
           L == GroupsOf(T)
           R(k) == ReplayTo(hot, from, T, k)
           Bare(k) == R(k).last = <<>> /\ \A m \in 1 .. k : DOMAIN L[m] = {}
           Ended(k) == /\ R(k).last # <<>> /\ \E m \in 1 .. k : \E i \in DOMAIN L[m] : R(k).last = L[m][i]
                      /\ \A m \in 1 .. k : \A i \in DOMAIN L[m] : L[m][i] = R(k).last \/ Wholly(L[m][i], R(k).last)
           P == {k \in Nat : k <= n => R(k).fault \/ Bare(k) \/ Ended(k)}
<1>1. /\ L \in Lists /\ DOMAIN L = 1 .. n /\ n \in Nat
      /\ \A k \in 1 .. n : L[k] = GroupFrames(T[k]).groups
  <2>1. n \in Nat /\ DOMAIN T = 1 .. n
    BY DEF Texts
  <2> QED
    BY <2>1, GroupsOfIs
<1>2. /\ R(n) = Replay(hot, from, T) /\ R(0).last = <<>>
      /\ \A k \in 0 .. n : R(k) \in Replaying
      /\ \A k \in 1 .. n : T[k] \in Seq(Line) /\ R(k) = ReplaySegment(R(k - 1), T[k])
  BY ReplayBySteps
<1>3. InOrder(L)
  OBVIOUS
<1> HIDE DEF L, R, Bare, Ended
<1>4. 0 \in P
  <2>1. Bare(0)
    BY <1>2 DEF Bare
  <2> QED
    BY <2>1
<1>5. ASSUME NEW k \in 1 .. n, k - 1 \in P PROVE k \in P
  <2> DEFINE r == R(k - 1)
             w == R(k)
             G == L[k]
  <2>1. k \in Nat /\ k - 1 \in Nat /\ k - 1 <= n /\ k - 1 \in 0 .. n /\ k \in 1 .. k
    BY <1>1
  <2>2. r.fault \/ Bare(k - 1) \/ Ended(k - 1)
    BY <1>5, <2>1
  <2>3. /\ w.fault \/ (~r.fault /\ w.last = IF G = <<>> THEN r.last ELSE Last(G))
        /\ G \in Seq(Seq(FrameLine))
    <3>1. r \in Replaying /\ T[k] \in Seq(Line) /\ w = ReplaySegment(r, T[k]) /\ G = GroupFrames(T[k]).groups
      BY <1>1, <1>2, <2>1
    <3> HIDE DEF r, w, G
    <3> QED
      BY <3>1, SegmentReplayed
  <2> HIDE DEF r, w, G
  <2> SUFFICES ASSUME ~w.fault PROVE Bare(k) \/ Ended(k)
    BY <2>1 DEF P, w
  <2>4. \A m \in 1 .. k : m \in 1 .. k - 1 \/ m = k
    BY <2>1
  <2>5. \A m \in 1 .. k - 1 : m \in 1 .. k
    BY <2>1
  <2>6. CASE G = <<>>
    <3>1. w.last = r.last /\ DOMAIN G = {} /\ ~r.fault
      BY <2>3, <2>6
    <3>2. CASE Bare(k - 1)
      BY <2>4, <3>1, <3>2 DEF Bare, r, w, G
    <3>3. CASE Ended(k - 1)
      BY <2>4, <2>5, <3>1, <3>3 DEF Ended, r, w, G
    <3> QED
      BY <2>2, <3>1, <3>2, <3>3
  <2>7. CASE G # <<>>
    <3> DEFINE b == Len(G)
    <3>1. b \in DOMAIN G /\ DOMAIN G = 1 .. b /\ b \in Nat /\ w.last = G[b]
      <4>1. b \in 1 .. b /\ DOMAIN G = 1 .. b /\ b \in Nat
        BY <2>3, <2>7
      <4> QED
        BY <2>3, <2>7, <4>1 DEF Last
    <3> HIDE DEF b
    <3>2. k \in DOMAIN L
      BY <1>1
    <3>3. G[b] # <<>>
      BY <1>3, <3>1, <3>2 DEF InOrder, G
    <3>4. ASSUME NEW m \in 1 .. k, NEW i \in DOMAIN L[m] PROVE L[m][i] = G[b] \/ Wholly(L[m][i], G[b])
      <4>1. m \in DOMAIN L /\ (m < k \/ m = k)
        BY <1>1, <2>1
      <4>2. CASE m < k
        BY <1>3, <3>1, <3>2, <4>1, <4>2 DEF InOrder, G
      <4>3. CASE m = k /\ i # b
        <5>1. i < b
          BY <3>1, <4>3 DEF G
        <5> QED
          BY <1>3, <3>1, <3>2, <4>1, <4>3, <5>1 DEF InOrder, G
      <4>4. CASE m = k /\ i = b
        BY <4>4 DEF G
      <4> QED
        BY <4>1, <4>2, <4>3, <4>4
    <3>5. \E m \in 1 .. k : \E i \in DOMAIN L[m] : G[b] = L[m][i]
      BY <2>1, <3>1 DEF G
    <3>6. R(k).last = G[b]
      BY <3>1 DEF w
    <3> HIDE DEF G
    <3>7. Ended(k)
      BY <3>3, <3>4, <3>5, <3>6 DEF Ended
    <3> QED
      BY <3>7
  <2> QED
    BY <2>6, <2>7
<1> HIDE DEF P
<1>6. n \in P
  <2>1. \A k \in 0 .. n : k \in P
    BY Zenon, <1>1, <1>4, <1>5, Climb
  <2> QED
    BY <1>1, <2>1
<1>7. ~R(n).fault /\ n <= n /\ R(n) \in Replaying
  BY <1>1, <1>2
<1>8. Bare(n) \/ Ended(n)
  BY <1>6, <1>7 DEF P
<1>9. \A g : g \in GroupsIn(L) <=> \E k \in 1 .. n : \E i \in DOMAIN L[k] : g = L[k][i]
  BY <1>1, GroupsInIs
<1>10. R(n).last \in Seq(FrameLine)
  BY <1>7 DEF Replaying
<1>11. R(n).last = <<>> => GroupsIn(L) = {}
  BY <1>8, <1>9 DEF Bare, Ended
<1>12. R(n).last # <<>> => R(n).last \in GroupsIn(L) /\ \A g \in GroupsIn(L) : g = R(n).last \/ Wholly(g, R(n).last)
  BY <1>8, <1>9 DEF Bare, Ended
<1> QED
  BY <1>2, <1>10, <1>11, <1>12 DEF L

\* Groups wholly before each other have frames in no order.
LEMMA NotBoth ==
  ASSUME NEW g \in Seq(FrameLine), NEW h \in Seq(FrameLine), g # <<>>, h # <<>>, Wholly(g, h)
  PROVE  ~Wholly(h, g) /\ g # h
<1>1. g[1] \in ToSet(g) /\ h[1] \in ToSet(h) /\ g[1].pos \in Nat \X Nat /\ h[1].pos \in Nat \X Nat
  <2>1. 1 \in DOMAIN g /\ 1 \in DOMAIN h
    OBVIOUS
  <2> QED
    BY <2>1, PosIs
<1>2. Before(g[1].pos, h[1].pos)
  BY <1>1 DEF Wholly, BeforeAll
<1>3. ~Before(h[1].pos, g[1].pos)
  BY <1>1, <1>2, BeforeOrder
<1>4. ~Wholly(h, g)
  BY <1>1, <1>3 DEF Wholly, BeforeAll
<1> QED
  BY <1>4

-----------------------------------------------------------------------------
(* The order of the files, and the logs that follow from it.               *)

\* The groups of the files are in order; at most one that is found is not durable, and it is the last.
FilesInOrder(segs) ==
  /\ TornLasts(segs) /\ InOrder(AllGroups(segs))
  /\ \A g, h \in FoundGroups(segs) : g \in HeldGroups(segs) \/ h \in HeldGroups(segs) \/ g = h
  /\ \A g \in FoundGroups(segs) : g \in HeldGroups(segs) \/ \A h \in HeldGroups(segs) : Wholly(h, g)

\* The position of the last frame that the owner has committed.
Here == <<own.epoch, own.committed>>

Ordered ==
  /\ FilesInOrder(segments)
  /\ log = LogOf(Fsynced(segments))
  /\ \A f \in FramesIn(FoundGroups(segments)) : f.pos[1] <= manifest.epoch
  /\ manifest.ckpt[1] <= manifest.epoch

\* What the owner writes next comes after all that is durable and after the checkpoint, and what
\* is found and not durable is the group that it writes again.
Writing ==
  own.state = "available" =>
    /\ own.epoch = manifest.epoch
    /\ own.next = own.committed + Len(own.frames) + 1
    /\ \A k \in DOMAIN own.frames : own.frames[k].pos = <<own.epoch, own.committed + k>>
    /\ \A f \in FramesIn(HeldGroups(segments)) : ~Before(Here, f.pos)
    /\ \A g \in FoundGroups(segments) : g \in HeldGroups(segments) \/ (own.retry /\ g = own.frames)
    /\ ~Before(Here, manifest.ckpt)

\* The groups that are found are groups of frames, and those that are held are among them.
LEMMA GroupsFound ==
  ASSUME NEW segs \in Segments
  PROVE  /\ HeldGroups(segs) \subseteq FoundGroups(segs)
         /\ \A g \in FoundGroups(segs) : g \in Seq(FrameLine)
         /\ InOrder(AllGroups(segs)) => \A g \in FoundGroups(segs) : g # <<>> /\ Sorted(g)
<1>1. Within(DurableGroups(segs), AllGroups(segs)) /\ AllGroups(segs) \in Lists
  BY SegmentGroups
<1> DEFINE I == AllGroups(segs)
<1>2. \A g : g \in GroupsIn(I) <=> \E k \in DOMAIN I : \E i \in DOMAIN I[k] : g = I[k][i]
  BY GroupsInIs
<1> HIDE DEF I
<1>3. \A k \in DOMAIN I : \A i \in DOMAIN I[k] : I[k][i] \in Seq(FrameLine)
  BY <1>1, ListsAre DEF I
<1>4. InOrder(I) => \A k \in DOMAIN I : \A i \in DOMAIN I[k] : I[k][i] # <<>> /\ Sorted(I[k][i])
  BY DEF InOrder
<1>5. HeldGroups(segs) \subseteq FoundGroups(segs)
  BY <1>1, OrderWithin DEF HeldGroups, FoundGroups
<1> QED
  BY <1>2, <1>3, <1>4, <1>5 DEF FoundGroups, I

\* The frames of groups.
LEMMA FramesInIs ==
  ASSUME NEW G
  PROVE  /\ \A f : f \in FramesIn(G) <=> \E g \in G : f \in ToSet(g)
BY DEF FramesIn

\* The open group of the owner is in order, and behind all others.
LEMMA OwnGroup ==
  ASSUME Sound, Ordered, Writing, own.state = "available"
  PROVE  /\ own.frames \in Seq(FrameLine) /\ Sorted(own.frames)
         /\ \A h \in HeldGroups(segments) : Wholly(h, own.frames)
         /\ \A h \in FoundGroups(segments) : h = own.frames \/ h \in HeldGroups(segments)
         /\ \A f \in ToSet(own.frames) : /\ f.pos[1] = manifest.epoch /\ Before(manifest.ckpt, f.pos)
<1> DEFINE fr == own.frames
           e == own.epoch
           c == own.committed
<1>1. fr \in Seq(FrameLine) /\ e \in Nat /\ c \in Nat /\ e = manifest.epoch
  BY DEF Sound, Owned, Owner, Writing
<1>2. \A k \in DOMAIN fr : fr[k].pos = <<e, c + k>>
  BY DEF Writing
<1>3. Here = <<e, c>> /\ Here \in Nat \X Nat
  BY <1>1 DEF Here
<1>4. manifest.ckpt \in Nat \X Nat /\ ~Before(Here, manifest.ckpt)
  BY DEF Sound, Stored, Manifest, Writing
<1>5. \A f \in FramesIn(HeldGroups(segments)) : ~Before(Here, f.pos)
  BY DEF Writing
<1>6. \A h \in FoundGroups(segments) : h = fr \/ h \in HeldGroups(segments)
  BY DEF Writing
<1>7. segments \in Segments
  BY DEF Sound, Stored
<1> HIDE DEF fr, e, c
<1>8. \A k \in DOMAIN fr : k \in Nat /\ k > 0 /\ <<e, c + k>> \in Nat \X Nat
  BY <1>1
<1>9. Sorted(fr)
  <2> SUFFICES ASSUME NEW x \in DOMAIN fr, NEW y \in DOMAIN fr, x < y PROVE Before(fr[x].pos, fr[y].pos)
    BY DEF Sorted
  <2>1. c + x < c + y
    BY <1>1, <1>8
  <2> QED
    BY <1>2, <2>1 DEF Before
<1>10. ASSUME NEW q \in Nat \X Nat, ~Before(Here, q), NEW f \in ToSet(fr) PROVE Before(q, f.pos)
  <2>1. PICK k \in DOMAIN fr : f = fr[k]
    BY <1>1, PosIs
  <2>2. f.pos = <<e, c + k>> /\ c + k > c /\ f.pos \in Nat \X Nat
    <3>1. f.pos = <<e, c + k>> /\ k \in Nat /\ k > 0 /\ <<e, c + k>> \in Nat \X Nat
      BY <1>2, <1>8, <2>1
    <3>2. c + k > c
      BY <1>1, <3>1
    <3> QED
      BY <3>1, <3>2
  <2>3. Before(Here, f.pos)
    BY <1>3, <2>2 DEF Before
  <2>4. Before(q, Here) \/ q = Here
    BY <1>3, <1>10, BeforeOrder
  <2> QED
    BY <1>3, <2>2, <2>3, <2>4, BeforeOrder
<1>11. ASSUME NEW h \in HeldGroups(segments) PROVE Wholly(h, fr)
  <2> SUFFICES ASSUME NEW x \in ToSet(h), NEW f \in ToSet(fr) PROVE Before(x.pos, f.pos)
    BY DEF Wholly, BeforeAll
  <2>1. h \in Seq(FrameLine)
    BY <1>7, GroupsFound
  <2>2. x.pos \in Nat \X Nat
    BY <2>1, PosIs
  <2>3. ~Before(Here, x.pos)
    BY <1>5, FramesInIs
  <2> QED
    BY <1>10, <2>2, <2>3
<1>12. ASSUME NEW f \in ToSet(fr) PROVE f.pos[1] = manifest.epoch /\ Before(manifest.ckpt, f.pos)
  <2>1. PICK k \in DOMAIN fr : f = fr[k]
    BY <1>1, PosIs
  <2>2. f.pos[1] = manifest.epoch
    BY <1>1, <1>2, <2>1
  <2> QED
    BY <1>4, <1>10, <2>2
<1> QED
  BY <1>1, <1>6, <1>9, <1>11, <1>12 DEF fr

\* The log of the groups that are found.
Full(segs) == LogOf(Items(segs))

\* The two logs: of what is durable and of what is found.
LEMMA LogsAre ==
  ASSUME NEW segs \in Segments, InOrder(AllGroups(segs))
  PROVE  /\ InOrder(DurableGroups(segs))
         /\ LogOf(Fsynced(segs)) = LogAlong(DurableGroups(segs)) /\ Full(segs) = LogAlong(AllGroups(segs))
         /\ Full(segs) \in Seq(FrameLine) /\ Sorted(Full(segs)) /\ ToSet(Full(segs)) = FramesIn(FoundGroups(segs))
         /\ LET l == LogOf(Fsynced(segs))
            IN  l \in Seq(FrameLine) /\ Sorted(l) /\ ToSet(l) = FramesIn(HeldGroups(segs))
<1>1. /\ DurableGroups(segs) \in Lists /\ AllGroups(segs) \in Lists
      /\ Within(DurableGroups(segs), AllGroups(segs))
      /\ LogOf(Fsynced(segs)) = LogAlong(DurableGroups(segs)) /\ LogOf(Items(segs)) = LogAlong(AllGroups(segs))
  BY SegmentGroups
<1>2. InOrder(DurableGroups(segs))
  BY <1>1, OrderWithin
<1> QED
  BY <1>1, <1>2, LogSorted DEF Full, HeldGroups, FoundGroups

\* The logs follow from which groups there are: the same for the same groups,
LEMMA SameLog ==
  ASSUME NEW segs \in Segments, NEW new \in Segments, InOrder(AllGroups(segs)), InOrder(AllGroups(new))
  PROVE  /\ FoundGroups(new) = FoundGroups(segs) => Full(new) = Full(segs)
         /\ HeldGroups(new) = HeldGroups(segs) => LogOf(Fsynced(new)) = LogOf(Fsynced(segs))
         /\ HeldGroups(new) = FoundGroups(new) => LogOf(Fsynced(new)) = Full(new)
         /\ FoundGroups(new) = HeldGroups(segs) => Full(new) = LogOf(Fsynced(segs))
<1>1. /\ DurableGroups(segs) \in Lists /\ AllGroups(segs) \in Lists
      /\ DurableGroups(new) \in Lists /\ AllGroups(new) \in Lists
  BY SegmentGroups
<1>2. /\ InOrder(DurableGroups(segs)) /\ InOrder(DurableGroups(new))
      /\ LogOf(Fsynced(segs)) = LogAlong(DurableGroups(segs)) /\ Full(segs) = LogAlong(AllGroups(segs))
      /\ LogOf(Fsynced(new)) = LogAlong(DurableGroups(new)) /\ Full(new) = LogAlong(AllGroups(new))
  BY LogsAre
<1> QED
  BY <1>1, <1>2, LogFollows DEF FoundGroups, HeldGroups

\* and longer by a group that comes after all others.
LEMMA LongerLog ==
  ASSUME NEW segs \in Segments, NEW new \in Segments, InOrder(AllGroups(segs)), InOrder(AllGroups(new)),
         NEW fr \in Seq(FrameLine), Sorted(fr), \A h \in HeldGroups(segs) : Wholly(h, fr),
         FoundGroups(new) = HeldGroups(segs) \cup {fr}
  PROVE  Full(new) = LogOf(Fsynced(segs)) \o fr
<1>1. DurableGroups(segs) \in Lists /\ AllGroups(new) \in Lists
  BY SegmentGroups
<1>2. /\ InOrder(DurableGroups(segs)) /\ LogOf(Fsynced(segs)) = LogAlong(DurableGroups(segs))
      /\ Full(new) = LogAlong(AllGroups(new))
  BY LogsAre
<1> QED
  BY <1>1, <1>2, LogFollows DEF FoundGroups, HeldGroups

\* What is found is the log, and perhaps one group more.
LEMMA OneMore ==
  ASSUME NEW segs \in Segments, FilesInOrder(segs)
  PROVE  \/ FoundGroups(segs) = HeldGroups(segs) /\ Full(segs) = LogOf(Fsynced(segs))
         \/ \E u \in Seq(FrameLine) :
              /\ u \in FoundGroups(segs) /\ u \notin HeldGroups(segs)
              /\ FoundGroups(segs) = HeldGroups(segs) \cup {u}
              /\ Full(segs) = LogOf(Fsynced(segs)) \o u
<1>1. InOrder(AllGroups(segs))
  BY DEF FilesInOrder
<1>2. /\ HeldGroups(segs) \subseteq FoundGroups(segs)
      /\ \A g \in FoundGroups(segs) : g \in Seq(FrameLine) /\ Sorted(g)
  BY <1>1, GroupsFound
<1>3. CASE FoundGroups(segs) = HeldGroups(segs)
  BY <1>1, <1>3, SameLog
<1>4. CASE FoundGroups(segs) # HeldGroups(segs)
  <2>1. PICK u \in FoundGroups(segs) : u \notin HeldGroups(segs)
    BY Zenon, <1>2, <1>4
  <2>2. FoundGroups(segs) = HeldGroups(segs) \cup {u} /\ \A h \in HeldGroups(segs) : Wholly(h, u)
    BY <1>2, <2>1 DEF FilesInOrder
  <2>3. u \in Seq(FrameLine) /\ Sorted(u)
    BY <1>2
  <2>4. Full(segs) = LogOf(Fsynced(segs)) \o u
    BY <1>1, <2>2, <2>3, LongerLog
  <2> QED
    BY <2>1, <2>2, <2>3, <2>4
<1> QED
  BY <1>3, <1>4

\* A new segment changes neither groups nor logs.
LEMMA NewOrder ==
  ASSUME NEW segs \in Segments, NEW e \in Nat
  PROVE  LET new == NewSegment(segs, e)
         IN  /\ new \in Segments
             /\ HeldGroups(new) = HeldGroups(segs) /\ FoundGroups(new) = FoundGroups(segs)
             /\ FilesInOrder(segs) =>
                  /\ FilesInOrder(new) /\ Full(new) = Full(segs)
                  /\ LogOf(Fsynced(new)) = LogOf(Fsynced(segs))
<1> DEFINE new == NewSegment(segs, e)
<1>1. /\ new \in Segments
      /\ HeldGroups(new) = HeldGroups(segs) /\ FoundGroups(new) = FoundGroups(segs)
      /\ InOrder(AllGroups(segs)) => InOrder(AllGroups(new))
      /\ TornLasts(segs) => TornLasts(new)
  BY NewSegmentIs, NewGroups DEF HeldGroups, FoundGroups
<1> HIDE DEF new
<1>2. FilesInOrder(segs) => FilesInOrder(new)
  BY <1>1 DEF FilesInOrder
<1>3. FilesInOrder(segs) => Full(new) = Full(segs) /\ LogOf(Fsynced(new)) = LogOf(Fsynced(segs))
  BY <1>1, <1>2, SameLog DEF FilesInOrder
<1> QED
  BY <1>1, <1>2, <1>3 DEF new

-----------------------------------------------------------------------------
(* What writes and recoveries do to the logs.                              *)

\* A group that is merged is at the end of the log, and nothing else is found.
LEMMA MergeEffect ==
  ASSUME Sound, Ordered, Writing, own.state = "available", own.frames # <<>>,
         NEW segs \in Segments, segs # <<>>, Clean(Last(segs).items), FilesInOrder(segs),
         HeldGroups(segs) = HeldGroups(segments), FoundGroups(segs) = FoundGroups(segments),
         Merge(segs)
  PROVE  /\ segments' \in Segments /\ FilesInOrder(segments') /\ log' = LogOf(Fsynced(segments'))
         /\ HeldGroups(segments') = HeldGroups(segments) \cup {own.frames}
         /\ FoundGroups(segments') = HeldGroups(segments) \cup {own.frames}
         /\ log' = log \o own.frames /\ Full(segments') = log \o own.frames
<1> DEFINE fr == own.frames
           written == Synced(segs, Group(fr))
           rolled == NewSegment(written, own.epoch)
<1>1. /\ fr \in Seq(FrameLine) /\ Sorted(fr) /\ \A h \in HeldGroups(segments) : Wholly(h, fr)
      /\ \A h \in FoundGroups(segments) : h = fr \/ h \in HeldGroups(segments)
  BY OwnGroup
<1>2. own.epoch \in Nat /\ fr # <<>>
  BY DEF Sound, Owned, Owner
<1>3. /\ segments \in Segments /\ FilesInOrder(segments) /\ log = LogOf(Fsynced(segments))
  BY DEF Sound, Stored, Ordered
<1>4. HeldGroups(segments) \subseteq FoundGroups(segments)
  BY <1>3, GroupsFound
<1>5. Durable(written) \/ Durable(rolled)
  BY DEF Merge
<1> HIDE DEF fr
<1>6. /\ InOrder(AllGroups(written)) /\ TornLasts(written) /\ written \in Segments
      /\ HeldGroups(written) = FoundGroups(segs) \cup {fr}
      /\ FoundGroups(written) = FoundGroups(segs) \cup {fr}
  <2>1. \A h \in FoundGroups(segs) : /\ h = fr \/ Wholly(h, fr)
                                     /\ h = fr \/ h \in HeldGroups(segs)
    BY <1>1
  <2>2. InOrder(AllGroups(segs)) /\ TornLasts(segs)
    BY DEF FilesInOrder
  <2> QED
    BY <1>1, <1>2, <2>1, <2>2, MergedGroups
<1> HIDE DEF written
<1>7. /\ FoundGroups(segs) \cup {fr} = HeldGroups(segments) \cup {fr}
  BY <1>1, <1>4
<1>8. FilesInOrder(written)
  BY <1>6 DEF FilesInOrder
<1>9. /\ rolled \in Segments /\ FilesInOrder(rolled)
      /\ HeldGroups(rolled) = HeldGroups(written) /\ FoundGroups(rolled) = FoundGroups(written)
  BY <1>2, <1>6, <1>8, NewOrder
<1> HIDE DEF rolled
<1> DEFINE new == segments'
<1>10. new \in {written, rolled} /\ log' = LogOf(Fsynced(new))
  BY <1>5 DEF Durable
<1> HIDE DEF new
<1>11. /\ new \in Segments /\ FilesInOrder(new)
       /\ HeldGroups(new) = HeldGroups(segments) \cup {fr} /\ FoundGroups(new) = HeldGroups(segments) \cup {fr}
  BY <1>6, <1>7, <1>8, <1>9, <1>10
<1>12. Full(new) = log \o fr
  BY Zenon, <1>1, <1>3, <1>11, LongerLog DEF FilesInOrder
<1>13. LogOf(Fsynced(new)) = Full(new)
  BY Zenon, <1>11, SameLog DEF FilesInOrder
<1> QED
  BY <1>10, <1>11, <1>12, <1>13 DEF new, fr

\* A write that fails leaves the log as it is.
LEMMA FailEffect ==
  ASSUME Sound, Ordered, Writing, own.state = "available", own.frames # <<>>,
         NEW segs \in Segments, segs # <<>>, Clean(Last(segs).items), FilesInOrder(segs),
         HeldGroups(segs) = HeldGroups(segments), FoundGroups(segs) = FoundGroups(segments),
         NEW items \in Partial(Group(own.frames)), Volatile(Unsynced(segs, items))
  PROVE  /\ segments' \in Segments /\ FilesInOrder(segments') /\ log' = LogOf(Fsynced(segments')) /\ log' = log
         /\ HeldGroups(segments') = HeldGroups(segments)
         /\ FoundGroups(segments') \subseteq HeldGroups(segments) \cup {own.frames}
         /\ Full(segments') \in {log, log \o own.frames}
<1> DEFINE fr == own.frames
           new == Unsynced(segs, items)
<1>1. /\ fr \in Seq(FrameLine) /\ Sorted(fr) /\ \A h \in HeldGroups(segments) : Wholly(h, fr)
      /\ \A h \in FoundGroups(segments) : h = fr \/ h \in HeldGroups(segments)
  BY OwnGroup
<1>2. /\ segments \in Segments /\ FilesInOrder(segments) /\ log = LogOf(Fsynced(segments))
      /\ InOrder(AllGroups(segments))
  BY DEF Sound, Stored, Ordered, FilesInOrder
<1>3. items \in Partial(Group(fr)) /\ fr # <<>>
  OBVIOUS
<1>4. segments' = new /\ log' = log
  BY DEF Volatile
<1> HIDE DEF fr
<1>5. /\ InOrder(AllGroups(new)) /\ TornLasts(new) /\ new \in Segments
      /\ DurableGroups(new) = DurableGroups(segs)
      /\ FoundGroups(segs) \subseteq FoundGroups(new)
      /\ FoundGroups(new) \subseteq FoundGroups(segs) \cup {fr}
  <2>1. \A h \in FoundGroups(segs) : h = fr \/ Wholly(h, fr)
    BY <1>1
  <2>2. InOrder(AllGroups(segs)) /\ TornLasts(segs)
    BY DEF FilesInOrder
  <2> QED
    BY <1>1, <1>3, <2>1, <2>2, FailedGroups
<1> HIDE DEF new
<1>6. /\ HeldGroups(new) = HeldGroups(segments) /\ HeldGroups(new) \subseteq FoundGroups(new)
      /\ FoundGroups(new) \subseteq HeldGroups(segments) \cup {fr}
  BY <1>1, <1>5, GroupsFound DEF HeldGroups
<1>7. FilesInOrder(new)
  BY <1>1, <1>5, <1>6 DEF FilesInOrder
<1>8. LogOf(Fsynced(new)) = log
  BY <1>2, <1>5, <1>6, SameLog
<1>9. Full(new) \in {log, log \o fr}
  <2>1. CASE FoundGroups(new) = HeldGroups(segments)
    <3>1. Full(new) = LogOf(Fsynced(segments))
      BY <1>2, <1>5, <2>1, SameLog
    <3> QED
      BY <1>2, <3>1
  <2>2. CASE FoundGroups(new) = HeldGroups(segments) \cup {fr}
    <3>1. Full(new) = log \o fr
      BY Zenon, <1>1, <1>2, <1>5, <2>2, LongerLog
    <3> QED
      BY <3>1
  <2>3. FoundGroups(new) = HeldGroups(segments) \/ FoundGroups(new) = HeldGroups(segments) \cup {fr}
    <3> DEFINE A == FoundGroups(new)
               H == HeldGroups(segments)
    <3>1. H \subseteq A /\ A \subseteq H \cup {fr}
      BY <1>6
    <3> HIDE DEF A, H
    <3>2. \A f \in A : f \in H \/ f = fr
      BY <3>1
    <3>3. fr \in A => A = H \cup {fr}
      BY <3>1
    <3>4. fr \notin A => A = H
      BY Zenon, <3>1, <3>2
    <3> QED
      BY <3>3, <3>4 DEF A, H
  <2> QED
    BY <2>1, <2>2, <2>3
<1> QED
  BY <1>4, <1>5, <1>6, <1>7, <1>8, <1>9 DEF fr

\* The open segment of a recovery changes no group.
LEMMA OpenedOrder ==
  ASSUME Stored, FilesInOrder(segments)
  PROVE  /\ HeldGroups(Opened) = HeldGroups(segments) /\ FoundGroups(Opened) = FoundGroups(segments)
         /\ FilesInOrder(Opened) /\ Full(Opened) = Full(segments)
         /\ LogOf(Fsynced(Opened)) = LogOf(Fsynced(segments))
<1>1. segments \in Segments /\ manifest.epoch + 1 \in Nat
  BY DEF Stored, Manifest
<1>2. Opened \in {segments, NewSegment(segments, manifest.epoch + 1)}
  BY DEF Opened
<1> DEFINE n == NewSegment(segments, manifest.epoch + 1)
<1>3. /\ HeldGroups(n) = HeldGroups(segments) /\ FoundGroups(n) = FoundGroups(segments)
      /\ FilesInOrder(n) /\ Full(n) = Full(segments) /\ LogOf(Fsynced(n)) = LogOf(Fsynced(segments))
  <2> DEFINE e == manifest.epoch + 1
  <2> HIDE DEF e
  <2>1. LET new == NewSegment(segments, e)
        IN  /\ new \in Segments
            /\ HeldGroups(new) = HeldGroups(segments) /\ FoundGroups(new) = FoundGroups(segments)
            /\ FilesInOrder(segments) =>
                 /\ FilesInOrder(new) /\ Full(new) = Full(segments)
                 /\ LogOf(Fsynced(new)) = LogOf(Fsynced(segments))
    BY <1>1, NewOrder DEF e
  <2> QED
    BY <2>1 DEF e
<1> HIDE DEF n
<1> DEFINE o == Opened
<1>4. o \in {segments, n}
  BY <1>2 DEF n
<1> HIDE DEF o
<1>5. /\ HeldGroups(o) = HeldGroups(segments) /\ FoundGroups(o) = FoundGroups(segments)
      /\ FilesInOrder(o) /\ Full(o) = Full(segments) /\ LogOf(Fsynced(o)) = LogOf(Fsynced(segments))
  BY <1>3, <1>4
<1> QED
  BY <1>5 DEF o

\* A recovery that has copied the last group has made durable all that it found.
LEMMA CopyEffect ==
  ASSUME Sound, WholeEnds, Ordered, ~Replay(manifest.hot, manifest.ckpt, Items(segments)).fault
  PROVE  LET new == Synced(Opened, LastGroup(Replay(manifest.hot, manifest.ckpt, Items(segments))))
         IN  /\ new \in Segments /\ FilesInOrder(new)
             /\ HeldGroups(new) = FoundGroups(segments) /\ FoundGroups(new) = FoundGroups(segments)
             /\ LogOf(Fsynced(new)) = Full(segments) /\ Full(new) = Full(segments)
<1> DEFINE r == Replay(manifest.hot, manifest.ckpt, Items(segments))
           fr == r.last
           o == Opened
           new == Synced(o, LastGroup(r))
<1>1. /\ segments \in Segments /\ FilesInOrder(segments) /\ Items(segments) \in Texts
      /\ manifest.hot \in Records /\ manifest.ckpt \in Nat \X Nat
  BY ItemsTexts DEF Sound, Stored, Manifest, Ordered
<1>2. /\ fr \in Seq(FrameLine)
      /\ fr = <<>> => FoundGroups(segments) = {}
      /\ fr # <<>> => fr \in FoundGroups(segments) /\ \A g \in FoundGroups(segments) : g = fr \/ Wholly(g, fr)
  <2> DEFINE T == Items(segments)
  <2>1. T \in Texts /\ InOrder(GroupsOf(T)) /\ ~Replay(manifest.hot, manifest.ckpt, T).fault
    BY <1>1 DEF FilesInOrder, AllGroups
  <2> HIDE DEF T
  <2>2. LET last == Replay(manifest.hot, manifest.ckpt, T).last
            found == GroupsIn(GroupsOf(T))
        IN  /\ last \in Seq(FrameLine)
            /\ last = <<>> => found = {}
            /\ last # <<>> => last \in found /\ \A g \in found : g = last \/ Wholly(g, last)
    BY <1>1, <2>1, LastFound
  <2> QED
    BY <2>2 DEF T, FoundGroups, AllGroups
<1>3. LastGroup(r) = IF fr = <<>> THEN <<>> ELSE Group(fr)
  BY DEF LastGroup
<1>4. /\ o \in Segments /\ o # <<>> /\ Clean(Last(o).items) /\ Last(o).safe = Len(Last(o).items)
  BY OpenedEnds
<1>5. /\ HeldGroups(o) = HeldGroups(segments) /\ FoundGroups(o) = FoundGroups(segments)
      /\ FilesInOrder(o)
  BY <1>1, OpenedOrder DEF Sound
<1> HIDE DEF r, fr, o
<1>6. CASE fr = <<>>
  <2>1. new = o
    BY <1>3, <1>4, <1>6, SyncedNothing
  <2>2. FoundGroups(o) = {} /\ HeldGroups(o) = {}
    BY <1>2, <1>4, <1>5, <1>6, GroupsFound
  <2>3. LogOf(Fsynced(o)) = Full(o) /\ Full(o) = Full(segments)
    BY Zenon, <1>1, <1>4, <1>5, <2>2, SameLog DEF FilesInOrder
  <2> QED
    BY <1>4, <1>5, <2>1, <2>2, <2>3 DEF o, r
<1>7. CASE fr # <<>>
  <2>1. new = Synced(o, Group(fr))
    BY <1>3, <1>7
  <2> HIDE DEF new
  <2>2. Sorted(fr)
    BY <1>1, <1>2, <1>7, GroupsFound DEF FilesInOrder
  <2>3. ASSUME NEW h \in FoundGroups(o) PROVE h = fr \/ (Wholly(h, fr) /\ h \in HeldGroups(o))
    <3>1. h = fr \/ Wholly(h, fr)
      BY <1>2, <1>5, <1>7
    <3>2. CASE h # fr /\ h \notin HeldGroups(o)
      <4>1. fr \in HeldGroups(o) /\ Wholly(fr, h)
        BY <1>2, <1>5, <1>7, <3>2 DEF FilesInOrder
      <4>2. h \in Seq(FrameLine) /\ h # <<>>
        BY <1>4, <1>5, GroupsFound DEF FilesInOrder
      <4> QED
        BY <1>2, <1>7, <3>1, <3>2, <4>1, <4>2, NotBoth
    <3> QED
      BY <3>1, <3>2
  <2>4. /\ InOrder(AllGroups(new)) /\ TornLasts(new) /\ new \in Segments
        /\ HeldGroups(new) = FoundGroups(o) \cup {fr}
        /\ FoundGroups(new) = FoundGroups(o) \cup {fr}
    <3>1. InOrder(AllGroups(o)) /\ TornLasts(o)
      BY <1>5 DEF FilesInOrder
    <3> QED
      BY <1>2, <1>4, <1>7, <2>1, <2>2, <2>3, <3>1, MergedGroups
  <2>5. HeldGroups(new) = FoundGroups(segments) /\ FoundGroups(new) = FoundGroups(segments)
    BY <1>2, <1>5, <1>7, <2>4
  <2>6. FilesInOrder(new)
    BY <2>4, <2>5 DEF FilesInOrder
  <2>7. LogOf(Fsynced(new)) = Full(new) /\ Full(new) = Full(segments)
    BY <1>1, <2>4, <2>5, SameLog DEF FilesInOrder
  <2> QED
    BY <2>4, <2>5, <2>6, <2>7 DEF new, o, r
<1> QED
  BY <1>6, <1>7

-----------------------------------------------------------------------------
(* The memory of the owner after each step.                                *)

\* What is left in the memory of the owner when it drops its group.
LEMMA NoGroupKeeps ==
  ASSUME NEW o \in Owner
  PROVE  LET n == NoGroup(o)
         IN  /\ n.committed = o.committed /\ n.hot = o.hot /\ n.cold = o.cold /\ n.receipts = o.receipts
             /\ n.ckpt = o.ckpt /\ n.overlay = NoRecords /\ n.unapplied = o.unapplied
<1> DEFINE e == <<>>
           over == NoRecords
<1>1. NoGroup(o) = [o EXCEPT !.frames = e, !.noops = {}, !.overlay = over, !.retry = FALSE]
  BY DEF NoGroup
<1> HIDE DEF e, over
<1>2. LET n == [o EXCEPT !.frames = e, !.noops = {}, !.overlay = over, !.retry = FALSE]
      IN  /\ n.committed = o.committed /\ n.hot = o.hot /\ n.cold = o.cold /\ n.receipts = o.receipts
          /\ n.ckpt = o.ckpt /\ n.overlay = over /\ n.unapplied = o.unapplied
  BY DEF Owner
<1> QED
  BY <1>1, <1>2 DEF over

\* The memory after a merge: the group is served, and has its receipts.
LEMMA MergeMemory ==
  ASSUME Owned, Answered, NEW segs, Merge(segs)
  PROVE  /\ own'.committed = own.next - 1
         /\ own'.hot = [i \in Id |-> Current(i)] /\ own'.cold = own.cold /\ own'.ckpt = own.ckpt
         /\ own'.overlay = NoRecords /\ own'.unapplied = own.unapplied
         /\ DOMAIN own'.receipts = DOMAIN own.receipts \cup Txns(own.frames)
<1> DEFINE hot == [i \in Id |-> Current(i)]
           new == [t \in DOMAIN own.receipts \cup Txns(own.frames) |->
                     IF t \in DOMAIN own.receipts THEN own.receipts[t] ELSE 0]
           done == own.next - 1
           o == [own EXCEPT !.hot = hot, !.committed = done, !.receipts = new]
<1>1. own \in Owner /\ hot \in Records
  BY CurrentIs DEF Owned
<1>2. own' = NoGroup(o)
  BY DEF Merge
<1>3. new \in Receipts
  <2>1. DOMAIN own.receipts \cup Txns(own.frames) \in SUBSET Txn
    <3>1. DOMAIN own.receipts \subseteq Txn
      BY <1>1 DEF Owner, Receipts
    <3> QED
      BY <3>1 DEF Answered, Asked
  <2>2. \A t \in DOMAIN own.receipts : own.receipts[t] \in 0 .. MaxGen
    BY <1>1 DEF Owner, Receipts
  <2>3. 0 \in 0 .. MaxGen
    BY LedgerAssumption
  <2>4. new \in [DOMAIN own.receipts \cup Txns(own.frames) -> 0 .. MaxGen]
    BY <2>2, <2>3
  <2> QED
    BY Zenon, <2>1, <2>4 DEF Receipts
<1>4. done \in Nat
  BY DEF Owned, Owner
<1>a. DOMAIN new = DOMAIN own.receipts \cup Txns(own.frames)
  OBVIOUS
<1> HIDE DEF hot, new, done
<1>5. o \in Owner /\ o.committed = done /\ o.hot = hot /\ o.cold = own.cold /\ o.ckpt = own.ckpt
      /\ o.receipts = new /\ o.unapplied = own.unapplied
  BY Zenon, <1>1, <1>3, <1>4 DEF Owner
<1> HIDE DEF o
<1>6. LET n == NoGroup(o)
      IN  /\ n.committed = o.committed /\ n.hot = o.hot /\ n.cold = o.cold /\ n.receipts = o.receipts
          /\ n.ckpt = o.ckpt /\ n.overlay = NoRecords /\ n.unapplied = o.unapplied
  BY <1>5, NoGroupKeeps
<1> QED
  BY <1>2, <1>5, <1>6, <1>a DEF hot, done

\* The memory after a group has been given up.
LEMMA GivenUpMemory ==
  ASSUME own \in Owner, own' = NoGroup([own EXCEPT !.state = "unavailable_write"])
  PROVE  /\ own' \in Owner /\ own'.state = "unavailable_write" /\ own'.frames = <<>> /\ own'.noops = {}
         /\ ~own'.retry /\ own'.next = own.next /\ own'.epoch = own.epoch /\ own'.committed = own.committed
         /\ own'.hot = own.hot /\ own'.cold = own.cold /\ own'.receipts = own.receipts
         /\ own'.ckpt = own.ckpt /\ own'.overlay = NoRecords /\ own'.unapplied = own.unapplied
<1> DEFINE o == [own EXCEPT !.state = "unavailable_write"]
<1>1. /\ o \in Owner /\ o.state = "unavailable_write" /\ o.next = own.next /\ o.epoch = own.epoch
      /\ o.committed = own.committed /\ o.hot = own.hot /\ o.cold = own.cold /\ o.receipts = own.receipts
      /\ o.ckpt = own.ckpt /\ o.unapplied = own.unapplied
  BY Zenon DEF Owner
<1>2. own' = NoGroup(o)
  OBVIOUS
<1> HIDE DEF o
<1> DEFINE n == NoGroup(o)
<1>3. /\ n.committed = o.committed /\ n.hot = o.hot /\ n.cold = o.cold /\ n.receipts = o.receipts
      /\ n.ckpt = o.ckpt /\ n.overlay = NoRecords /\ n.unapplied = o.unapplied
  BY <1>1, NoGroupKeeps
<1>4. /\ n \in Owner /\ n.frames = <<>> /\ n.noops = {} /\ ~n.retry /\ n.next = o.next /\ n.state = o.state
      /\ n.epoch = o.epoch
  BY <1>1, NoGroupIs
<1>5. own' = n
  BY <1>2
<1> HIDE DEF n
<1> QED
  BY Zenon, <1>1, <1>3, <1>4, <1>5

\* What Take may do to the memory.
LEMMA TakeMemory ==
  ASSUME Owned, Answered, Take
  PROVE  LET t == Head(inbox)
             f == FrameOf(t)
         IN  /\ t \in Asked /\ t \in ToSet(inbox) /\ f \in FrameLine /\ f.txn = t /\ ~own.retry
             /\ f.pos = <<own.epoch, own.next>>
             /\ \/ own' = own
                \/ /\ own.state = "available" /\ Redundant(op[t]) /\ DependsOnGroup(op[t])
                   /\ own' = [own EXCEPT !.noops = @ \cup {t}]
                \/ /\ own.state = "available" /\ ~Redundant(op[t]) /\ Writable(op[t])
                   /\ own' = [own EXCEPT !.frames = Append(@, f), !.overlay = OverlayAfter(f), !.next = @ + 1]
<1> DEFINE t == Head(inbox)
           f == FrameOf(t)
<1>1. t \in Asked /\ t \in ToSet(inbox)
  <2>1. inbox \in Seq(Asked) /\ inbox # <<>>
    BY DEF Take, Answered
  <2>2. 1 \in DOMAIN inbox /\ t = inbox[1] /\ inbox[1] \in Asked
    BY <2>1
  <2> QED
    BY <2>2 DEF ToSet
<1>2. own \in Owner /\ op \in [Txn -> Op \cup {NoOp}]
  BY DEF Owned, Answered
<1>3. f.pos = <<own.epoch, own.next>>
  BY DEF FrameOf, Frame
<1> HIDE DEF t
<1>4. f \in FrameLine /\ f.txn = t
  BY <1>1, <1>2, FrameIs DEF Asked
<1> HIDE DEF f
<1> QED
  BY <1>1, <1>3, <1>4 DEF Take, t, f

\* The records that a checkpoint demotes.
DemotedHot(d) == [i \in Id |-> IF i \in d THEN None ELSE own.hot[i]]
DemotedCold(d) == [i \in Id |-> IF i \in d THEN own.hot[i] ELSE own.cold[i]]

\* What a checkpoint leaves of the receipts.
LEMMA ReceiptsStamped ==
  ASSUME NEW r \in Receipts, NEW g, NEW kept
  PROVE  DOMAIN Stamped(r, g) = DOMAIN r /\ DOMAIN Trimmed(Stamped(r, g), kept) \subseteq DOMAIN r
<1>1. DOMAIN Stamped(r, g) = DOMAIN r
  BY DEF Stamped
<1> DEFINE s == Stamped(r, g)
<1> HIDE DEF s
<1>2. DOMAIN Trimmed(s, kept) \subseteq DOMAIN s
  BY DEF Trimmed
<1> QED
  BY <1>1, <1>2 DEF s

\* The memory of the owner when all files of a checkpoint exist.
LEMMA CompactedMemory ==
  ASSUME own \in Owner, NEW g \in 1 .. MaxGen, NEW d \in SUBSET Id
  PROVE  LET o == Compacted(g, d)
         IN  /\ o.hot = DemotedHot(d) /\ o.cold = DemotedCold(d) /\ o.ckpt = Here
             /\ DOMAIN o.receipts \subseteq DOMAIN own.receipts
             /\ o.committed = own.committed /\ o.overlay = own.overlay /\ o.unapplied = own.unapplied
<1> DEFINE kept == LastTwo(Append(own.kept, g))
           hot == DemotedHot(d)
           cold == DemotedCold(d)
           rec == Trimmed(Stamped(own.receipts, g), kept)
           at == Here
<1>1. Compacted(g, d) = [own EXCEPT !.hot = hot, !.cold = cold, !.receipts = rec,
                                    !.kept = kept, !.n = g, !.alloc = g, !.ckpt = at]
  BY Zenon DEF Compacted, DemotedHot, DemotedCold, Here
<1>2. DOMAIN rec \subseteq DOMAIN own.receipts
  <2>1. own.receipts \in Receipts
    BY DEF Owner
  <2> QED
    BY <2>1, ReceiptsStamped
<1> HIDE DEF kept, hot, cold, rec, at
<1>3. LET o == [own EXCEPT !.hot = hot, !.cold = cold, !.receipts = rec,
                           !.kept = kept, !.n = g, !.alloc = g, !.ckpt = at]
      IN  /\ o.hot = hot /\ o.cold = cold /\ o.ckpt = at /\ o.receipts = rec
          /\ o.committed = own.committed /\ o.overlay = own.overlay /\ o.unapplied = own.unapplied
  BY DEF Owner
<1> QED
  BY <1>1, <1>2, <1>3 DEF hot, cold, at

\* Only the records of some ids are demoted.
LEMMA DemotableIs ==
  ASSUME own.hot \in Records, NEW live
  PROVE  /\ Demotable(live) \in SUBSET Id
         /\ \A i \in Demotable(live) : own.hot[i] # None
<1>1. \A r \in Record : r = None => r.st = "none"
  BY DEF None
<1>2. "none" \notin Terminal /\ "none" # "tracked"
  BY DEF Terminal
<1>3. \A i \in Id : own.hot[i] \in Record
  BY DEF Records
<1> QED
  BY <1>1, <1>2, <1>3 DEF Demotable

\* What checkpoint may do to the memory and to the MANIFEST.
LEMMA CheckpointMemory ==
  ASSUME Stored, Owned, Answered, Checkpoint
  PROVE  /\ own.state = "available" /\ own.frames = <<>>
         /\ own'.state = own.state /\ own'.epoch = own.epoch /\ own'.next = own.next
         /\ own'.committed = own.committed /\ own'.frames = own.frames /\ own'.noops = own.noops
         /\ own'.retry = own.retry /\ own'.overlay = own.overlay /\ own'.unapplied = own.unapplied
         /\ \/ /\ own'.hot = own.hot /\ own'.cold = own.cold /\ own'.ckpt = own.ckpt
               /\ DOMAIN own'.receipts = DOMAIN own.receipts /\ manifest' = manifest
            \/ /\ \E d \in SUBSET Id :
                    /\ \A i \in d : own.hot[i] # None
                    /\ own'.hot = DemotedHot(d) /\ own'.cold = DemotedCold(d)
               /\ own'.ckpt = Here /\ DOMAIN own'.receipts \subseteq DOMAIN own.receipts
               /\ manifest' = manifest \/ manifest' = ManifestOf(own')
<1>1. /\ NextGen \in 1 .. MaxGen /\ own \in Owner /\ own.state = "available" /\ own.frames = <<>>
      /\ own.hot \in Records /\ own.receipts \in Receipts
  BY LedgerAssumption DEF Checkpoint, NextGen, Owned, Owner
<1>2. PICK live \in SUBSET {SessionOf[i] : i \in Id} :
        LET after == Compacted(NextGen, Demotable(live))
        IN \/ /\ NextGen > occupied
              /\ own' = after /\ manifest' = ManifestOf(after)
              /\ occupied' = NextGen /\ UNCHANGED faults
           \/ /\ own' = after /\ UNCHANGED manifest
              /\ occupied' = NextGen /\ Fault
           \/ /\ own' = [own EXCEPT !.alloc = NextGen]
              /\ occupied' \in {occupied, NextGen}
              /\ Fault /\ UNCHANGED manifest
           \/ /\ own' = [own EXCEPT !.alloc = NextGen, !.receipts = Stamped(@, NextGen)]
              /\ occupied' = NextGen
              /\ Fault /\ UNCHANGED manifest
  BY DEF Checkpoint
<1> DEFINE d == Demotable(live)
           after == Compacted(NextGen, d)
<1>3. d \in SUBSET Id /\ \A i \in d : own.hot[i] # None
  BY <1>1, DemotableIs
<1> HIDE DEF d
<1>4. /\ after.frames = own.frames /\ after.noops = own.noops
      /\ after.state = own.state /\ after.retry = own.retry /\ after.next = own.next
      /\ after.epoch = own.epoch
  BY <1>1, <1>3, CompactedIs
<1>5. /\ after.hot = DemotedHot(d) /\ after.cold = DemotedCold(d) /\ after.ckpt = Here
      /\ DOMAIN after.receipts \subseteq DOMAIN own.receipts
      /\ after.committed = own.committed /\ after.overlay = own.overlay /\ after.unapplied = own.unapplied
  BY <1>1, <1>3, CompactedMemory
<1>6. CASE own' = after /\ (manifest' = manifest \/ manifest' = ManifestOf(after))
  <2> HIDE DEF after
  <2> QED
    BY <1>1, <1>3, <1>4, <1>5, <1>6
<1>7. CASE own' = [own EXCEPT !.alloc = NextGen] /\ manifest' = manifest
  BY <1>1, <1>7 DEF Owner
<1>8. CASE own' = [own EXCEPT !.alloc = NextGen, !.receipts = Stamped(@, NextGen)] /\ manifest' = manifest
  <2> DEFINE s == Stamped(own.receipts, NextGen)
  <2>1. DOMAIN s = DOMAIN own.receipts
    BY Zenon, <1>1, ReceiptsStamped
  <2>2. own' = [own EXCEPT !.alloc = NextGen, !.receipts = s]
    BY <1>8
  <2> HIDE DEF s
  <2> QED
    BY Zenon, <1>1, <1>8, <2>1, <2>2 DEF Owner
<1> QED
  BY <1>2, <1>6, <1>7, <1>8 DEF after, d

\* The memory of a recovered owner.
LEMMA RecoveredMemory ==
  ASSUME Stored, NEW r \in Replaying
  PROVE  LET o == Recovered(r)
         IN  /\ o.committed = 0 /\ o.hot = r.hot /\ o.cold = manifest.cold /\ o.ckpt = manifest.ckpt
             /\ DOMAIN o.receipts = DOMAIN manifest.receipts \cup r.fresh /\ o.overlay = NoRecords
             /\ o.unapplied = r.unapplied
<1> DEFINE rec == [t \in DOMAIN manifest.receipts \cup r.fresh |->
                     IF t \in r.fresh THEN 0 ELSE manifest.receipts[t]]
           al == IF occupied > manifest.n THEN occupied ELSE manifest.n
           e == manifest.epoch + 1
           a == [Down EXCEPT !.state = "available", !.epoch = e, !.hot = r.hot, !.cold = manifest.cold]
           b == [a EXCEPT !.receipts = rec, !.kept = manifest.kept, !.n = manifest.n]
           c == [b EXCEPT !.ckpt = manifest.ckpt, !.alloc = al, !.unapplied = r.unapplied]
<1>1. Recovered(r) = c
  BY DEF Recovered
<1>2. DOMAIN rec = DOMAIN manifest.receipts \cup r.fresh
  OBVIOUS
<1> HIDE DEF rec, al, e
<1>3. a.committed = 0 /\ a.hot = r.hot /\ a.cold = manifest.cold /\ a.overlay = NoRecords
      /\ DOMAIN a = DOMAIN Down
  BY DEF Down
<1>4. DOMAIN Down = {"state", "epoch", "next", "committed", "hot", "cold", "receipts", "kept", "n",
                     "alloc", "ckpt", "unapplied", "frames", "noops", "overlay", "retry"}
  BY DEF Down
<1> HIDE DEF a
<1>5. b.committed = 0 /\ b.hot = r.hot /\ b.cold = manifest.cold /\ b.overlay = NoRecords
      /\ b.receipts = rec /\ DOMAIN b = DOMAIN a
  BY <1>3, <1>4
<1> HIDE DEF b
<1>6. c.committed = 0 /\ c.hot = r.hot /\ c.cold = manifest.cold /\ c.overlay = NoRecords
      /\ c.receipts = rec /\ c.ckpt = manifest.ckpt /\ c.unapplied = r.unapplied
  BY <1>3, <1>4, <1>5
<1> HIDE DEF c
<1> QED
  BY <1>1, <1>2, <1>6

-----------------------------------------------------------------------------
(* Every step keeps the order: the log only grows.                         *)

\* What was not after a position is not after a later one of the epoch.
LEMMA Later ==
  /\ \A e, c, d \in Nat : \A q \in Nat \X Nat : ~Before(<<e, c>>, q) /\ c <= d => ~Before(<<e, d>>, q)
  /\ \A e, c, d \in Nat : \A q \in Nat \X Nat : q[1] < e => ~Before(<<e, c>>, q)
BY DEF Before

\* A position whose frames are of an epoch that has begun.
LEMMA Positions ==
  ASSUME Sound
  PROVE  /\ segments \in Segments /\ manifest.epoch \in Nat /\ manifest.ckpt \in Nat \X Nat
         /\ own.epoch \in Nat /\ own.committed \in Nat /\ Here \in Nat \X Nat /\ own.frames \in Seq(FrameLine)
         /\ \A f \in FramesIn(FoundGroups(segments)) : f \in FrameLine /\ f.pos \in Nat \X Nat
         /\ FramesIn(HeldGroups(segments)) \subseteq FramesIn(FoundGroups(segments))
<1>1. /\ segments \in Segments /\ manifest.epoch \in Nat /\ manifest.ckpt \in Nat \X Nat
      /\ own.epoch \in Nat /\ own.committed \in Nat /\ Here \in Nat \X Nat /\ own.frames \in Seq(FrameLine)
  BY DEF Sound, Stored, Owned, Manifest, Owner, Here
<1>2. HeldGroups(segments) \subseteq FoundGroups(segments) /\ \A g \in FoundGroups(segments) : g \in Seq(FrameLine)
  BY <1>1, GroupsFound
<1>3. FramesIn(HeldGroups(segments)) \subseteq FramesIn(FoundGroups(segments))
  BY <1>2, FramesInIs
<1>4. ASSUME NEW f \in FramesIn(FoundGroups(segments)) PROVE f \in FrameLine /\ f.pos \in Nat \X Nat
  <2>1. PICK g \in FoundGroups(segments) : f \in ToSet(g)
    BY FramesInIs
  <2> QED
    BY <1>2, <2>1, PosIs
<1> QED
  BY <1>1, <1>3, <1>4

\* A step that writes nothing keeps the order of the files.
LEMMA QuietOrder ==
  ASSUME Ordered, segments' = segments, log' = log, manifest' = manifest
  PROVE  Ordered' /\ Full(segments') = Full(segments)
BY DEF Ordered

\* Submissions, the end of an owner, and a store that is found unreadable.
LEMMA IdleOrder ==
  ASSUME Sound, Ordered, Writing, segments' = segments, log' = log, manifest' = manifest,
         own' = own \/ own'.state # "available"
  PROVE  Ordered' /\ Writing' /\ Full(segments') = Full(segments)
<1>1. Ordered' /\ Full(segments') = Full(segments)
  BY QuietOrder
<1>2. CASE own' = own
  BY <1>1, <1>2 DEF Writing, Here
<1>3. CASE own'.state # "available"
  BY <1>1, <1>3 DEF Writing
<1> QED
  BY <1>2, <1>3

\* A frame that is taken gets the next position.
LEMMA TakeOrder ==
  ASSUME Sound, Ordered, Writing, Take
  PROVE  Ordered' /\ Writing' /\ log' = log /\ Full(segments') = Full(segments)
<1>1. segments' = segments /\ log' = log /\ manifest' = manifest
  BY DEF Take
<1>2. Ordered' /\ Full(segments') = Full(segments)
  BY <1>1, QuietOrder
<1> DEFINE t == Head(inbox)
           f == FrameOf(t)
           fr == own.frames
<1>3. /\ f.pos = <<own.epoch, own.next>> /\ ~own.retry /\ f \in FrameLine
      /\ \/ own' = own
         \/ /\ own.state = "available" /\ own' = [own EXCEPT !.noops = @ \cup {t}]
         \/ /\ own.state = "available"
            /\ own' = [own EXCEPT !.frames = Append(@, f), !.overlay = OverlayAfter(f), !.next = @ + 1]
  BY TakeMemory DEF Sound
<1>4. own \in Owner /\ fr \in Seq(FrameLine) /\ own.next \in Nat /\ own.committed \in Nat
  BY DEF Sound, Owned, Owner
<1> HIDE DEF f, t
<1>5. CASE own' = own
  BY <1>1, <1>2, <1>5 DEF Writing, Here
<1>6. CASE own.state = "available" /\ own' = [own EXCEPT !.noops = @ \cup {t}]
  <2>1. /\ own'.state = own.state /\ own'.epoch = own.epoch /\ own'.next = own.next /\ own'.frames = own.frames
        /\ own'.committed = own.committed /\ own'.retry = own.retry
    BY <1>4, <1>6 DEF Owner
  <2> QED
    BY <1>1, <1>2, <2>1 DEF Writing, Here
<1>7. CASE /\ own.state = "available"
           /\ own' = [own EXCEPT !.frames = Append(@, f), !.overlay = OverlayAfter(f), !.next = @ + 1]
  <2>1. /\ own'.state = own.state /\ own'.epoch = own.epoch /\ own'.next = own.next + 1
        /\ own'.frames = Append(fr, f) /\ own'.committed = own.committed /\ own'.retry = own.retry
    BY <1>4, <1>7 DEF Owner
  <2>2. /\ own.epoch = manifest.epoch
        /\ own.next = own.committed + Len(fr) + 1
        /\ \A k \in DOMAIN fr : fr[k].pos = <<own.epoch, own.committed + k>>
        /\ \A h \in FramesIn(HeldGroups(segments)) : ~Before(Here, h.pos)
        /\ \A g \in FoundGroups(segments) : g \in HeldGroups(segments) \/ (own.retry /\ g = fr)
        /\ ~Before(Here, manifest.ckpt)
    BY <1>7 DEF Writing
  <2>3. /\ Len(Append(fr, f)) = Len(fr) + 1 /\ Len(fr) \in Nat
        /\ DOMAIN Append(fr, f) = 1 .. Len(fr) + 1 /\ DOMAIN fr = 1 .. Len(fr)
        /\ \A k \in 1 .. Len(fr) : Append(fr, f)[k] = fr[k]
        /\ Append(fr, f)[Len(fr) + 1] = f
    BY <1>3, <1>4
  <2> DEFINE n == Len(fr)
             c == own.committed
             x == own.next
  <2>a. x = c + n + 1 /\ Len(Append(fr, f)) = n + 1 /\ n \in Nat /\ c \in Nat /\ x \in Nat
    BY <1>4, <2>2, <2>3
  <2> HIDE DEF n, c, x
  <2>b. x + 1 = c + (n + 1) + 1 /\ x = c + (n + 1)
    BY <2>a
  <2>4. own.next + 1 = own.committed + Len(Append(fr, f)) + 1
    BY <2>a, <2>b DEF c, x
  <2>5. own.next = own.committed + (Len(fr) + 1)
    BY <2>b DEF c, x, n
  <2>6. \A k \in DOMAIN Append(fr, f) : Append(fr, f)[k].pos = <<own.epoch, own.committed + k>>
    <3> SUFFICES ASSUME NEW k \in 1 .. Len(fr) + 1
                 PROVE  Append(fr, f)[k].pos = <<own.epoch, own.committed + k>>
      BY <2>3
    <3>1. CASE k = Len(fr) + 1
      BY <1>3, <2>3, <2>5, <3>1
    <3>2. CASE k # Len(fr) + 1
      <4>1. k \in 1 .. Len(fr)
        BY <2>3, <3>2
      <4> QED
        BY <2>2, <2>3, <4>1
    <3> QED
      BY <3>1, <3>2
  <2>7. Here' = Here
    BY <2>1 DEF Here
  <2>8. \A g \in FoundGroups(segments) : g \in HeldGroups(segments)
    BY <1>3, <2>2
  <2>9. Writing'
    BY <1>1, <2>1, <2>2, <2>4, <2>6, <2>7, <2>8 DEF Writing
  <2> QED
    BY <1>1, <1>2, <2>9
<1> QED
  BY <1>3, <1>5, <1>6, <1>7

\* A checkpoint is of what has been committed.
LEMMA CheckpointOrder ==
  ASSUME Sound, Ordered, Writing, Checkpoint
  PROVE  Ordered' /\ Writing' /\ log' = log /\ Full(segments') = Full(segments)
<1>1. segments' = segments /\ log' = log
  BY DEF Checkpoint
<1>2. /\ own.state = "available"
      /\ own'.state = own.state /\ own'.epoch = own.epoch /\ own'.next = own.next
      /\ own'.committed = own.committed /\ own'.frames = own.frames /\ own'.retry = own.retry
      /\ \/ manifest' = manifest
         \/ own'.ckpt = Here /\ manifest' = ManifestOf(own')
  BY CheckpointMemory DEF Sound
<1>3. Here' = Here
  BY <1>2 DEF Here
<1>4. own.epoch = manifest.epoch
  BY <1>2 DEF Writing
<1>5. /\ manifest'.epoch = manifest.epoch
      /\ manifest'.ckpt = manifest.ckpt \/ manifest'.ckpt = Here
  BY <1>2, <1>4 DEF ManifestOf
<1>6. manifest'.ckpt[1] <= manifest'.epoch /\ ~Before(Here, manifest'.ckpt)
  <2>1. manifest.ckpt[1] <= manifest.epoch /\ ~Before(Here, manifest.ckpt)
    BY <1>2 DEF Ordered, Writing
  <2>2. Here[1] <= manifest.epoch
    BY <1>4, Positions DEF Here
  <2>3. ~Before(Here, Here)
    BY Positions, BeforeOrder
  <2> QED
    BY <1>5, <2>1, <2>2, <2>3
<1>7. Ordered'
  BY <1>1, <1>5, <1>6 DEF Ordered
<1>8. Writing'
  BY <1>1, <1>2, <1>3, <1>4, <1>5, <1>6 DEF Writing
<1> QED
  BY <1>1, <1>7, <1>8

\* A merge commits the open group, at the end of the log.
LEMMA MergeOrder ==
  ASSUME Sound, Ordered, Writing, own.state = "available", own.frames # <<>>, manifest' = manifest,
         NEW segs \in Segments, segs # <<>>, Clean(Last(segs).items), FilesInOrder(segs),
         HeldGroups(segs) = HeldGroups(segments), FoundGroups(segs) = FoundGroups(segments),
         Merge(segs)
  PROVE  /\ Ordered' /\ Writing'
         /\ log' = log \o own.frames /\ Full(segments') = log \o own.frames
<1> DEFINE new == segments'
           fr == own.frames
<1>1. /\ new \in Segments /\ FilesInOrder(new) /\ log' = LogOf(Fsynced(new))
      /\ HeldGroups(new) = HeldGroups(segments) \cup {fr}
      /\ FoundGroups(new) = HeldGroups(segments) \cup {fr}
      /\ log' = log \o fr /\ Full(new) = log \o fr
  BY MergeEffect
<1> HIDE DEF new
<1>2. \A f : f \in FramesIn(HeldGroups(segments) \cup {fr}) => f \in FramesIn(HeldGroups(segments)) \/ f \in ToSet(fr)
  BY FramesInIs
<1>3. \A f \in ToSet(fr) : f.pos[1] = manifest.epoch
  BY OwnGroup
<1>4. \A f \in FramesIn(FoundGroups(new)) : f.pos[1] <= manifest.epoch
  BY <1>1, <1>2, <1>3, Positions DEF Ordered
<1>5. FilesInOrder(segments)' /\ (log = LogOf(Fsynced(segments)))' /\ FoundGroups(segments)' = FoundGroups(new)
      /\ HeldGroups(segments)' = HeldGroups(new)
  BY <1>1 DEF new
<1>6. Ordered'
  BY <1>4, <1>5 DEF Ordered
<1>7. /\ own'.committed = own.next - 1 /\ own'.ckpt = own.ckpt /\ own'.frames = <<>> /\ own'.next = own.next
      /\ own'.state = own.state /\ own'.epoch = own.epoch
  BY Zenon, MergeMemory, MergeOwned DEF Sound
<1> DEFINE n == Len(fr)
           c == own.committed
           e == own.epoch
           d == own'.committed
<1>8. /\ n \in Nat /\ c \in Nat /\ e \in Nat /\ own.next = c + n + 1 /\ e = manifest.epoch
      /\ DOMAIN fr = 1 .. n /\ fr \in Seq(FrameLine)
  BY Positions DEF Writing
<1>9. \A k \in DOMAIN fr : fr[k].pos = <<e, c + k>>
  BY DEF Writing
<1>10. d = own.next - 1
  BY <1>7
<1>11. Here' = <<e, d>> /\ Here = <<e, c>>
  BY <1>7 DEF Here
<1> DEFINE x == own.next
<1>h. x = c + n + 1 /\ d = x - 1
  BY <1>8, <1>10
<1> HIDE DEF n, c, e, d, x
<1>12. d = c + n /\ d \in Nat /\ c <= d /\ x = d + 1
  BY <1>8, <1>h
<1>13. \A f \in FramesIn(HeldGroups(new)) : ~Before(<<e, d>>, f.pos)
  <2> SUFFICES ASSUME NEW f \in FramesIn(HeldGroups(new)) PROVE ~Before(<<e, d>>, f.pos)
    OBVIOUS
  <2>1. CASE f \in FramesIn(HeldGroups(segments))
    <3>1. ~Before(<<e, c>>, f.pos) /\ f.pos \in Nat \X Nat
      BY Zenon, <1>11, <2>1, Positions DEF Writing
    <3> QED
      BY Zenon, <1>8, <1>12, <3>1, Later
  <2>2. CASE f \in ToSet(fr)
    <3>1. PICK k \in DOMAIN fr : f = fr[k]
      BY Zenon, <1>8, <2>2, PosIs
    <3>2. f.pos = <<e, c + k>> /\ k \in Nat /\ k <= n
      BY <1>8, <1>9, <3>1
    <3> QED
      BY <1>8, <1>12, <3>2 DEF Before
  <2> QED
    BY Zenon, <1>1, <1>2, <2>1, <2>2
<1>14. ~Before(<<e, d>>, manifest.ckpt)
  BY Zenon, <1>8, <1>11, <1>12, Later, Positions DEF Writing
<1>15. \A g \in FoundGroups(new) : g \in HeldGroups(new)
  BY <1>1
<1>16. own'.next = own'.committed + Len(own'.frames) + 1 /\ DOMAIN own'.frames = {}
  <2>1. own'.next = x /\ own'.committed = d /\ own'.frames = <<>>
    BY <1>7 DEF x, d
  <2>2. Len(<<>>) = 0 /\ d + 0 + 1 = d + 1
    BY <1>12
  <2> QED
    BY <1>12, <2>1, <2>2
<1>17. own'.epoch = manifest'.epoch
  BY <1>7, <1>8 DEF e
<1>18. Writing'
  BY <1>5, <1>11, <1>13, <1>14, <1>15, <1>16, <1>17 DEF Writing
<1> QED
  BY <1>1, <1>6, <1>18 DEF new

\* The first attempt of a flush, and what it does to the logs.
LEMMA FlushOrder ==
  ASSUME Sound, WholeEnds, Ordered, Writing, Flush
  PROVE  /\ Ordered' /\ Writing' /\ own.state = "available" /\ own.frames # <<>> /\ manifest' = manifest
         /\ \/ /\ Merge(segments) /\ log' = log \o own.frames /\ Full(segments') = log \o own.frames
            \/ /\ own' = [own EXCEPT !.retry = TRUE] /\ outcome' = outcome
               /\ log' = log /\ Full(segments') \in {log, log \o own.frames}
<1>1. /\ own.state = "available" /\ own.frames # <<>> /\ ~own.retry /\ manifest' = manifest
      /\ segments \in Segments /\ segments # <<>> /\ Clean(Last(segments).items) /\ FilesInOrder(segments)
  BY DEF Flush, Sound, Stored, Owned, WholeEnds, Ordered
<1>2. CASE Merge(segments)
  <2>1. Ordered' /\ Writing' /\ log' = log \o own.frames /\ Full(segments') = log \o own.frames
    BY <1>1, <1>2, MergeOrder
  <2> QED
    BY <1>1, <1>2, <2>1
<1>3. CASE /\ \E items \in Partial(Group(own.frames)) : Volatile(Unsynced(segments, items))
           /\ own' = [own EXCEPT !.retry = TRUE] /\ UNCHANGED outcome
  <2>1. PICK items \in Partial(Group(own.frames)) : Volatile(Unsynced(segments, items))
    BY <1>3
  <2> DEFINE new == segments'
  <2>2. /\ new \in Segments /\ FilesInOrder(new) /\ log' = LogOf(Fsynced(new)) /\ log' = log
        /\ HeldGroups(new) = HeldGroups(segments)
        /\ FoundGroups(new) \subseteq HeldGroups(segments) \cup {own.frames}
        /\ Full(new) \in {log, log \o own.frames}
    BY <1>1, <2>1, FailEffect
  <2> HIDE DEF new
  <2>3. /\ own'.state = own.state /\ own'.epoch = own.epoch /\ own'.next = own.next /\ own'.frames = own.frames
        /\ own'.committed = own.committed /\ own'.retry
    BY <1>3 DEF Sound, Owned, Owner
  <2>4. FilesInOrder(segments)' /\ (log = LogOf(Fsynced(segments)))' /\ FoundGroups(segments)' = FoundGroups(new)
        /\ HeldGroups(segments)' = HeldGroups(new)
    BY <2>2 DEF new
  <2>5. \A f \in FramesIn(FoundGroups(new)) : f.pos[1] <= manifest.epoch
    <3>1. \A f \in FramesIn(FoundGroups(new)) : f \in FramesIn(HeldGroups(segments)) \/ f \in ToSet(own.frames)
      BY <2>2, FramesInIs
    <3>2. \A f \in ToSet(own.frames) : f.pos[1] = manifest.epoch
      BY <1>1, OwnGroup
    <3> QED
      BY <3>1, <3>2, Positions DEF Ordered
  <2>6. Ordered'
    BY <1>1, <2>4, <2>5 DEF Ordered
  <2>7. Here' = Here
    BY <2>3 DEF Here
  <2>8. Writing'
    BY <1>1, <2>2, <2>3, <2>4, <2>7 DEF Writing
  <2> QED
    BY <1>1, <1>3, <2>2, <2>6, <2>8 DEF new
<1> QED
  BY <1>2, <1>3 DEF Flush

\* The second, which may leave the store without a writer.
LEMMA RetryOrder ==
  ASSUME Sound, WholeEnds, Ordered, Writing, Retry
  PROVE  /\ Ordered' /\ Writing' /\ own.state = "available" /\ own.frames # <<>> /\ manifest' = manifest
         /\ \/ /\ Merge(NewSegment(segments, own.epoch))
               /\ log' = log \o own.frames /\ Full(segments') = log \o own.frames
            \/ /\ own' = NoGroup([own EXCEPT !.state = "unavailable_write"])
               /\ Tell(Txns(own.frames) \cup own.noops, "indeterminate")
               /\ log' = log /\ Full(segments') \in {log, log \o own.frames}
<1> DEFINE segs == NewSegment(segments, own.epoch)
<1>1. /\ own.state = "available" /\ own.frames # <<>> /\ manifest' = manifest
      /\ segments \in Segments /\ FilesInOrder(segments) /\ own.epoch \in Nat
  BY DEF Retry, Sound, Stored, Owned, Owner, Ordered
<1>2. /\ segs \in Segments /\ segs # <<>> /\ Clean(Last(segs).items)
      /\ FilesInOrder(segs) /\ HeldGroups(segs) = HeldGroups(segments) /\ FoundGroups(segs) = FoundGroups(segments)
  <2>1. Last(segs) = [epoch |-> own.epoch, items |-> <<>>, safe |-> 0] /\ segs \in Segments /\ segs # <<>>
    BY Zenon, <1>1, NewSegmentIs
  <2>2. FilesInOrder(segs) /\ HeldGroups(segs) = HeldGroups(segments) /\ FoundGroups(segs) = FoundGroups(segments)
    BY <1>1, NewOrder
  <2> QED
    BY <2>1, <2>2, EmptyClean
<1>3. \/ Merge(segs)
      \/ /\ \E items \in Partial(Group(own.frames)) : Volatile(Unsynced(segs, items))
         /\ own' = NoGroup([own EXCEPT !.state = "unavailable_write"])
         /\ Tell(Txns(own.frames) \cup own.noops, "indeterminate")
  BY DEF Retry
<1> HIDE DEF segs
<1>4. CASE Merge(segs)
  <2>1. Ordered' /\ Writing' /\ log' = log \o own.frames /\ Full(segments') = log \o own.frames
    BY <1>1, <1>2, <1>4, MergeOrder
  <2> QED
    BY <1>1, <1>4, <2>1 DEF segs
<1>5. CASE /\ \E items \in Partial(Group(own.frames)) : Volatile(Unsynced(segs, items))
           /\ own' = NoGroup([own EXCEPT !.state = "unavailable_write"])
           /\ Tell(Txns(own.frames) \cup own.noops, "indeterminate")
  <2>1. PICK items \in Partial(Group(own.frames)) : Volatile(Unsynced(segs, items))
    BY <1>5
  <2> DEFINE new == segments'
  <2>2. /\ new \in Segments /\ FilesInOrder(new) /\ log' = LogOf(Fsynced(new)) /\ log' = log
        /\ HeldGroups(new) = HeldGroups(segments)
        /\ FoundGroups(new) \subseteq HeldGroups(segments) \cup {own.frames}
        /\ Full(new) \in {log, log \o own.frames}
    BY <1>1, <1>2, <2>1, FailEffect
  <2> HIDE DEF new
  <2>3. own'.state = "unavailable_write"
    BY <1>5, GivenUpMemory DEF Sound, Owned
  <2>4. FilesInOrder(segments)' /\ (log = LogOf(Fsynced(segments)))' /\ FoundGroups(segments)' = FoundGroups(new)
    BY <2>2 DEF new
  <2>5. \A f \in FramesIn(FoundGroups(new)) : f.pos[1] <= manifest.epoch
    <3>1. \A f \in FramesIn(FoundGroups(new)) : f \in FramesIn(HeldGroups(segments)) \/ f \in ToSet(own.frames)
      BY <2>2, FramesInIs
    <3>2. \A f \in ToSet(own.frames) : f.pos[1] = manifest.epoch
      BY <1>1, OwnGroup
    <3> QED
      BY <3>1, <3>2, Positions DEF Ordered
  <2>6. Ordered'
    BY <1>1, <2>4, <2>5 DEF Ordered
  <2>7. Writing'
    BY <2>3 DEF Writing
  <2> QED
    BY <1>1, <1>5, <2>2, <2>6, <2>7 DEF new
<1> QED
  BY <1>3, <1>4, <1>5

\* A loss of power decides about a group that was found and not durable.
LEMMA PowerLossOrder ==
  ASSUME Sound, Ordered, Writing, PowerLoss
  PROVE  /\ Ordered' /\ Writing' /\ manifest' = manifest
         /\ log' = Full(segments') /\ log' \in {log, Full(segments)}
<1> DEFINE new == segments'
<1>1. /\ segments \in Segments /\ FilesInOrder(segments) /\ log = LogOf(Fsynced(segments)) /\ Stored
      /\ InOrder(AllGroups(segments)) /\ TornLasts(segments)
  BY DEF Sound, Stored, Ordered, FilesInOrder
<1>2. /\ InOrder(AllGroups(new)) /\ TornLasts(new) /\ new \in Segments
      /\ log' = LogOf(Fsynced(new))
      /\ HeldGroups(segments) \subseteq HeldGroups(new)
      /\ HeldGroups(new) = FoundGroups(new)
      /\ FoundGroups(new) \subseteq FoundGroups(segments)
  BY <1>1, PowerLossGroups
<1> HIDE DEF new
<1>3. FilesInOrder(new)
  BY <1>2 DEF FilesInOrder
<1>4. FilesInOrder(segments)' /\ (log = LogOf(Fsynced(segments)))' /\ FoundGroups(segments)' = FoundGroups(new)
  BY <1>2, <1>3 DEF new
<1>5. \A f \in FramesIn(FoundGroups(new)) : f \in FramesIn(FoundGroups(segments))
  BY <1>2, FramesInIs
<1>6. manifest' = manifest /\ own'.state = "down"
  BY DownIs DEF PowerLoss
<1>7. Ordered'
  BY <1>4, <1>5, <1>6 DEF Ordered
<1>8. Writing'
  BY <1>6 DEF Writing
<1>9. log' = Full(new)
  BY <1>1, <1>2, SameLog
<1>10. Full(new) \in {log, Full(segments)}
  <2>1. CASE FoundGroups(new) = FoundGroups(segments)
    BY <1>1, <1>2, <2>1, SameLog
  <2>2. CASE FoundGroups(new) = HeldGroups(segments)
    BY <1>1, <1>2, <2>2, SameLog
  <2>3. FoundGroups(new) = FoundGroups(segments) \/ FoundGroups(new) = HeldGroups(segments)
    <3> DEFINE A == FoundGroups(new)
               H == HeldGroups(segments)
               G == FoundGroups(segments)
    <3>1. H \subseteq A /\ A \subseteq G
      BY <1>2
    <3>2. G = H \/ \E u : G = H \cup {u}
      BY Zenon, <1>1, OneMore
    <3> HIDE DEF A, H, G
    <3>3. CASE G = H
      BY <3>1, <3>3 DEF A, H, G
    <3>4. ASSUME NEW u, G = H \cup {u} PROVE A = G \/ A = H
      <4>1. \A x \in A : x \in H \/ x = u
        BY <3>1, <3>4
      <4>2. u \in A => A = G
        BY <3>1, <3>4
      <4>3. u \notin A => A = H
        BY <3>1, <4>1
      <4> QED
        BY <4>2, <4>3
    <3> QED
      BY <3>2, <3>3, <3>4 DEF A, H, G
  <2> QED
    BY <2>1, <2>2, <2>3
<1> QED
  BY <1>6, <1>7, <1>8, <1>9, <1>10 DEF new

\* What recover finds.
Replayed == Replay(manifest.hot, manifest.ckpt, Items(segments))

\* A recovery makes durable what it finds, and goes on behind it in a new epoch.
LEMMA RecoverOrder ==
  ASSUME Sound, WholeEnds, Ordered, Recover(Replayed)
  PROVE  Ordered' /\ Writing' /\ log' = Full(segments') /\ log' = Full(segments)
<1> DEFINE r == Replayed
           new == Synced(Opened, LastGroup(r))
<1>1. ~r.fault /\ segments' = new /\ log' = LogOf(Fsynced(segments')) /\ own' = Recovered(r)
      /\ manifest' = [manifest EXCEPT !.epoch = @ + 1]
  BY DEF Recover, Durable
<1>2. /\ new \in Segments /\ FilesInOrder(new)
      /\ HeldGroups(new) = FoundGroups(segments) /\ FoundGroups(new) = FoundGroups(segments)
      /\ LogOf(Fsynced(new)) = Full(segments) /\ Full(new) = Full(segments)
  BY <1>1, CopyEffect DEF Replayed
<1>3. r \in Replaying
  BY ReplayIs DEF Sound, Replayed
<1>4. /\ own'.frames = <<>> /\ own'.next = 1 /\ own'.epoch = manifest.epoch + 1
      /\ own'.committed = 0 /\ own'.ckpt = manifest.ckpt
  BY <1>1, <1>3, RecoveredIs, RecoveredMemory DEF Sound
<1> HIDE DEF r, new
<1> DEFINE e == manifest.epoch
<1>5. /\ manifest'.epoch = e + 1 /\ manifest'.ckpt = manifest.ckpt /\ e \in Nat /\ manifest.ckpt \in Nat \X Nat
  BY <1>1 DEF Sound, Stored, Manifest
<1>6. \A f \in FramesIn(FoundGroups(segments)) : f.pos \in Nat \X Nat /\ f.pos[1] <= e
  BY Positions DEF Ordered
<1>7. manifest.ckpt[1] <= e
  BY DEF Ordered
<1>8. /\ FilesInOrder(segments)' /\ FoundGroups(segments)' = FoundGroups(segments)
      /\ HeldGroups(segments)' = FoundGroups(segments)
  BY <1>1, <1>2
<1>9. (log = LogOf(Fsynced(segments)))' /\ log' = Full(segments') /\ log' = Full(segments)
  BY <1>1, <1>2
<1>10. Here' = <<e + 1, 0>>
  BY <1>4 DEF Here
<1> HIDE DEF e
<1>11. \A q \in Nat \X Nat : q[1] <= e => q[1] <= e + 1 /\ ~Before(<<e + 1, 0>>, q)
  BY <1>5 DEF Before
<1>12. \A f \in FramesIn(FoundGroups(segments)) : f.pos[1] <= e + 1 /\ ~Before(<<e + 1, 0>>, f.pos)
  BY <1>6, <1>11
<1>13. manifest.ckpt[1] <= e + 1 /\ ~Before(<<e + 1, 0>>, manifest.ckpt)
  BY <1>5, <1>7, <1>11
<1>14. Ordered'
  BY <1>5, <1>8, <1>9, <1>12, <1>13 DEF Ordered
<1>15. own'.next = own'.committed + Len(own'.frames) + 1 /\ DOMAIN own'.frames = {}
  <2>1. Len(<<>>) = 0 /\ DOMAIN <<>> = {}
    OBVIOUS
  <2> QED
    BY <1>4, <2>1
<1>16. own'.epoch = manifest'.epoch
  BY <1>4, <1>5 DEF e
<1>17. Writing'
  BY <1>5, <1>8, <1>10, <1>12, <1>13, <1>15, <1>16 DEF Writing
<1> QED
  BY <1>9, <1>14, <1>17

\* A recovery that is cut may have made it durable, and writes nothing more.
LEMMA CutOrder ==
  ASSUME Sound, WholeEnds, Ordered, ~MayTearCopy, own.state = "down", RecoverCut(Replayed)
  PROVE  /\ Ordered' /\ Writing' /\ manifest' = manifest /\ own' = own /\ outcome' = outcome
         /\ Full(segments') = Full(segments) /\ log' \in {log, Full(segments)}
<1> DEFINE r == Replayed
           copied == Synced(Opened, LastGroup(r))
           new == segments'
<1>1. /\ ~r.fault /\ manifest' = manifest /\ own' = own /\ outcome' = outcome
      /\ \/ segments' = Opened /\ log' = log
         \/ segments' = copied /\ log' = LogOf(Fsynced(segments'))
  BY DEF RecoverCut, Durable, Volatile
<1>2. /\ copied \in Segments /\ FilesInOrder(copied)
      /\ HeldGroups(copied) = FoundGroups(segments) /\ FoundGroups(copied) = FoundGroups(segments)
      /\ LogOf(Fsynced(copied)) = Full(segments) /\ Full(copied) = Full(segments)
  BY <1>1, CopyEffect DEF Replayed
<1>3. /\ FoundGroups(Opened) = FoundGroups(segments) /\ FilesInOrder(Opened)
      /\ Full(Opened) = Full(segments) /\ LogOf(Fsynced(Opened)) = log
  BY OpenedOrder DEF Sound, Ordered
<1> HIDE DEF copied, r
<1>4. /\ FilesInOrder(new) /\ FoundGroups(new) = FoundGroups(segments) /\ log' = LogOf(Fsynced(new))
      /\ Full(new) = Full(segments) /\ log' \in {log, Full(segments)}
  BY <1>1, <1>2, <1>3
<1>5. FilesInOrder(segments)' /\ FoundGroups(segments)' = FoundGroups(segments) /\ (log = LogOf(Fsynced(segments)))'
  BY <1>4
<1>6. Ordered'
  BY <1>1, <1>5 DEF Ordered
<1>7. Writing'
  BY <1>1 DEF Writing
<1> QED
  BY <1>1, <1>4, <1>6, <1>7

\* open, whatever comes of it.
LEMMA OpenOrder ==
  ASSUME Sound, WholeEnds, Ordered, Writing, ~MayTearCopy, Open
  PROVE  /\ Ordered' /\ Writing' /\ own.state = "down"
         /\ \/ Recover(Replayed) /\ log' = Full(segments') /\ log' = Full(segments)
            \/ /\ manifest' = manifest /\ own' = own /\ outcome' = outcome
               /\ Full(segments') = Full(segments) /\ log' \in {log, Full(segments)}
            \/ /\ RecoverUnreadable(Replayed) /\ Replayed.fault
               /\ log' = log /\ Full(segments') = Full(segments)
<1>1. own.state = "down" /\ (Recover(Replayed) \/ RecoverCut(Replayed) \/ RecoverUnreadable(Replayed))
  BY Zenon DEF Open, Replayed
<1>2. CASE Recover(Replayed)
  BY <1>1, <1>2, RecoverOrder
<1>3. CASE RecoverCut(Replayed)
  BY <1>1, <1>3, CutOrder
<1>4. CASE RecoverUnreadable(Replayed)
  <2>1. segments' = segments /\ log' = log /\ manifest' = manifest /\ own'.state = "unavailable_read" /\ Replayed.fault
    BY <1>4, DownIs DEF RecoverUnreadable, Owner
  <2>2. Ordered' /\ Writing' /\ Full(segments') = Full(segments)
    BY <2>1, IdleOrder
  <2> QED
    BY <1>1, <1>4, <2>1, <2>2
<1> QED
  BY <1>1, <1>2, <1>3, <1>4

\* The log after a step is the log, what has been found behind it, or the log with the open group.
LogAfter == {log, Full(segments)} \cup (IF own.state = "available" THEN {log \o own.frames} ELSE {})

\* Every step keeps the order.
LEMMA OrderStep ==
  ASSUME Sound, WholeEnds, Ordered, Writing, ~MayTearCopy, [Next]_vars
  PROVE  Ordered' /\ Writing' /\ log' \in LogAfter
<1>1. ASSUME NEW t \in Txn, NEW o \in Op, Submit(t, o) PROVE Ordered' /\ Writing' /\ log' \in LogAfter
  <2>1. segments' = segments /\ log' = log /\ manifest' = manifest /\ own' = own
    BY <1>1 DEF Submit
  <2> QED
    BY <2>1, IdleOrder DEF LogAfter
<1>2. CASE Take
  BY <1>2, TakeOrder DEF LogAfter
<1>3. CASE Flush
  BY <1>3, FlushOrder DEF LogAfter
<1>4. CASE Retry
  BY <1>4, RetryOrder DEF LogAfter
<1>5. CASE Checkpoint
  BY <1>5, CheckpointOrder DEF LogAfter
<1>6. CASE Exit
  <2>1. segments' = segments /\ log' = log /\ manifest' = manifest /\ own'.state = "down"
    BY <1>6, DownIs DEF Exit
  <2> QED
    BY <2>1, IdleOrder DEF LogAfter
<1>7. CASE PowerLoss
  BY <1>7, PowerLossOrder DEF LogAfter
<1>8. CASE Open
  BY <1>8, OpenOrder DEF LogAfter
<1>9. CASE UNCHANGED vars
  <2>1. segments' = segments /\ log' = log /\ manifest' = manifest /\ own' = own
    BY <1>9 DEF vars
  <2> QED
    BY <2>1, IdleOrder DEF LogAfter
<1> QED
  BY <1>1, <1>2, <1>3, <1>4, <1>5, <1>6, <1>7, <1>8, <1>9 DEF Next

\* A fresh store has no groups.
LEMMA OrderInit ==
  ASSUME Init
  PROVE  /\ Ordered /\ Writing /\ WholeEnds /\ Sound
         /\ log = <<>> /\ Full(segments) = <<>> /\ FoundGroups(segments) = {}
<1>1. /\ segments \in Segments /\ segments = <<>> /\ log = <<>> /\ own.state = "down"
      /\ manifest.ckpt = <<0, 0>> /\ manifest.epoch = 0 /\ Sound
  BY SoundInit, DownIs DEF Init, Sound, Stored
<1>2. DOMAIN AllGroups(segments) = {} /\ AllGroups(segments) \in Lists /\ DOMAIN segments = {}
  <2>1. DOMAIN AllGroups(segments) = DOMAIN segments /\ AllGroups(segments) \in Lists
    BY <1>1, SegmentGroups
  <2>2. DOMAIN segments = {}
    BY <1>1
  <2> QED
    BY <2>1, <2>2
<1>3. FoundGroups(segments) = {} /\ HeldGroups(segments) = {}
  <2>1. FoundGroups(segments) = {}
    BY <1>2 DEF FoundGroups, GroupsIn
  <2> QED
    BY <1>1, <2>1, GroupsFound
<1>4. FilesInOrder(segments)
  BY <1>2, <1>3 DEF FilesInOrder, TornLasts, InOrder
<1>5. FramesIn(FoundGroups(segments)) = {}
  BY <1>3, FramesInIs
<1>6. /\ LogOf(Fsynced(segments)) \in Seq(FrameLine) /\ ToSet(LogOf(Fsynced(segments))) = {}
      /\ Full(segments) = LogOf(Fsynced(segments))
  <2>1. InOrder(AllGroups(segments))
    BY <1>4 DEF FilesInOrder
  <2>2. FramesIn(HeldGroups(segments)) = {}
    BY <1>3, FramesInIs
  <2>3. LET l == LogOf(Fsynced(segments)) IN l \in Seq(FrameLine) /\ ToSet(l) = FramesIn(HeldGroups(segments))
    BY <1>1, <2>1, LogsAre
  <2>4. Full(segments) = LogOf(Fsynced(segments))
    BY Zenon, <1>1, <1>3, <2>1, SameLog
  <2> QED
    BY <2>2, <2>3, <2>4
<1> DEFINE l == LogOf(Fsynced(segments))
<1>7. l = <<>>
  <2>1. l \in Seq(FrameLine) /\ ToSet(l) = {}
    BY <1>6
  <2> HIDE DEF l
  <2>2. DOMAIN l = {}
    BY <2>1, PosIs
  <2> QED
    BY <2>1, <2>2
<1>8. manifest.ckpt[1] <= manifest.epoch
  BY <1>1
<1>9. Ordered
  BY <1>1, <1>4, <1>5, <1>7, <1>8 DEF Ordered
<1>10. Writing /\ WholeEnds
  BY <1>1 DEF Writing, WholeEnds
<1> QED
  BY <1>1, <1>3, <1>6, <1>7, <1>9, <1>10

\* What LogAfter allows is the log and perhaps more.
LEMMA LogLonger ==
  ASSUME Sound, Ordered, Writing, NEW l \in LogAfter
  PROVE  l = log \/ \E more \in Seq(FrameLine) : l = log \o more
<1>1. CASE l = Full(segments)
  <2>1. \/ Full(segments) = LogOf(Fsynced(segments))
        \/ \E u \in Seq(FrameLine) : Full(segments) = LogOf(Fsynced(segments)) \o u
    BY Zenon, OneMore DEF Ordered, Sound, Stored
  <2> QED
    BY <1>1, <2>1 DEF Ordered
<1>2. CASE l = log \o own.frames
  BY Zenon, <1>2 DEF Sound, Owned, Owner
<1> QED
  BY Zenon, <1>1, <1>2 DEF LogAfter

\* The log only grows at its end: no failed write, copy of a group, checkpoint, loss of power or
\* recovery that is cut reorders, repeats or takes back a committed frame, if a recovery is never
\* cut within its copy of the last group (flushGroup and recover in ledger-owner.js).
THEOREM LogOnlyGrows == ~MayTearCopy => (Spec => [][IsPrefix(log, log')]_vars)
<1> DEFINE I == Sound /\ WholeEnds /\ Ordered /\ Writing
<1> SUFFICES ASSUME ~MayTearCopy PROVE Spec => [][IsPrefix(log, log')]_vars
  OBVIOUS
<1>1. Init => I
  BY OrderInit
<1>2. I /\ [Next]_vars => I'
  BY SoundStep, EndsStep, OrderStep
<1>3. I /\ [Next]_vars => [IsPrefix(log, log')]_vars
  <2> SUFFICES ASSUME I, [Next]_vars PROVE IsPrefix(log, log')
    OBVIOUS
  <2>1. log' = log \/ \E more \in Seq(FrameLine) : log' = log \o more
    BY OrderStep, LogLonger
  <2>2. log \in Seq(FrameLine)
    BY DEF Sound, Stored
  <2> DEFINE l == log
             m == log'
  <2> HIDE DEF l, m
  <2>3. l \in Seq(FrameLine) /\ (m = l \/ \E more \in Seq(FrameLine) : m = l \o more)
    BY Zenon, <2>1, <2>2 DEF l, m
  <2>4. Len(l) <= Len(m) /\ SubSeq(l, 1, Len(l)) = SubSeq(m, 1, Len(l))
    BY <2>3
  <2>5. IsPrefix(l, m)
    BY <2>4 DEF IsPrefix
  <2> QED
    BY <2>5 DEF l, m
<1> QED
  BY <1>1, <1>2, <1>3, PTL DEF Spec

-----------------------------------------------------------------------------
(***************************************************************************)
(* Observation of an inject: theorems about InjectObservation, for any     *)
(* numbers of injects, screens, calls and rearms.  A settle window that is *)
(* open remembers what opened it (HasOpener), and a notice has been ticked *)
(* off before it is sent (TickedOff): with the types, and with OwnEvidence *)
(* and ToldOnce as they stand, that is inductive.                          *)
(***************************************************************************)

\* A call of recordObservation that waits for the ledger.
Call == [inject : Inject, cause : Cause, push : BOOLEAN, of : Inject]

\* The timer of a report runs just while its window is open, which something has opened.
Reports(f) ==
  /\ f \in [Inject -> Report]
  /\ \A i \in Inject : /\ f[i].timer <=> f[i].window = "open"
                       /\ f[i].timer => f[i].opener # "none"

\* A settle timer runs only in a window that something has opened.
HasOpener == \A i \in Inject : report[i].timer => report[i].opener # "none"

\* What the source was told is among the absences delivered to it.
TickedOff == \A k \in DOMAIN told : told[k][2] \in delivered[told[k][1]]

ObsTypeInv == ObsTypeOK /\ HasOpener

-----------------------------------------------------------------------------
(* Sequences.                                                                *)

\* An element of two sequences put together is an element of one of them.
LEMMA JoinedElements ==
  ASSUME NEW S, NEW a \in Seq(S), NEW b \in Seq(S)
  PROVE  \A j \in DOMAIN (a \o b) :
           \/ \E n \in 1..Len(a) : (a \o b)[j] = a[n]
           \/ \E n \in 1..Len(b) : (a \o b)[j] = b[n]
<1>1. /\ Len(a) \in Nat /\ Len(b) \in Nat /\ DOMAIN (a \o b) = 1..(Len(a) + Len(b))
      /\ \A j \in 1..(Len(a) + Len(b)) : (a \o b)[j] = IF j <= Len(a) THEN a[j] ELSE b[j - Len(a)]
  OBVIOUS
<1>2. \A j \in 1..(Len(a) + Len(b)) : j \in 1..Len(a) \/ (~(j <= Len(a)) /\ j - Len(a) \in 1..Len(b))
  BY <1>1
<1>3. \A j \in 1..Len(a) : j <= Len(a)
  BY <1>1
<1> QED
  BY <1>1, <1>2, <1>3, Zenon

\* A sequence without one of its elements has no element that it had not.
LEMMA RemovedElements ==
  ASSUME NEW S, NEW s \in Seq(S), NEW k \in DOMAIN s
  PROVE  /\ RemoveAt(s, k) \in Seq(S)
         /\ ToSet(RemoveAt(s, k)) \subseteq ToSet(s)
<1>1. k \in 1..Len(s) /\ Len(s) \in Nat
  OBVIOUS
<1>2. SubSeq(s, 1, k - 1) \in Seq(S) /\ SubSeq(s, k + 1, Len(s)) \in Seq(S)
  BY <1>1
<1>3. RemoveAt(s, k) \in Seq(S)
  BY <1>2 DEF RemoveAt
<1>4. /\ \A n \in 1..Len(SubSeq(s, 1, k - 1)) : n \in 1..Len(s) /\ SubSeq(s, 1, k - 1)[n] = s[n]
      /\ \A n \in 1..Len(SubSeq(s, k + 1, Len(s))) :
           k + n \in 1..Len(s) /\ SubSeq(s, k + 1, Len(s))[n] = s[k + n]
  BY <1>1, SMTT(40)
<1>5. \A j \in DOMAIN RemoveAt(s, k) : \E n \in 1..Len(s) : RemoveAt(s, k)[j] = s[n]
  <2> DEFINE front == SubSeq(s, 1, k - 1)
             rest == SubSeq(s, k + 1, Len(s))
  <2>1. front \in Seq(S) /\ rest \in Seq(S)
    BY <1>2
  <2>2. /\ \A n \in 1..Len(front) : n \in 1..Len(s) /\ front[n] = s[n]
        /\ \A n \in 1..Len(rest) : k + n \in 1..Len(s) /\ rest[n] = s[k + n]
    BY Zenon, <1>4
  <2>3. RemoveAt(s, k) = front \o rest
    BY DEF RemoveAt
  <2> HIDE DEF front, rest
  <2>4. \A j \in DOMAIN (front \o rest) :
          \/ \E n \in 1..Len(front) : (front \o rest)[j] = front[n]
          \/ \E n \in 1..Len(rest) : (front \o rest)[j] = rest[n]
    BY ONLY <2>1, JoinedElements
  <2> QED
    BY <2>2, <2>3, <2>4, ZenonT(40)
<1>6. DOMAIN s = 1..Len(s)
  OBVIOUS
<1>7. ToSet(RemoveAt(s, k)) \subseteq ToSet(s)
  BY <1>5, <1>6, Zenon DEF ToSet
<1> QED
  BY <1>3, <1>7

\* A sequence with one more element has that one and its own.
LEMMA AppendedElements ==
  ASSUME NEW S, NEW s \in Seq(S), NEW x \in S
  PROVE  /\ Append(s, x) \in Seq(S)
         /\ ToSet(Append(s, x)) = ToSet(s) \cup {x}
<1>1. /\ Append(s, x) \in Seq(S) /\ DOMAIN Append(s, x) = 1..(Len(s) + 1)
      /\ DOMAIN s = 1..Len(s) /\ Len(s) \in Nat
      /\ Append(s, x)[Len(s) + 1] = x /\ \A n \in 1..Len(s) : Append(s, x)[n] = s[n]
  OBVIOUS
<1> QED
  BY <1>1 DEF ToSet

\* It repeats nothing if the element is new.
LEMMA AppendedOnce ==
  ASSUME NEW S, NEW s \in Seq(S), NEW x \in S, IsInjective(s), \A n \in DOMAIN s : s[n] # x
  PROVE  IsInjective(Append(s, x))
<1>1. /\ DOMAIN Append(s, x) = 1..(Len(s) + 1) /\ DOMAIN s = 1..Len(s) /\ Len(s) \in Nat
      /\ Append(s, x)[Len(s) + 1] = x /\ \A n \in 1..Len(s) : Append(s, x)[n] = s[n]
  OBVIOUS
<1>2. \A n \in 1..(Len(s) + 1) : n \in 1..Len(s) \/ n = Len(s) + 1
  BY <1>1
<1> QED
  BY <1>1, <1>2 DEF IsInjective

-----------------------------------------------------------------------------
(* Observations.                                                             *)

USE BoundsAssumption DEF Inject, NoInject

\* What recordObservation files is a call, and the only new one.
LEMMA FiledCall ==
  ASSUME calls \in Seq(Call), NEW i \in Inject, NEW cause \in Cause, NEW push \in BOOLEAN, NEW of \in Inject
  PROVE  /\ Filed(i, cause, push, of) \in Seq(Call)
         /\ ToSet(Filed(i, cause, push, of)) =
              ToSet(calls) \cup {[inject |-> i, cause |-> cause, push |-> push, of |-> of]}
<1> DEFINE x == [inject |-> i, cause |-> cause, push |-> push, of |-> of]
<1>1. x \in Call
  BY DEF Call
<1> HIDE DEF x
<1>2. Append(calls, x) \in Seq(Call) /\ ToSet(Append(calls, x)) = ToSet(calls) \cup {x}
  BY <1>1, AppendedElements
<1> QED
  BY <1>2 DEF Filed, x

\* fireAutoReport keeps the reports and the calls what they are, and files its cause for whom it
\* was measured for.
LEMMA FireKeeps ==
  ASSUME calls \in Seq(Call), NEW i \in Inject, NEW reports, Reports(reports),
         NEW cause \in Quiet \cup {"ready"}, NEW of \in Inject, Fire(i, reports, cause, of)
  PROVE  /\ Reports(report') /\ calls' \in Seq(Call)
         /\ \A c \in ToSet(calls') : c \in ToSet(calls) \/ (c.cause = cause /\ c.inject = i /\ c.of = of)
<1> DEFINE r == reports[i]
<1>0. /\ r \in Report /\ reports \in [Inject -> Report]
      /\ (r.timer <=> r.window = "open") /\ (r.timer => r.opener # "none")
  BY DEF Reports
<1>1. ASSUME NEW new \in Report, report' = [reports EXCEPT ![i] = new],
             new.timer <=> new.window = "open", new.timer => new.opener # "none"
      PROVE  Reports(report')
  BY <1>1 DEF Reports
<1>2. Reports(report')
  <2>1. CASE report' = [reports EXCEPT ![i] = r]
    BY Zenon, <1>0, <1>1, <2>1
  <2>2. CASE report' = [reports EXCEPT ![i] = [r EXCEPT !.dwell = TRUE]]
    BY Zenon, <1>0, <1>1, <2>2 DEF Report
  <2>3. CASE report' = [reports EXCEPT ![i] = [r EXCEPT !.window = "open", !.timer = TRUE, !.opener = cause]]
    BY Zenon, <1>0, <1>1, <2>3 DEF Report, Quiet
  <2> QED
    BY Zenon, <2>1, <2>2, <2>3 DEF Fire
<1>3. calls' = calls \/ calls' = Filed(i, cause, TRUE, of)
  BY Zenon DEF Fire
<1>4. cause \in Cause
  BY DEF Cause
<1>5. Filed(i, cause, TRUE, of) \in Seq(Call)
      /\ \A c \in ToSet(Filed(i, cause, TRUE, of)) :
           c \in ToSet(calls) \/ c = [inject |-> i, cause |-> cause, push |-> TRUE, of |-> of]
  <2>1. TRUE \in BOOLEAN
    OBVIOUS
  <2>2. /\ Filed(i, cause, TRUE, of) \in Seq(Call)
        /\ ToSet(Filed(i, cause, TRUE, of)) =
             ToSet(calls) \cup {[inject |-> i, cause |-> cause, push |-> TRUE, of |-> of]}
    BY <1>4, <2>1, FiledCall, Zenon
  <2> QED
    BY <2>2, Zenon
<1>6. \A c \in ToSet(calls') : c \in ToSet(calls) \/ (c.cause = cause /\ c.inject = i /\ c.of = of)
  <2>1. \A c \in ToSet(calls') : c \in ToSet(calls) \/ c = [inject |-> i, cause |-> cause, push |-> TRUE, of |-> of]
    BY <1>3, <1>5, Zenon
  <2> QED
    BY <2>1
<1> QED
  BY Zenon, <1>2, <1>3, <1>5, <1>6

-----------------------------------------------------------------------------
(* Steps.                                                                    *)

LastObserved ==
  Cause \cup {"none", "tracking_started", "tracking_superseded", "inject_delivery_refused", "unknown"}

TrackedRecords == [Inject -> [st : {"none", "tracked", "superseded", "aborted"}, last : LastObserved]]

\* ObsTypeInv without the reports and the calls.
Rest ==
  /\ screens \in 0..MaxScreen /\ wrapped \in BOOLEAN
  /\ machine \in [state : State, marked : BOOLEAN]
  /\ begun \in 0..MaxInject /\ pending \in 0..begun
  /\ record \in TrackedRecords
  /\ delivered \in [Inject -> SUBSET Cause] /\ told \in Seq(Inject \X Cause)
  /\ owed \in [Inject -> BOOLEAN]

\* The parts of ObsTypeInv.
LEMMA Parts == ObsTypeInv <=> Reports(report) /\ calls \in Seq(Call) /\ Rest
  BY Zenon DEF ObsTypeInv, ObsTypeOK, HasOpener, Reports, Rest, Call, TrackedRecords, LastObserved

\* The same of the next state.
LEMMA PartsPrime == ObsTypeInv' <=> Reports(report') /\ calls' \in Seq(Call) /\ Rest'
  BY Zenon DEF ObsTypeInv, ObsTypeOK, HasOpener, Reports, Rest, Call, TrackedRecords, LastObserved

\* A pending report is that of an inject.
LEMMA PendingInject == ASSUME Rest, pending # NoInject PROVE pending \in Inject
  BY DEF Rest

\* A record with another last observation is a record.
LEMMA LastRecord ==
  ASSUME record \in TrackedRecords, NEW i \in Inject, NEW x \in LastObserved
  PROVE  [record EXCEPT ![i].last = x] \in TrackedRecords
  BY DEF TrackedRecords

\* The evidence is of the right inject if that of the new calls is.
OwnNew == \A c \in ToSet(calls') : c \in ToSet(calls) \/ c.cause = "ready" \/ c.of = c.inject

\* A new state of the machine.
LEMMA TransitionKeeps ==
  ASSUME ObsTypeInv, NEW to \in State, NEW cause \in Cause, NEW marked \in BOOLEAN,
         to = "idle" => cause \in Quiet, Transition(to, cause, marked), screens' \in 0..MaxScreen
  PROVE  ObsTypeInv' /\ OwnNew
<1>0. Reports(report) /\ calls \in Seq(Call) /\ Rest
  BY Parts
<1>1. /\ machine' \in [state : State, marked : BOOLEAN]
      /\ UNCHANGED <<wrapped, begun, record, delivered, told>>
  BY DEF Transition
<1>2. Reports(report') /\ calls' \in Seq(Call) /\ OwnNew /\ pending' \in 0..begun /\ owed' \in [Inject -> BOOLEAN]
  <2>1. CASE UNCHANGED <<pending, report, calls, owed>>
    BY <1>0, <2>1 DEF Rest, OwnNew
  <2>2. ASSUME pending # NoInject, to = "idle", Observe(to, cause)
        PROVE  Reports(report') /\ calls' \in Seq(Call) /\ OwnNew /\ pending' \in 0..begun /\ owed' \in [Inject -> BOOLEAN]
    <3>1. pending \in Inject /\ cause \in Quiet
      BY <1>0, <2>2, PendingInject
    <3>2. /\ Fire(pending, report, cause, pending)
          /\ owed' = [owed EXCEPT ![pending] = @ \/ Settles(report[pending])]
          /\ UNCHANGED pending
      BY <2>2 DEF Observe
    <3>3. /\ Reports(report') /\ calls' \in Seq(Call)
          /\ \A c \in ToSet(calls') : c \in ToSet(calls) \/ (c.cause = cause /\ c.inject = pending /\ c.of = pending)
      BY <1>0, <3>1, <3>2, FireKeeps
    <3>4. OwnNew
      BY <3>3, Zenon DEF OwnNew
    <3>5. Settles(report[pending]) \in BOOLEAN
      BY DEF Settles
    <3>6. owed' \in [Inject -> BOOLEAN]
      BY <1>0, <3>1, <3>2, <3>5 DEF Rest
    <3> QED
      BY <1>0, <3>2, <3>3, <3>4, <3>6 DEF Rest
  <2>3. ASSUME pending # NoInject, to # "idle", Observe(to, cause)
        PROVE  Reports(report') /\ calls' \in Seq(Call) /\ OwnNew /\ pending' \in 0..begun /\ owed' \in [Inject -> BOOLEAN]
    <3> DEFINE push == to \notin Busy
    <3>1. pending \in Inject /\ push \in BOOLEAN
      BY <1>0, <2>3, PendingInject
    <3>2. /\ calls' = Filed(pending, cause, push, pending)
          /\ pending' \in {pending, NoInject} /\ UNCHANGED <<report, owed>>
      BY <2>3 DEF Observe
    <3> HIDE DEF push
    <3>3. /\ calls' \in Seq(Call)
          /\ ToSet(calls') = ToSet(calls) \cup
               {[inject |-> pending, cause |-> cause, push |-> push, of |-> pending]}
      BY <1>0, <3>1, <3>2, FiledCall
    <3>4. OwnNew
      BY <3>3 DEF OwnNew
    <3> QED
      BY <1>0, <3>2, <3>3, <3>4 DEF Rest
  <2> QED
    BY <2>1, <2>2, <2>3 DEF Transition, Observe
<1> QED
  BY Zenon, <1>0, <1>1, <1>2, PartsPrime DEF Rest

\* Every step keeps the types and what the open windows remember, and files no evidence of
\* another inject.
LEMMA StepKeeps == ASSUME ObsTypeInv, ObsNext PROVE ObsTypeInv' /\ OwnNew
<1>0. Reports(report) /\ calls \in Seq(Call) /\ Rest
  BY Parts
<1>s. ASSUME Shows PROVE screens' \in 0..MaxScreen
  BY <1>0, <1>s DEF Rest, Shows
<1>u. ASSUME UNCHANGED calls PROVE OwnNew
  BY <1>u DEF OwnNew
<1>1. CASE Output
  <2>1. screens' \in 0..MaxScreen
    BY <1>1, <1>s DEF Output
  <2>2. CASE Transition("idle", "marker", TRUE)
    BY Zenon, <2>1, <2>2, TransitionKeeps DEF State, Cause, Quiet
  <2>3. ASSUME NEW d \in Detected, Transition(d[1], d[2], machine.marked) PROVE ObsTypeInv' /\ OwnNew
    <3>1. /\ d[1] \in State /\ d[1] # "idle" /\ d[2] \in Cause
      BY DEF Detected, State, Busy, Cause
    <3>2. machine.marked \in BOOLEAN
      BY <1>0 DEF Rest
    <3> QED
      BY <2>1, <2>3, <3>1, <3>2, TransitionKeeps
  <2> QED
    BY Zenon, <1>1, <2>2, <2>3 DEF Output
<1>2. CASE Silence
  <2>1. screens' \in 0..MaxScreen
    BY <1>2, <1>s DEF Silence
  <2>2. PICK marked \in {machine.marked, FALSE} : Transition("idle", "quiet", marked)
    BY Zenon, <1>2 DEF Silence
  <2>3. marked \in BOOLEAN
    BY Zenon, <1>0 DEF Rest
  <2> QED
    BY Zenon, <2>1, <2>2, <2>3, TransitionKeeps DEF State, Cause, Quiet
<1>3. CASE ThinkingTimeout
  <2>1. screens' \in 0..MaxScreen
    BY <1>3, <1>s DEF ThinkingTimeout
  <2>2. machine.marked \in BOOLEAN
    BY <1>0 DEF Rest
  <2> QED
    BY <1>3, <2>1, <2>2, TransitionKeeps DEF ThinkingTimeout, State, Cause
<1>4. CASE Ends
  <2>1. screens' \in 0..MaxScreen
    BY <1>0, <1>4 DEF Ends, Rest
  <2>2. PICK cause \in {"exit", "terminated", "kill_failed"} : Transition("dead", cause, FALSE)
    BY Zenon, <1>4 DEF Ends
  <2> QED
    BY Zenon, <2>1, <2>2, TransitionKeeps DEF State, Cause
<1>5. CASE Collected
  BY <1>0, <1>5, <1>u, PartsPrime DEF Collected, Rest, State
<1>6. CASE Surfaces
  <2> DEFINE cause == IF wrapped THEN "ready" ELSE "quiet"
  <2>1. pending \in Inject /\ Fire(pending, report, cause, pending)
    BY <1>0, <1>6, PendingInject DEF Surfaces
  <2>2. cause \in Quiet \cup {"ready"}
    BY DEF Quiet
  <2> HIDE DEF cause
  <2>3. /\ Reports(report') /\ calls' \in Seq(Call)
        /\ \A c \in ToSet(calls') : c \in ToSet(calls) \/ (c.cause = cause /\ c.inject = pending /\ c.of = pending)
    BY Zenon, <1>0, <2>1, <2>2, FireKeeps
  <2>4. Rest'
    BY <1>0, <1>6, <1>s DEF Surfaces, Rest
  <2> QED
    BY <2>3, <2>4, PartsPrime DEF OwnNew
<1>7. CASE Answer
  <2>1. PICK k \in DOMAIN calls : Written(k) \/ Unwritten(k)
    BY <1>7 DEF Answer
  <2>2. calls[k] \in Call
    BY <1>0, <2>1
  <2>3. calls' = RemoveAt(calls, k) /\ UNCHANGED report
    BY <2>1 DEF Written, Unwritten
  <2>4. calls' \in Seq(Call) /\ OwnNew
    BY <1>0, <2>1, <2>3, RemovedElements DEF OwnNew
  <2>5. Rest'
    <3>1. CASE Unwritten(k)
      <4>1. calls[k].inject \in Inject
        BY <2>2 DEF Call
      <4>2. record \in TrackedRecords /\ "unknown" \in LastObserved
        BY <1>0 DEF Rest, LastObserved
      <4>3. record' \in TrackedRecords
        BY <3>1, <4>1, <4>2, LastRecord DEF Unwritten
      <4> QED
        BY <1>0, <3>1, <4>3 DEF Unwritten, Rest
    <3>2. CASE Written(k)
      <4> DEFINE i == calls[k].inject
      <4>1. i \in Inject /\ calls[k].cause \in Cause
        BY <2>2 DEF Call
      <4>2. record' \in TrackedRecords
        BY Zenon, <1>0, <3>2, <4>1, LastRecord DEF Written, Rest, LastObserved
      <4>3. delivered' \in [Inject -> SUBSET Cause]
        <5>1. delivered' = delivered \/ delivered' = [delivered EXCEPT ![i] = @ \cup {calls[k].cause}]
          BY <3>2 DEF Written
        <5>2. delivered \in [Inject -> SUBSET Cause]
          BY <1>0 DEF Rest
        <5> QED
          BY <4>1, <5>1, <5>2
      <4> DEFINE n == <<i, calls[k].cause>>
      <4>4. told \in Seq(Inject \X Cause) /\ n \in Inject \X Cause
        BY Zenon, <1>0, <4>1 DEF Rest
      <4>5. told' = told \/ told' = Append(told, n)
        BY <3>2 DEF Written
      <4> HIDE DEF n
      <4>6. Append(told, n) \in Seq(Inject \X Cause)
        BY <4>4, AppendedElements
      <4>7. told' \in Seq(Inject \X Cause)
        BY Zenon, <4>4, <4>5, <4>6
      <4> QED
        BY Zenon, <1>0, <3>2, <4>2, <4>3, <4>7 DEF Written, Rest
    <3> QED
      BY <2>1, <3>1, <3>2
  <2> QED
    BY <1>0, <2>3, <2>4, <2>5, PartsPrime
<1>8. CASE Dismissed
  BY <1>0, <1>8, <1>u, PartsPrime DEF Dismissed, Rest
<1>9. ASSUME NEW i \in Inject, ReadyTimer(i) PROVE ObsTypeInv' /\ OwnNew
  <2> DEFINE reports == [report EXCEPT ![i].dwell = FALSE]
  <2>1. Reports(reports)
    BY Zenon, <1>0 DEF Reports, Report
  <2>2. Rest'
    BY Zenon, <1>0, <1>9 DEF ReadyTimer, Rest
  <2> HIDE DEF reports
  <2>3. CASE pending = NoInject
    <3>1. report' = reports /\ UNCHANGED calls
      BY <1>9, <2>3 DEF ReadyTimer, reports
    <3> QED
      BY <1>0, <1>u, <2>1, <2>2, <3>1, PartsPrime
  <2>4. CASE pending # NoInject
    <3>1. pending \in Inject /\ Fire(pending, reports, "ready", i)
      BY <1>0, <1>9, <2>4, PendingInject DEF ReadyTimer, reports
    <3>2. /\ Reports(report') /\ calls' \in Seq(Call)
          /\ \A c \in ToSet(calls') : c \in ToSet(calls) \/ (c.cause = "ready" /\ c.inject = pending /\ c.of = i)
      <4>1. "ready" \in Quiet \cup {"ready"}
        OBVIOUS
      <4> QED
        BY Zenon, <1>0, <2>1, <3>1, <4>1, FireKeeps
    <3> QED
      BY <2>2, <3>2, PartsPrime DEF OwnNew
  <2> QED
    BY <2>3, <2>4
<1>10. ASSUME NEW i \in Inject, SettleDropped(i) PROVE ObsTypeInv' /\ OwnNew
  <2>a. report[i] \in Report
    BY <1>0 DEF Reports
  <2>b. Fired(report[i]) \in Report /\ Fired(report[i]).window # "open" /\ ~Fired(report[i]).timer
    BY Zenon, <2>a DEF Fired, Report
  <2>1. Reports(report')
    BY <1>0, <1>10, <2>a, <2>b DEF SettleDropped, Reports
  <2>2. Rest'
    BY <1>0, <1>10 DEF SettleDropped, Rest
  <2>3. UNCHANGED calls
    BY <1>10 DEF SettleDropped
  <2> QED
    BY <1>0, <1>u, <2>1, <2>2, <2>3, PartsPrime
<1>11. ASSUME NEW i \in Inject, SettleRearmed(i) PROVE ObsTypeInv' /\ OwnNew
  <2> DEFINE r == report[i]
             new == [r EXCEPT !.rearms = @ + 1]
  <2>a. r \in Report /\ (r.timer <=> r.window = "open") /\ (r.timer => r.opener # "none")
    BY <1>0 DEF Reports
  <2>b. new \in Report
    BY <1>11, <2>a DEF SettleRearmed, Report
  <2>c. (new.timer <=> new.window = "open") /\ (new.timer => new.opener # "none")
    BY <2>a DEF Report
  <2>d. report' = [report EXCEPT ![i] = new]
    BY <1>11 DEF SettleRearmed
  <2> HIDE DEF r, new
  <2>1. Reports(report')
    BY <1>0, <2>b, <2>c, <2>d DEF Reports
  <2>2. Rest'
    BY Zenon, <1>0, <1>11 DEF SettleRearmed, Rest
  <2>3. UNCHANGED calls
    BY <1>11 DEF SettleRearmed
  <2> QED
    BY <1>0, <1>u, <2>1, <2>2, <2>3, PartsPrime
<1>12. ASSUME NEW i \in Inject, SettleSpeaks(i) PROVE ObsTypeInv' /\ OwnNew
  <2> DEFINE reports == [report EXCEPT ![i] = [Fired(@) EXCEPT !.window = "done"]]
  <2>1. Reports(reports)
    BY Zenon, <1>0 DEF Reports, Report, Fired
  <2>2. Rest'
    BY Zenon, <1>0, <1>12 DEF SettleSpeaks, Rest
  <2> DEFINE opener == report[i].opener
  <2>3. opener \in Quiet \cup {"ready"}
    BY <1>0, <1>12 DEF SettleSpeaks, Reports, Report
  <2>4. Fire(i, reports, opener, i)
    BY <1>12 DEF SettleSpeaks, StillPending
  <2> HIDE DEF reports, opener
  <2>5. /\ Reports(report') /\ calls' \in Seq(Call)
        /\ \A c \in ToSet(calls') : c \in ToSet(calls) \/ (c.cause = opener /\ c.inject = i /\ c.of = i)
    BY Zenon, <1>0, <2>1, <2>3, <2>4, FireKeeps
  <2> QED
    BY <2>2, <2>5, PartsPrime DEF OwnNew
<1>13. ASSUME NEW i \in Inject, Begin(i) PROVE ObsTypeInv' /\ OwnNew
  <2>1. Reports(report')
    BY <1>0, <1>13 DEF Begin, NewReport, Reports, Report, Quiet
  <2>2. record' \in TrackedRecords
    BY <1>0, <1>13 DEF Begin, Rest, TrackedRecords, LastObserved
  <2>3. Rest'
    BY <1>0, <1>13, <2>2 DEF Begin, Rest
  <2>4. UNCHANGED calls
    BY <1>13 DEF Begin
  <2> QED
    BY <1>0, <1>u, <2>1, <2>3, <2>4, PartsPrime
<1>14. ASSUME NEW i \in Inject, Refused(i) PROVE ObsTypeInv' /\ OwnNew
  <2>1. record' \in TrackedRecords
    BY <1>0, <1>14, SMTT(40) DEF Refused, Rest, TrackedRecords, LastObserved
  <2>2. pending' \in 0..begun
    BY <1>0, <1>14 DEF Refused, Rest
  <2>3. Rest' /\ UNCHANGED <<report, calls>>
    BY <1>0, <1>14, <2>1, <2>2 DEF Refused, Rest
  <2> QED
    BY <1>0, <1>u, <2>3, PartsPrime
<1> QED
  BY <1>1, <1>2, <1>3, <1>4, <1>5, <1>6, <1>7, <1>8, <1>9, <1>10, <1>11, <1>12, <1>13, <1>14 DEF ObsNext, Settle

\* The same of a stutter.
LEMMA StutterKeeps == ASSUME ObsTypeInv, UNCHANGED obsVars PROVE ObsTypeInv' /\ OwnNew
<1>1. Reports(report) /\ calls \in Seq(Call) /\ Rest
  BY Parts
<1> QED
  BY <1>1, PartsPrime DEF obsVars, Rest, OwnNew

-----------------------------------------------------------------------------
(* Theorems.                                                                 *)

\* ObsTypeInv holds always.
LEMMA Typed == ObsSpec => []ObsTypeInv
<1>1. ObsInit => ObsTypeInv
  BY DEF ObsInit, ObsTypeInv, ObsTypeOK, HasOpener, NewReport, Report, State, Busy, Quiet
<1>2. ObsTypeInv /\ [ObsNext]_obsVars => ObsTypeInv'
  BY StepKeeps, StutterKeeps
<1> QED
  BY <1>1, <1>2, PTL DEF ObsSpec

\* In every state the machine, the reports with their timers, the records, the calls and the
\* notices have their types; the timer of a report runs just while its window is open, and no
\* report is opened again more often than its bound.
THEOREM ObservationTypes == ObsSpec => []ObsTypeOK
  BY Typed, PTL DEF ObsTypeInv

\* What registerStateObserver, the sweep and the settle timer file under an inject was measured
\* for that inject, however many injects have taken the place of its report meanwhile.
THEOREM OwnEvidenceHolds == ObsSpec => []OwnEvidence
<1>1. ObsInit => OwnEvidence
  BY DEF ObsInit, OwnEvidence, ToSet
<1>2. ObsTypeInv /\ OwnEvidence /\ [ObsNext]_obsVars => OwnEvidence'
  BY StepKeeps, StutterKeeps DEF OwnEvidence, OwnNew
<1> QED
  BY <1>1, <1>2, Typed, PTL DEF ObsSpec

\* markAbsenceDeliveredToSource: no absence of an inject reaches its source twice, whatever the
\* ledger writes again.
THEOREM ToldOnceHolds == ObsSpec => []ToldOnce
<1> DEFINE TickInv == TickedOff /\ ToldOnce
<1>1. ObsInit => TickInv
  BY DEF ObsInit, TickedOff, ToldOnce, IsInjective
<1>2. ObsTypeInv /\ TickInv /\ [ObsNext]_obsVars => TickInv'
  <2> SUFFICES ASSUME ObsTypeInv, TickedOff, ToldOnce, [ObsNext]_obsVars PROVE TickedOff' /\ ToldOnce'
    OBVIOUS
  <2>1. CASE UNCHANGED <<delivered, told>>
    BY <2>1 DEF TickedOff, ToldOnce
  <2>2. ASSUME NEW k \in DOMAIN calls, Written(k) PROVE TickedOff' /\ ToldOnce'
    <3> DEFINE i == calls[k].inject
               cause == calls[k].cause
               n == <<i, cause>>
    <3>1. calls[k] \in Call /\ told \in Seq(Inject \X Cause) /\ delivered \in [Inject -> SUBSET Cause]
      BY Parts DEF Rest
    <3>2. i \in Inject /\ cause \in Cause /\ n \in Inject \X Cause
      BY <3>1 DEF Call
    <3>3. CASE UNCHANGED <<delivered, told>>
      BY <2>1, <3>3
    <3>4. ASSUME cause \notin delivered[i], delivered' = [delivered EXCEPT ![i] = @ \cup {cause}],
                 told' = Append(told, n)
          PROVE  TickedOff' /\ ToldOnce'
      <4>1. \A j \in DOMAIN told : told[j] # n
        BY <3>1, <3>2, <3>4 DEF TickedOff
      <4>2. ToldOnce'
        BY Zenon, <3>1, <3>2, <3>4, <4>1, AppendedOnce DEF ToldOnce
      <4>3. \A j \in DOMAIN told : told[j] \in Inject \X Cause /\ told[j][2] \in delivered'[told[j][1]]
        BY <3>1, <3>2, <3>4 DEF TickedOff
      <4>4. /\ DOMAIN told' = 1..(Len(told) + 1) /\ DOMAIN told = 1..Len(told) /\ Len(told) \in Nat
            /\ told'[Len(told) + 1] = n /\ \A j \in 1..Len(told) : told'[j] = told[j]
        BY <3>1, <3>2, <3>4
      <4>5. n[1] = i /\ n[2] = cause /\ cause \in delivered'[i]
        BY <3>1, <3>2, <3>4
      <4>6. \A j \in 1..(Len(told) + 1) : j \in 1..Len(told) \/ j = Len(told) + 1
        BY <4>4
      <4> HIDE DEF n
      <4> QED
        BY <4>2, <4>3, <4>4, <4>5, <4>6, Zenon DEF TickedOff
    <3> QED
      BY <2>2, <3>3, <3>4 DEF Written, AlreadyDelivered
  <2> QED
    BY Zenon, <2>1, <2>2 DEF ObsNext, obsVars, Output, Silence, ThinkingTimeout, Ends, Collected, Surfaces, Answer, Unwritten,
       Dismissed, ReadyTimer, Settle, SettleDropped, SettleRearmed, SettleSpeaks, Begin, Refused, Transition
<1> QED
  BY <1>1, <1>2, Typed, PTL DEF ObsSpec
===============================================================================
