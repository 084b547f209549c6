--------------------- MODULE LedgerRecoveryProofs ---------------------------
(***************************************************************************)
(* Proofs about what a recovery of Ledger finds, what the owner serves and *)
(* what clients are told, for any transactions, ids, operations and        *)
(* bounds; and that the ledger implements InjectLog.                       *)
(*                                                                         *)
(* A replay of a log in which groups come again makes the same records:    *)
(* the copies change nothing. Complete is the invariant of recovery: the   *)
(* MANIFEST and what is durable make what the whole log makes              *)
(* (Recoverable), the owner serves the same, and the group that it has     *)
(* open fits behind it (Serving, Grouped). Answering adds what clients     *)
(* have been told, and what a recovery must still find for them: with it,  *)
(* each step of the ledger is one of InjectLog or changes nothing there.   *)
(***************************************************************************)
EXTENDS LedgerProofs

-----------------------------------------------------------------------------
(* What frames do to the hot records and to both tiers.                    *)

\* A record after it has been superseded, and after it has ended as w.
Retired(r) == [Observed(r, "tracking_superseded") EXCEPT !.st = "superseded"]
Ended(r, w) == [Observed(r, w) EXCEPT !.st = w]

\* A record that a frame has made or changed is one.
LEMMA ChangedIs ==
  /\ Started # None
  /\ \A r \in Record : \A w : Observed(r, w) # None /\ Observed(r, w).st = r.st
  /\ \A r \in Record : \A w : Ended(r, w) # None /\ Ended(r, w).st = w
  /\ \A r \in Record : Retired(r) # None /\ Retired(r).st = "superseded"
<1>1. Started # None
  BY DEF Started, None
<1>2. None.seq = 0
  BY DEF None
<1>3. ASSUME NEW r \in Record, NEW w
      PROVE  /\ Observed(r, w).seq # 0 /\ Observed(r, w).st = r.st
             /\ \A s : LET q == [Observed(r, w) EXCEPT !.st = s] IN q.seq # 0 /\ q.st = s
  <2>1. r.seq \in Nat /\ r.seq + 1 # 0 /\ r \in [st : {"none", "tracked"} \cup Terminal, seq : Nat, last : Observation]
    BY DEF Record
  <2> DEFINE n == r.seq + 1
             p == [r EXCEPT !.seq = n]
             o == [p EXCEPT !.last = w]
  <2>2. Observed(r, w) = o
    BY DEF Observed
  <2>3. DOMAIN r = {"st", "seq", "last"}
    BY <2>1
  <2> HIDE DEF n
  <2>4. DOMAIN p = {"st", "seq", "last"} /\ p.st = r.st /\ p.seq = n
    BY <2>3
  <2> HIDE DEF p
  <2>5. DOMAIN o = {"st", "seq", "last"} /\ o.st = r.st /\ o.seq = n
    BY <2>4
  <2> HIDE DEF o
  <2>6. \A s : [o EXCEPT !.st = s].seq = n /\ [o EXCEPT !.st = s].st = s
    BY <2>5
  <2>7. n # 0
    BY <2>1 DEF n
  <2> QED
    BY <2>2, <2>5, <2>6, <2>7
<1>4. \A r \in Record : Retired(r).seq # 0 /\ Retired(r).st = "superseded"
  BY <1>3 DEF Retired
<1>5. \A r \in Record : \A w : Ended(r, w).seq # 0 /\ Ended(r, w).st = w
  BY <1>3 DEF Ended
<1>6. \A r \in Record : \A w : Observed(r, w).seq # 0 /\ Observed(r, w).st = r.st
  BY <1>3
<1>7. \A x : x.seq # 0 => x # None
  BY <1>2
<1> QED
  BY <1>1, <1>4, <1>5, <1>6, <1>7

\* What a frame does to each record.
LEMMA AppliedIs ==
  ASSUME NEW v \in Records, NEW f \in FrameLine
  PROVE  LET i == f.op.id
             w == ApplyFrame(v, f)
         IN  /\ w \in Records /\ i \in Id /\ f.over \subseteq Id /\ f.rec \in Record
             /\ f.op.kind \in {"begin", "obs", "state", "reheat"}
             /\ f.op.kind = "state" => f.op.what \in Terminal
             /\ f.op.kind = "begin" =>
                  \A j \in Id : w[j] = IF j = i THEN Started
                                       ELSE IF j \in f.over /\ v[j] # None THEN Retired(v[j]) ELSE v[j]
             /\ f.op.kind = "obs" =>
                  \A j \in Id : w[j] = IF j = i THEN Observed(v[j], f.op.what) ELSE v[j]
             /\ f.op.kind = "state" =>
                  \A j \in Id : w[j] = IF j = i THEN Ended(v[j], f.op.what) ELSE v[j]
             /\ f.op.kind = "reheat" =>
                  \A j \in Id : w[j] = IF j = i THEN f.rec ELSE v[j]
<1>1. f.op \in Op /\ f.over \subseteq Id /\ f.rec \in Record
  BY DEF FrameLine
<1>2. f.op.id \in Id /\ f.op.kind \in {"begin", "obs", "state", "reheat"} /\ (f.op.kind = "state" => f.op.what \in Terminal)
  BY <1>1, OpAssumption
<1>3. DOMAIN v = Id
  BY DEF Records
<1>4. ASSUME f.op.kind = "begin"
      PROVE  \A j \in Id : ApplyFrame(v, f)[j] =
               IF j = f.op.id THEN Started ELSE IF j \in f.over /\ v[j] # None THEN Retired(v[j]) ELSE v[j]
  <2> DEFINE over == {j \in f.over : v[j] # None}
             new(j) == IF j = f.op.id THEN Started
                       ELSE IF j \in over
                            THEN [Observed(v[j], "tracking_superseded") EXCEPT !.st = "superseded"]
                            ELSE v[j]
  <2>1. ApplyFrame(v, f) = [j \in Id |-> new(j)]
    BY <1>4 DEF ApplyFrame
  <2> QED
    BY <2>1 DEF Retired
<1>5. ASSUME f.op.kind = "obs"
      PROVE  \A j \in Id : ApplyFrame(v, f)[j] = IF j = f.op.id THEN Observed(v[j], f.op.what) ELSE v[j]
  <2>1. ApplyFrame(v, f) = [v EXCEPT ![f.op.id] = Observed(@, f.op.what)]
    BY <1>5 DEF ApplyFrame
  <2> QED
    BY <1>2, <1>3, <2>1
<1>6. ASSUME f.op.kind = "state"
      PROVE  \A j \in Id : ApplyFrame(v, f)[j] =
               IF j = f.op.id THEN Ended(v[j], f.op.what) ELSE v[j]
  <2>1. ApplyFrame(v, f) = [v EXCEPT ![f.op.id] = [Observed(@, f.op.what) EXCEPT !.st = f.op.what]]
    BY <1>6 DEF ApplyFrame
  <2> QED
    BY <1>2, <1>3, <2>1 DEF Ended
<1>7. ASSUME f.op.kind = "reheat"
      PROVE  \A j \in Id : ApplyFrame(v, f)[j] = IF j = f.op.id THEN f.rec ELSE v[j]
  <2>1. ApplyFrame(v, f) = [v EXCEPT ![f.op.id] = f.rec]
    BY <1>7 DEF ApplyFrame
  <2> QED
    BY <1>2, <1>3, <2>1
<1> QED
  BY <1>1, <1>2, <1>4, <1>5, <1>6, <1>7, ApplyType

\* A record that is there in h is there in g.
Covers(h, g) == \A i \in Id : h[i] # None => g[i] # None

\* What is there stays, and what has ended stays as it ended.
Keeps(v, w) ==
  \A i \in Id : (v[i] # None => w[i] # None) /\ (v[i].st \in Terminal => w[i].st = v[i].st)

\* The frame f fits hot records h, with records v in both tiers: then it applies to any hot records
\* that go with v, and in both tiers it does to them what it does to v.
Fits(h, v, f) ==
  CASE f.op.kind = "begin" ->
         v[f.op.id] = None /\ \A j \in f.over : h[j] # None /\ v[j].st = "tracked" /\ j # f.op.id
    [] f.op.kind = "obs" -> h[f.op.id] # None
    [] f.op.kind = "state" -> h[f.op.id] # None /\ v[f.op.id].st = "tracked"
    [] f.op.kind = "reheat" -> f.rec # None /\ v[f.op.id] = f.rec

\* When a frame fits, kind by kind.
LEMMA FitsIs ==
  ASSUME NEW f \in FrameLine, NEW h, NEW v
  PROVE  /\ f.op.kind = "begin" => (Fits(h, v, f) <=>
              v[f.op.id] = None /\ \A j \in f.over : h[j] # None /\ v[j].st = "tracked" /\ j # f.op.id)
         /\ f.op.kind = "obs" => (Fits(h, v, f) <=> h[f.op.id] # None)
         /\ f.op.kind = "state" => (Fits(h, v, f) <=> h[f.op.id] # None /\ v[f.op.id].st = "tracked")
         /\ f.op.kind = "reheat" => (Fits(h, v, f) <=> f.rec # None /\ v[f.op.id] = f.rec)
BY Zenon DEF Fits

\* More hot records fit as well.
LEMMA FitsMore ==
  ASSUME NEW f \in FrameLine, NEW h \in Records, NEW g \in Records, NEW v \in Records, Fits(h, v, f), Covers(h, g)
  PROVE  Fits(g, v, f)
<1>1. /\ f.op.id \in Id /\ f.over \subseteq Id /\ f.op.kind \in {"begin", "obs", "state", "reheat"}
  BY AppliedIs
<1>2. CASE f.op.kind = "begin"
  BY <1>1, <1>2, FitsIs DEF Covers
<1>3. CASE f.op.kind = "obs"
  BY <1>1, <1>3, FitsIs DEF Covers
<1>4. CASE f.op.kind = "state"
  BY <1>1, <1>4, FitsIs DEF Covers
<1>5. CASE f.op.kind = "reheat"
  BY <1>1, <1>5, FitsIs
<1> QED
  BY <1>1, <1>2, <1>3, <1>4, <1>5

\* What a frame that fits does.
LEMMA FitStep ==
  ASSUME NEW f \in FrameLine, NEW h \in Records, NEW c \in Records, NEW v \in Records,
         Fits(h, v, f), Tiers(h, c) = v
  PROVE  /\ Applicable(h, f)
         /\ Tiers(ApplyFrame(h, f), c) = ApplyFrame(v, f)
         /\ Keeps(v, ApplyFrame(v, f))
<1> DEFINE i == f.op.id
           h2 == ApplyFrame(h, f)
           v2 == ApplyFrame(v, f)
<1>1. /\ i \in Id /\ f.over \subseteq Id /\ f.op.kind \in {"begin", "obs", "state", "reheat"}
      /\ h2 \in Records /\ v2 \in Records
      /\ f.op.kind = "state" => f.op.what \in Terminal
  BY AppliedIs
<1>2. \A j \in Id : v[j] = IF h[j] # None THEN h[j] ELSE c[j]
  BY DEF Tiers
<1>3. \A j \in Id : h[j] \in Record /\ v[j] \in Record /\ c[j] \in Record
  BY DEF Records
<1>4. "tracked" \notin Terminal /\ None.st \notin Terminal /\ None.st = "none"
  BY DEF Terminal, None
<1>5. SUFFICES /\ Applicable(h, f)
               /\ \A j \in Id : v2[j] = IF h2[j] # None THEN h2[j] ELSE c[j]
               /\ \A j \in Id : (v[j] # None => v2[j] # None) /\ (v[j].st \in Terminal => v2[j].st = v[j].st)
  <2>1. Tiers(h2, c) = [j \in Id |-> IF h2[j] # None THEN h2[j] ELSE c[j]]
    BY DEF Tiers
  <2>2. v2 = [j \in Id |-> v2[j]]
    BY <1>1 DEF Records
  <2> HIDE DEF h2, v2
  <2>3. Tiers(h2, c) = v2
    BY <1>5, <2>1, <2>2
  <2> QED
    BY <1>5, <2>3 DEF Keeps, h2, v2
<1>6. CASE f.op.kind = "begin"
  <2>1. v[i] = None /\ \A j \in f.over : h[j] # None /\ v[j].st = "tracked" /\ j # i
    BY <1>6, FitsIs
  <2>2. h[i] = None
    BY <1>1, <1>2, <2>1
  <2>3. Applicable(h, f)
    BY <1>6, <2>2 DEF Applicable
  <2>4. /\ \A j \in Id : h2[j] = IF j = i THEN Started ELSE IF j \in f.over /\ h[j] # None THEN Retired(h[j]) ELSE h[j]
        /\ \A j \in Id : v2[j] = IF j = i THEN Started ELSE IF j \in f.over /\ v[j] # None THEN Retired(v[j]) ELSE v[j]
    BY <1>6, AppliedIs
  <2> HIDE DEF h2, v2, i
  <2>5. ASSUME NEW j \in Id
        PROVE  /\ v2[j] = IF h2[j] # None THEN h2[j] ELSE c[j]
               /\ v[j] # None => v2[j] # None
               /\ v[j].st \in Terminal => v2[j].st = v[j].st
    <3>1. CASE j = i
      BY <1>4, <2>1, <2>4, <3>1, ChangedIs
    <3>2. CASE j # i /\ j \in f.over
      <4>1. h[j] # None /\ v[j] = h[j] /\ v[j].st = "tracked"
        BY <1>2, <2>1, <3>2
      <4>2. h2[j] = Retired(h[j]) /\ v2[j] = Retired(h[j]) /\ Retired(h[j]) # None
        BY <1>3, <2>4, <3>2, <4>1, ChangedIs
      <4> QED
        BY <1>4, <4>1, <4>2
    <3>3. CASE j # i /\ j \notin f.over
      BY <1>2, <2>4, <3>3
    <3> QED
      BY <3>1, <3>2, <3>3
  <2> QED
    BY <2>3, <2>5
<1>7. CASE f.op.kind = "obs"
  <2>1. h[i] # None
    BY <1>7, FitsIs
  <2>2. Applicable(h, f)
    BY <1>7, <2>1 DEF Applicable
  <2>3. /\ \A j \in Id : h2[j] = IF j = i THEN Observed(h[j], f.op.what) ELSE h[j]
        /\ \A j \in Id : v2[j] = IF j = i THEN Observed(v[j], f.op.what) ELSE v[j]
    BY <1>7, AppliedIs
  <2> HIDE DEF h2, v2, i
  <2>4. ASSUME NEW j \in Id
        PROVE  /\ v2[j] = IF h2[j] # None THEN h2[j] ELSE c[j]
               /\ v[j] # None => v2[j] # None
               /\ v[j].st \in Terminal => v2[j].st = v[j].st
    <3>1. CASE j = i
      <4>1. v[j] = h[j] /\ h2[j] = v2[j] /\ h2[j] = Observed(h[j], f.op.what)
        BY <1>2, <2>1, <2>3, <3>1
      <4>2. Observed(h[j], f.op.what) # None /\ Observed(h[j], f.op.what).st = h[j].st
        BY <1>3, ChangedIs
      <4> QED
        BY <4>1, <4>2
    <3>2. CASE j # i
      BY <1>2, <2>3, <3>2
    <3> QED
      BY <3>1, <3>2
  <2> QED
    BY <2>2, <2>4
<1>8. CASE f.op.kind = "state"
  <2>1. h[i] # None /\ v[i].st = "tracked" /\ v[i] = h[i]
    BY <1>1, <1>2, <1>8, FitsIs
  <2>2. Applicable(h, f)
    BY <1>8, <2>1 DEF Applicable
  <2>3. /\ \A j \in Id : h2[j] = IF j = i THEN Ended(h[j], f.op.what) ELSE h[j]
        /\ \A j \in Id : v2[j] = IF j = i THEN Ended(v[j], f.op.what) ELSE v[j]
    BY <1>8, AppliedIs
  <2> HIDE DEF h2, v2, i
  <2>4. ASSUME NEW j \in Id
        PROVE  /\ v2[j] = IF h2[j] # None THEN h2[j] ELSE c[j]
               /\ v[j] # None => v2[j] # None
               /\ v[j].st \in Terminal => v2[j].st = v[j].st
    <3>1. CASE j = i
      <4>1. v[j] = h[j] /\ h2[j] = v2[j] /\ h2[j] = Ended(h[j], f.op.what)
        BY <2>1, <2>3, <3>1
      <4>2. h2[j] # None
        BY <1>3, <4>1, ChangedIs
      <4> QED
        BY <1>4, <2>1, <3>1, <4>1, <4>2
    <3>2. CASE j # i
      BY <1>2, <2>3, <3>2
    <3> QED
      BY <3>1, <3>2
  <2> QED
    BY <2>2, <2>4
<1>9. CASE f.op.kind = "reheat"
  <2>1. f.rec # None /\ v[i] = f.rec
    BY <1>9, FitsIs
  <2>2. Applicable(h, f)
    BY <1>9 DEF Applicable
  <2>3. /\ \A j \in Id : h2[j] = IF j = i THEN f.rec ELSE h[j]
        /\ \A j \in Id : v2[j] = IF j = i THEN f.rec ELSE v[j]
    BY <1>9, AppliedIs
  <2> HIDE DEF h2, v2, i
  <2> QED
    BY <1>2, <2>1, <2>2, <2>3
<1> QED
  BY <1>1, <1>6, <1>7, <1>8, <1>9

\* A frame that fits leaves no record out that was there.
LEMMA FitCovers ==
  ASSUME NEW f \in FrameLine, NEW h \in Records, NEW g \in Records, NEW v \in Records,
         Fits(h, v, f), Covers(h, g)
  PROVE  Covers(ApplyFrame(h, f), ApplyFrame(g, f))
<1> DEFINE i == f.op.id
           h2 == ApplyFrame(h, f)
           g2 == ApplyFrame(g, f)
<1>1. /\ i \in Id /\ f.op.kind \in {"begin", "obs", "state", "reheat"}
  BY AppliedIs
<1>2. \A j \in Id : h[j] \in Record /\ g[j] \in Record /\ (h[j] # None => g[j] # None)
  BY DEF Records, Covers
<1> SUFFICES ASSUME NEW j \in Id, h2[j] # None PROVE g2[j] # None
  BY DEF Covers
<1>3. CASE f.op.kind = "begin"
  <2>1. /\ h2[j] = IF j = i THEN Started ELSE IF j \in f.over /\ h[j] # None THEN Retired(h[j]) ELSE h[j]
        /\ g2[j] = IF j = i THEN Started ELSE IF j \in f.over /\ g[j] # None THEN Retired(g[j]) ELSE g[j]
    BY <1>3, AppliedIs
  <2> HIDE DEF h2, g2, i
  <2> QED
    BY <1>2, <2>1, ChangedIs
<1>4. CASE f.op.kind = "obs"
  <2>1. /\ h2[j] = IF j = i THEN Observed(h[j], f.op.what) ELSE h[j]
        /\ g2[j] = IF j = i THEN Observed(g[j], f.op.what) ELSE g[j]
    BY <1>4, AppliedIs
  <2> HIDE DEF h2, g2, i
  <2> QED
    BY <1>2, <2>1, ChangedIs
<1>5. CASE f.op.kind = "state"
  <2>1. /\ h2[j] = IF j = i THEN Ended(h[j], f.op.what) ELSE h[j]
        /\ g2[j] = IF j = i THEN Ended(g[j], f.op.what) ELSE g[j]
    BY <1>5, AppliedIs
  <2> HIDE DEF h2, g2, i
  <2> QED
    BY <1>2, <2>1, ChangedIs
<1>6. CASE f.op.kind = "reheat"
  <2>1. /\ h2[j] = IF j = i THEN f.rec ELSE h[j]
        /\ g2[j] = IF j = i THEN f.rec ELSE g[j]
    BY <1>6, AppliedIs
  <2> HIDE DEF h2, g2, i
  <2>2. f.rec # None
    BY <1>6, FitsIs
  <2> QED
    BY <1>2, <2>1, <2>2
<1> QED
  BY <1>1, <1>3, <1>4, <1>5, <1>6

\* Keeping is an order.
LEMMA KeepsOrder ==
  /\ \A v : Keeps(v, v)
  /\ \A u, v, w : Keeps(u, v) /\ Keeps(v, w) => Keeps(u, w)
BY DEF Keeps

\* The effect of frames, one after the other.
LEMMA ApplySteps ==
  ASSUME NEW v \in Records, NEW l \in Seq(FrameLine)
  PROVE  /\ ApplyAll(v, <<>>) = v /\ ApplyAll(v, SubSeq(l, 1, 0)) = v
         /\ ApplyAll(v, SubSeq(l, 1, Len(l))) = ApplyAll(v, l)
         /\ \A k \in 0 .. Len(l) : ApplyAll(v, SubSeq(l, 1, k)) \in Records
         /\ \A k \in 1 .. Len(l) : /\ l[k] \in FrameLine
                                   /\ ApplyAll(v, SubSeq(l, 1, k)) = ApplyFrame(ApplyAll(v, SubSeq(l, 1, k - 1)), l[k])
         /\ ApplyAll(v, l) \in Records
         /\ \A f \in FrameLine : ApplyAll(v, Append(l, f)) = ApplyFrame(ApplyAll(v, l), f)
<1> DEFINE at(k) == SubSeq(l, 1, k)
           S == Seq(FrameLine)
<1>1. /\ Len(l) \in Nat /\ at(0) = <<>> /\ at(Len(l)) = l
      /\ \A k \in 0 .. Len(l) : at(k) \in S
      /\ \A k \in 1 .. Len(l) : at(k) = Append(at(k - 1), l[k]) /\ l[k] \in FrameLine /\ at(k - 1) \in S
  BY Beginnings
<1>2. \A s \in S : \A f \in FrameLine :
        ApplyAll(v, <<>>) = v /\ ApplyAll(v, Append(s, f)) = ApplyFrame(ApplyAll(v, s), f)
  BY ZenonT(40), AlongApply DEF ApplyAll
<1>e. ApplyAll(v, <<>>) = v
  <2>1. <<>> \in Seq({1}) /\ 1 \in {1}
    OBVIOUS
  <2> QED
    BY Zenon, <2>1, AlongApply DEF ApplyAll
<1> HIDE DEF at
<1>3. \A k \in 1 .. Len(l) : ApplyAll(v, at(k)) = ApplyFrame(ApplyAll(v, at(k - 1)), l[k])
  BY Zenon, <1>1, <1>2
<1> DEFINE P == {k \in 0 .. Len(l) : ApplyAll(v, at(k)) \in Records}
<1>4. 0 \in P
  BY <1>1, <1>e
<1>5. ASSUME NEW k \in 1 .. Len(l), k - 1 \in P PROVE k \in P
  <2>1. ApplyAll(v, at(k - 1)) \in Records /\ l[k] \in FrameLine /\ k \in 0 .. Len(l)
    BY <1>1, <1>5
  <2>2. ApplyFrame(ApplyAll(v, at(k - 1)), l[k]) \in Records
    BY <2>1, ApplyType
  <2> QED
    BY <1>3, <2>1, <2>2
<1> HIDE DEF P
<1>6. \A k \in 0 .. Len(l) : k \in P
  BY Zenon, <1>1, <1>4, <1>5, Climb
<1>7. \A k \in 0 .. Len(l) : ApplyAll(v, at(k)) \in Records
  BY <1>6 DEF P
<1>8. ApplyAll(v, at(0)) = v /\ ApplyAll(v, at(Len(l))) = ApplyAll(v, l)
  BY <1>1, <1>e
<1>9. ApplyAll(v, l) \in Records
  BY <1>1, <1>7, <1>8
<1>10. \A f \in FrameLine : ApplyAll(v, Append(l, f)) = ApplyFrame(ApplyAll(v, l), f)
  BY <1>2
<1> QED
  BY <1>1, <1>e, <1>3, <1>7, <1>8, <1>9, <1>10 DEF at

\* The effect of frames behind frames.
LEMMA ApplyJoined ==
  ASSUME NEW v \in Records, NEW a \in Seq(FrameLine), NEW b \in Seq(FrameLine)
  PROVE  ApplyAll(v, a \o b) = ApplyAll(ApplyAll(v, a), b)
<1> DEFINE w == ApplyAll(v, a)
           at(k) == SubSeq(b, 1, k)
           S == Seq(FrameLine)
           P == {k \in 0 .. Len(b) : ApplyAll(v, a \o at(k)) = ApplyAll(w, at(k))}
<1>1. w \in Records /\ Len(b) \in Nat
  BY ApplySteps
<1>2. /\ a \o at(0) = a /\ a \o at(Len(b)) = a \o b
      /\ \A j \in 1 .. Len(b) : /\ a \o at(j - 1) \in S /\ b[j] \in FrameLine
                                /\ a \o at(j) = Append(a \o at(j - 1), b[j])
  <2>1. a \o SubSeq(b, 1, 0) = a
    BY JoinBySteps
  <2>2. a \o SubSeq(b, 1, Len(b)) = a \o b
    BY JoinBySteps
  <2>3. ASSUME NEW j \in 1 .. Len(b)
        PROVE  /\ a \o SubSeq(b, 1, j - 1) \in Seq(FrameLine) /\ b[j] \in FrameLine
               /\ a \o SubSeq(b, 1, j) = Append(a \o SubSeq(b, 1, j - 1), b[j])
    BY SMTT(30), JoinBySteps
  <2> QED
    BY Zenon, <2>1, <2>2, <2>3
<1>3. /\ ApplyAll(w, at(0)) = w /\ ApplyAll(w, at(Len(b))) = ApplyAll(w, b)
      /\ \A k \in 1 .. Len(b) : ApplyAll(w, at(k)) = ApplyFrame(ApplyAll(w, at(k - 1)), b[k])
  BY <1>1, ApplySteps
<1>4. \A s \in S : \A f \in FrameLine : ApplyAll(v, Append(s, f)) = ApplyFrame(ApplyAll(v, s), f)
  BY ApplySteps
<1> HIDE DEF at
<1>5. 0 \in P
  <2>1. ApplyAll(v, a \o at(0)) = ApplyAll(w, at(0))
    BY Zenon, <1>2, <1>3
  <2> QED
    BY <1>1, <2>1
<1>6. ASSUME NEW k \in 1 .. Len(b), k - 1 \in P PROVE k \in P
  <2>1. ApplyAll(v, a \o at(k - 1)) = ApplyAll(w, at(k - 1)) /\ k \in 0 .. Len(b)
    BY <1>1, <1>6
  <2>2. ApplyAll(v, a \o at(k)) = ApplyFrame(ApplyAll(v, a \o at(k - 1)), b[k])
    BY Zenon, <1>2, <1>4
  <2> QED
    BY <1>3, <2>1, <2>2
<1> HIDE DEF P
<1>7. \A k \in 0 .. Len(b) : k \in P
  BY Zenon, <1>1, <1>5, <1>6, Climb
<1>8. ApplyAll(v, a \o at(Len(b))) = ApplyAll(w, at(Len(b)))
  BY <1>1, <1>7 DEF P
<1> QED
  BY <1>2, <1>3, <1>8

\* Frames that fit, each after those before it.
Chain(h, v, l) ==
  \A k \in DOMAIN l : Fits(ApplyAll(h, SubSeq(l, 1, k - 1)), ApplyAll(v, SubSeq(l, 1, k - 1)), l[k])

\* A chain grows by a frame that fits.
LEMMA ChainMore ==
  ASSUME NEW h, NEW v, NEW l \in Seq(FrameLine), NEW f \in FrameLine
  PROVE  /\ Chain(h, v, <<>>)
         /\ Chain(h, v, l) /\ Fits(ApplyAll(h, l), ApplyAll(v, l), f) => Chain(h, v, Append(l, f))
<1>1. Chain(h, v, <<>>)
  BY DEF Chain
<1> DEFINE m == Append(l, f)
<1>2. /\ Len(l) \in Nat /\ DOMAIN m = 1 .. Len(l) + 1 /\ DOMAIN l = 1 .. Len(l)
      /\ \A k \in 1 .. Len(l) : m[k] = l[k] /\ SubSeq(m, 1, k - 1) = SubSeq(l, 1, k - 1)
      /\ m[Len(l) + 1] = f /\ SubSeq(m, 1, Len(l)) = l
  <2>1. Len(l) \in Nat /\ DOMAIN m = 1 .. Len(l) + 1 /\ DOMAIN l = 1 .. Len(l) /\ m[Len(l) + 1] = f
    OBVIOUS
  <2>2. ASSUME NEW k \in 1 .. Len(l) PROVE m[k] = l[k] /\ SubSeq(m, 1, k - 1) = SubSeq(l, 1, k - 1)
    <3>1. \A j \in 1 .. Len(l) : m[j] = l[j]
      OBVIOUS
    <3> DEFINE p == SubSeq(m, 1, k - 1)
               q == SubSeq(l, 1, k - 1)
    <3>2. p = [j \in 1 .. k - 1 |-> m[j]] /\ q = [j \in 1 .. k - 1 |-> l[j]]
      <4>1. m \in Seq(FrameLine) /\ k - 1 \in 0 .. Len(l) /\ Len(m) = Len(l) + 1
        OBVIOUS
      <4> HIDE DEF m
      <4> QED
        BY <4>1
    <3>3. \A j \in 1 .. k - 1 : m[j] = l[j]
      BY <3>1
    <3> HIDE DEF p, q
    <3> QED
      BY <3>1, <3>2, <3>3 DEF p, q
  <2>3. SubSeq(m, 1, Len(l)) = l
    <3>1. m \in Seq(FrameLine) /\ Len(m) = Len(l) + 1 /\ \A j \in 1 .. Len(l) : m[j] = l[j]
      OBVIOUS
    <3> DEFINE p == SubSeq(m, 1, Len(l))
    <3> HIDE DEF m
    <3>2. p \in Seq(FrameLine) /\ Len(p) = Len(l) /\ \A j \in 1 .. Len(l) : p[j] = m[j]
      BY <2>1, <3>1
    <3> HIDE DEF p
    <3>3. p = l
      BY <2>1, <3>1, <3>2
    <3> QED
      BY <3>3 DEF p
  <2> QED
    BY <2>1, <2>2, <2>3
<1> HIDE DEF m
<1>3. ASSUME Chain(h, v, l), Fits(ApplyAll(h, l), ApplyAll(v, l), f), NEW k \in DOMAIN m
      PROVE  Fits(ApplyAll(h, SubSeq(m, 1, k - 1)), ApplyAll(v, SubSeq(m, 1, k - 1)), m[k])
  <2>1. CASE k \in 1 .. Len(l)
    <3>1. Fits(ApplyAll(h, SubSeq(l, 1, k - 1)), ApplyAll(v, SubSeq(l, 1, k - 1)), l[k])
      BY <1>2, <1>3, <2>1 DEF Chain
    <3> QED
      BY Zenon, <1>2, <2>1, <3>1
  <2>2. CASE k = Len(l) + 1
    <3>1. k - 1 = Len(l)
      BY <1>2, <2>2
    <3> QED
      BY Zenon, <1>2, <1>3, <2>2, <3>1
  <2> QED
    BY <1>2, <2>1, <2>2
<1> QED
  BY <1>1, <1>3 DEF Chain, m

\* A chain does to the hot records what it does to those of both tiers.
LEMMA ChainRuns ==
  ASSUME NEW h \in Records, NEW c \in Records, NEW v \in Records, NEW l \in Seq(FrameLine),
         Tiers(h, c) = v, Chain(h, v, l)
  PROVE  /\ Tiers(ApplyAll(h, l), c) = ApplyAll(v, l)
         /\ Keeps(v, ApplyAll(v, l))
<1> DEFINE at(k) == SubSeq(l, 1, k)
           P == {k \in 0 .. Len(l) : /\ Tiers(ApplyAll(h, at(k)), c) = ApplyAll(v, at(k))
                                     /\ Keeps(v, ApplyAll(v, at(k)))}
<1>1. /\ ApplyAll(h, at(0)) = h /\ ApplyAll(h, at(Len(l))) = ApplyAll(h, l)
      /\ \A k \in 0 .. Len(l) : ApplyAll(h, at(k)) \in Records
      /\ \A k \in 1 .. Len(l) : l[k] \in FrameLine /\ ApplyAll(h, at(k)) = ApplyFrame(ApplyAll(h, at(k - 1)), l[k])
  BY ApplySteps
<1>2. /\ ApplyAll(v, at(0)) = v /\ ApplyAll(v, at(Len(l))) = ApplyAll(v, l)
      /\ \A k \in 0 .. Len(l) : ApplyAll(v, at(k)) \in Records
      /\ \A k \in 1 .. Len(l) : ApplyAll(v, at(k)) = ApplyFrame(ApplyAll(v, at(k - 1)), l[k])
  BY ApplySteps
<1>3. Len(l) \in Nat /\ DOMAIN l = 1 .. Len(l)
  OBVIOUS
<1>4. \A k \in 1 .. Len(l) : Fits(ApplyAll(h, at(k - 1)), ApplyAll(v, at(k - 1)), l[k])
  BY <1>3 DEF Chain
<1> HIDE DEF at
<1>5. 0 \in P
  BY <1>1, <1>2, <1>3, KeepsOrder
<1>6. ASSUME NEW k \in 1 .. Len(l), k - 1 \in P PROVE k \in P
  <2> DEFINE g == ApplyAll(h, at(k - 1))
             w == ApplyAll(v, at(k - 1))
  <2>1. /\ k \in 0 .. Len(l) /\ k - 1 \in 0 .. Len(l) /\ Tiers(g, c) = w /\ Keeps(v, w)
    BY <1>3, <1>6
  <2>2. g \in Records /\ w \in Records /\ l[k] \in FrameLine /\ Fits(g, w, l[k])
    BY <1>1, <1>2, <1>4, <2>1
  <2> HIDE DEF g, w
  <2>3. Tiers(ApplyFrame(g, l[k]), c) = ApplyFrame(w, l[k]) /\ Keeps(w, ApplyFrame(w, l[k]))
    BY <2>1, <2>2, FitStep
  <2>4. Keeps(v, ApplyFrame(w, l[k]))
    BY <2>1, <2>3, KeepsOrder
  <2>5. ApplyAll(h, at(k)) = ApplyFrame(g, l[k]) /\ ApplyAll(v, at(k)) = ApplyFrame(w, l[k])
    BY <1>1, <1>2 DEF g, w
  <2> QED
    BY <2>1, <2>3, <2>4, <2>5
<1> HIDE DEF P
<1>7. \A k \in 0 .. Len(l) : k \in P
  BY Zenon, <1>3, <1>5, <1>6, Climb
<1>8. Len(l) \in P
  BY <1>3, <1>7
<1> QED
  BY <1>1, <1>2, <1>8 DEF P

-----------------------------------------------------------------------------
(* Copies of groups change nothing: a replay is one of the log.            *)

\* The frames that a replay has seen and that f is a copy of, or differs from.
Twins(r, f) == {g \in r.seen : g.pos = f.pos \/ g.txn = f.txn}

\* What the replay of a frame does, case by case.
LEMMA FrameReplayed ==
  ASSUME NEW r \in Replaying, NEW f \in FrameLine
  PROVE  LET q == ReplayFrame(r, f)
         IN  /\ q \in Replaying /\ q.from = r.from
             /\ r.fault => q = r
             /\ ~r.fault /\ Twins(r, f) # {} =>
                  q.hot = r.hot /\ q.seen = r.seen /\ q.fresh = r.fresh /\ (q.fault <=> Twins(r, f) # {f})
             /\ ~r.fault /\ Twins(r, f) = {} /\ ~Before(r.from, f.pos) =>
                  q.hot = r.hot /\ q.seen = r.seen \cup {f} /\ q.fresh = r.fresh /\ ~q.fault
             /\ ~r.fault /\ Twins(r, f) = {} /\ Before(r.from, f.pos) /\ ~Applicable(r.hot, f) =>
                  q.hot = r.hot /\ q.seen = r.seen /\ q.fresh = r.fresh /\ q.fault
             /\ ~r.fault /\ Twins(r, f) = {} /\ Before(r.from, f.pos) /\ Applicable(r.hot, f) =>
                  /\ q.hot = ApplyFrame(r.hot, f) /\ q.seen = r.seen \cup {f}
                  /\ q.fresh = r.fresh \cup {f.txn} /\ ~q.fault
<1> DEFINE q == ReplayFrame(r, f)
<1>1. q \in Replaying
  BY ReplayFrameType
<1>2. q = IF r.fault THEN r
          ELSE IF Twins(r, f) # {} THEN [r EXCEPT !.fault = Twins(r, f) # {f}]
          ELSE IF ~Before(r.from, f.pos) THEN [r EXCEPT !.seen = @ \cup {f}]
          ELSE IF ~Applicable(r.hot, f) THEN [r EXCEPT !.fault = TRUE]
          ELSE [r EXCEPT !.hot = ApplyFrame(@, f), !.seen = @ \cup {f}, !.fresh = @ \cup {f.txn}]
  BY Zenon DEF ReplayFrame, Twins
<1> HIDE DEF q
<1>3. DOMAIN r = {"hot", "from", "seen", "fresh", "unapplied", "last", "fault"}
  BY DEF Replaying
<1>4. CASE r.fault
  BY <1>1, <1>2, <1>4 DEF q
<1>5. CASE ~r.fault /\ Twins(r, f) # {}
  <2>1. q = [r EXCEPT !.fault = Twins(r, f) # {f}]
    BY <1>2, <1>5
  <2>2. q.hot = r.hot /\ q.seen = r.seen /\ q.fresh = r.fresh /\ q.from = r.from
    BY <1>3, <2>1
  <2> DEFINE b == Twins(r, f) # {f}
  <2>3. q = [r EXCEPT !.fault = b]
    BY <2>1
  <2> HIDE DEF b
  <2>4. q.fault = b
    BY <1>3, <2>3
  <2>5. q.fault <=> Twins(r, f) # {f}
    BY Zenon, <2>4 DEF b
  <2> QED
    BY <1>1, <1>5, <2>2, <2>5 DEF q
<1>6. CASE ~r.fault /\ Twins(r, f) = {} /\ ~Before(r.from, f.pos)
  <2>1. q = [r EXCEPT !.seen = @ \cup {f}]
    BY <1>2, <1>6
  <2>2. q.hot = r.hot /\ q.seen = r.seen \cup {f} /\ q.fresh = r.fresh /\ q.from = r.from /\ q.fault = r.fault
    BY <1>3, <2>1
  <2> QED
    BY <1>1, <1>6, <2>2 DEF q
<1>7. CASE ~r.fault /\ Twins(r, f) = {} /\ Before(r.from, f.pos) /\ ~Applicable(r.hot, f)
  <2>1. q = [r EXCEPT !.fault = TRUE]
    BY <1>2, <1>7
  <2>2. q.fault /\ q.from = r.from /\ q.hot = r.hot /\ q.seen = r.seen /\ q.fresh = r.fresh
    BY <1>3, <2>1
  <2> QED
    BY <1>1, <1>7, <2>2 DEF q
<1>8. CASE ~r.fault /\ Twins(r, f) = {} /\ Before(r.from, f.pos) /\ Applicable(r.hot, f)
  <2>1. q = [r EXCEPT !.hot = ApplyFrame(@, f), !.seen = @ \cup {f}, !.fresh = @ \cup {f.txn}]
    BY <1>2, <1>8
  <2>2. /\ q.hot = ApplyFrame(r.hot, f) /\ q.seen = r.seen \cup {f} /\ q.fresh = r.fresh \cup {f.txn}
        /\ q.from = r.from /\ q.fault = r.fault
    BY <1>3, <2>1
  <2> QED
    BY <1>1, <1>8, <2>2 DEF q
<1> QED
  BY <1>4, <1>5, <1>6, <1>7, <1>8

\* Replays that have come to the same.
Same(r, s) == r.hot = s.hot /\ r.from = s.from /\ r.seen = s.seen /\ r.fresh = s.fresh /\ (r.fault <=> s.fault)

\* They stay the same over the next frame.
LEMMA SameStep ==
  ASSUME NEW r \in Replaying, NEW s \in Replaying, Same(r, s), NEW f \in FrameLine
  PROVE  Same(ReplayFrame(r, f), ReplayFrame(s, f))
<1>1. Twins(r, f) = Twins(s, f)
  BY DEF Twins, Same
<1>2. r.hot = s.hot /\ r.from = s.from /\ r.seen = s.seen /\ r.fresh = s.fresh /\ (r.fault <=> s.fault)
  BY DEF Same
<1> DEFINE p == ReplayFrame(r, f)
           q == ReplayFrame(s, f)
<1>3. /\ p.from = r.from
      /\ r.fault => p = r
      /\ ~r.fault /\ Twins(r, f) # {} =>
           p.hot = r.hot /\ p.seen = r.seen /\ p.fresh = r.fresh /\ (p.fault <=> Twins(r, f) # {f})
      /\ ~r.fault /\ Twins(r, f) = {} /\ ~Before(r.from, f.pos) =>
           p.hot = r.hot /\ p.seen = r.seen \cup {f} /\ p.fresh = r.fresh /\ ~p.fault
      /\ ~r.fault /\ Twins(r, f) = {} /\ Before(r.from, f.pos) /\ ~Applicable(r.hot, f) =>
           p.hot = r.hot /\ p.seen = r.seen /\ p.fresh = r.fresh /\ p.fault
      /\ ~r.fault /\ Twins(r, f) = {} /\ Before(r.from, f.pos) /\ Applicable(r.hot, f) =>
           /\ p.hot = ApplyFrame(r.hot, f) /\ p.seen = r.seen \cup {f}
           /\ p.fresh = r.fresh \cup {f.txn} /\ ~p.fault
  BY FrameReplayed
<1>4. /\ q.from = s.from
      /\ s.fault => q = s
      /\ ~s.fault /\ Twins(s, f) # {} =>
           q.hot = s.hot /\ q.seen = s.seen /\ q.fresh = s.fresh /\ (q.fault <=> Twins(s, f) # {f})
      /\ ~s.fault /\ Twins(s, f) = {} /\ ~Before(s.from, f.pos) =>
           q.hot = s.hot /\ q.seen = s.seen \cup {f} /\ q.fresh = s.fresh /\ ~q.fault
      /\ ~s.fault /\ Twins(s, f) = {} /\ Before(s.from, f.pos) /\ ~Applicable(s.hot, f) =>
           q.hot = s.hot /\ q.seen = s.seen /\ q.fresh = s.fresh /\ q.fault
      /\ ~s.fault /\ Twins(s, f) = {} /\ Before(s.from, f.pos) /\ Applicable(s.hot, f) =>
           /\ q.hot = ApplyFrame(s.hot, f) /\ q.seen = s.seen \cup {f}
           /\ q.fresh = s.fresh \cup {f.txn} /\ ~q.fault
  BY FrameReplayed
<1> HIDE DEF p, q
<1>5. Same(p, q)
  BY Zenon, <1>1, <1>2, <1>3, <1>4 DEF Same
<1> QED
  BY <1>5 DEF p, q

\* The frames of s are replayed one after the other.
ReplayAll(r, s) == Along(ReplayFrame, r, s)

\* Frames that are replayed one after the other.
LEMMA FrameSteps ==
  ASSUME NEW r \in Replaying, NEW s \in Seq(FrameLine)
  PROVE  /\ ReplayAll(r, SubSeq(s, 1, 0)) = r
         /\ ReplayAll(r, SubSeq(s, 1, Len(s))) = ReplayAll(r, s)
         /\ Len(s) \in Nat
         /\ \A k \in 0 .. Len(s) : /\ ReplayAll(r, SubSeq(s, 1, k)) \in Replaying
                                   /\ ReplayAll(r, SubSeq(s, 1, k)).from = r.from
                                   /\ r.fault => ReplayAll(r, SubSeq(s, 1, k)).fault
         /\ \A k \in 1 .. Len(s) : /\ s[k] \in FrameLine
                                   /\ ReplayAll(r, SubSeq(s, 1, k))
                                        = ReplayFrame(ReplayAll(r, SubSeq(s, 1, k - 1)), s[k])
                                   /\ ToSet(SubSeq(s, 1, k)) = ToSet(SubSeq(s, 1, k - 1)) \cup {s[k]}
         /\ ToSet(SubSeq(s, 1, 0)) = {} /\ ToSet(SubSeq(s, 1, Len(s))) = ToSet(s)
<1> DEFINE b(k) == SubSeq(s, 1, k)
           D == Seq(FrameLine)
<1>1. /\ Len(s) \in Nat /\ b(0) = <<>> /\ b(Len(s)) = s
      /\ \A k \in 0 .. Len(s) : b(k) \in D
      /\ \A k \in 1 .. Len(s) : b(k) = Append(b(k - 1), s[k]) /\ s[k] \in FrameLine /\ b(k - 1) \in D
  BY Beginnings
<1>2. ReplayAll(r, <<>>) = r
  <2>1. <<>> \in Seq({1}) /\ 1 \in {1}
    OBVIOUS
  <2> QED
    BY Zenon, <2>1, AlongFrames DEF ReplayAll
<1>3. \A t \in D : \A f \in FrameLine : ReplayAll(r, Append(t, f)) = ReplayFrame(ReplayAll(r, t), f)
  BY ZenonT(40), AlongFrames DEF ReplayAll
<1>4. \A t \in D : LET q == ReplayAll(r, t) IN q \in Replaying /\ q.from = r.from /\ (r.fault => q.fault)
  BY FramesReplayed DEF ReplayAll
<1>5. \A t \in D : \A f \in FrameLine : ToSet(Append(t, f)) = ToSet(t) \cup {f}
  BY Elements
<1>6. ToSet(<<>>) = {}
  BY DEF ToSet
<1> HIDE DEF b, D
<1> QED
  BY Zenon, <1>1, <1>2, <1>3, <1>4, <1>5, <1>6 DEF b

\* What comes after what has been replayed.
LEMMA FramesJoined ==
  ASSUME NEW r \in Replaying, NEW a \in Seq(FrameLine), NEW b \in Seq(FrameLine)
  PROVE  ReplayAll(r, a \o b) = ReplayAll(ReplayAll(r, a), b)
<1> DEFINE w == ReplayAll(r, a)
           at(k) == SubSeq(b, 1, k)
           D == Seq(FrameLine)
           P == {k \in 0 .. Len(b) : ReplayAll(r, a \o at(k)) = ReplayAll(w, at(k))}
<1>1. w \in Replaying /\ Len(b) \in Nat
  BY FramesReplayed DEF ReplayAll
<1>2. /\ a \o at(0) = a /\ a \o at(Len(b)) = a \o b
      /\ \A j \in 1 .. Len(b) : /\ a \o at(j - 1) \in D /\ b[j] \in FrameLine
                                /\ a \o at(j) = Append(a \o at(j - 1), b[j])
  <2>1. a \o SubSeq(b, 1, 0) = a
    BY JoinBySteps
  <2>2. a \o SubSeq(b, 1, Len(b)) = a \o b
    BY JoinBySteps
  <2>3. ASSUME NEW j \in 1 .. Len(b)
        PROVE  /\ a \o SubSeq(b, 1, j - 1) \in Seq(FrameLine) /\ b[j] \in FrameLine
               /\ a \o SubSeq(b, 1, j) = Append(a \o SubSeq(b, 1, j - 1), b[j])
    BY SMTT(30), JoinBySteps
  <2> QED
    BY Zenon, <2>1, <2>2, <2>3
<1> HIDE DEF w
<1>3. /\ ReplayAll(w, at(0)) = w /\ ReplayAll(w, at(Len(b))) = ReplayAll(w, b)
      /\ \A k \in 1 .. Len(b) : ReplayAll(w, at(k)) = ReplayFrame(ReplayAll(w, at(k - 1)), b[k])
  <2>1. /\ ReplayAll(w, SubSeq(b, 1, 0)) = w
        /\ ReplayAll(w, SubSeq(b, 1, Len(b))) = ReplayAll(w, b)
    BY <1>1, FrameSteps
  <2>2. ASSUME NEW k \in 1 .. Len(b)
        PROVE  ReplayAll(w, SubSeq(b, 1, k)) = ReplayFrame(ReplayAll(w, SubSeq(b, 1, k - 1)), b[k])
    BY <1>1, FrameSteps
  <2> QED
    BY <2>1, <2>2
<1>4. \A t \in D : \A f \in FrameLine : ReplayAll(r, Append(t, f)) = ReplayFrame(ReplayAll(r, t), f)
  BY ZenonT(40), AlongFrames DEF ReplayAll
<1> HIDE DEF at
<1>5. 0 \in P
  <2>1. ReplayAll(r, a \o at(0)) = ReplayAll(w, at(0))
    BY Zenon, <1>2, <1>3 DEF w
  <2> QED
    BY <1>1, <2>1
<1>6. ASSUME NEW k \in 1 .. Len(b), k - 1 \in P PROVE k \in P
  <2>1. ReplayAll(r, a \o at(k - 1)) = ReplayAll(w, at(k - 1)) /\ k \in 0 .. Len(b)
    BY <1>1, <1>6
  <2>2. ReplayAll(r, a \o at(k)) = ReplayFrame(ReplayAll(r, a \o at(k - 1)), b[k])
    BY Zenon, <1>2, <1>4
  <2> QED
    BY <1>3, <2>1, <2>2
<1> HIDE DEF P
<1>7. \A k \in 0 .. Len(b) : k \in P
  BY Zenon, <1>1, <1>5, <1>6, Climb
<1>8. ReplayAll(r, a \o at(Len(b))) = ReplayAll(w, at(Len(b)))
  BY <1>1, <1>7 DEF P
<1> QED
  BY <1>2, <1>3, <1>8 DEF w

\* Frames that no other has the position or the transaction of.
Alone(E) == \A f, g \in E : f.pos = g.pos \/ f.txn = g.txn => f = g

\* The same frames bring replays that have come to the same to the same.
LEMMA SameFrames ==
  ASSUME NEW r \in Replaying, NEW s \in Replaying, Same(r, s), NEW l \in Seq(FrameLine)
  PROVE  Same(ReplayAll(r, l), ReplayAll(s, l))
<1> DEFINE a(k) == ReplayAll(r, SubSeq(l, 1, k))
           b(k) == ReplayAll(s, SubSeq(l, 1, k))
           P == {k \in 0 .. Len(l) : Same(a(k), b(k))}
<1>1. /\ a(0) = r /\ a(Len(l)) = ReplayAll(r, l) /\ Len(l) \in Nat
      /\ \A k \in 0 .. Len(l) : a(k) \in Replaying
      /\ \A k \in 1 .. Len(l) : l[k] \in FrameLine /\ a(k) = ReplayFrame(a(k - 1), l[k])
  BY FrameSteps
<1>2. /\ b(0) = s /\ b(Len(l)) = ReplayAll(s, l)
      /\ \A k \in 0 .. Len(l) : b(k) \in Replaying
      /\ \A k \in 1 .. Len(l) : b(k) = ReplayFrame(b(k - 1), l[k])
  BY FrameSteps
<1> HIDE DEF a, b
<1>3. 0 \in P
  BY <1>1, <1>2
<1>4. ASSUME NEW k \in 1 .. Len(l), k - 1 \in P PROVE k \in P
  <2>1. /\ a(k - 1) \in Replaying /\ b(k - 1) \in Replaying /\ l[k] \in FrameLine /\ Same(a(k - 1), b(k - 1))
        /\ k \in 0 .. Len(l)
    BY <1>1, <1>2, <1>4
  <2>2. Same(ReplayFrame(a(k - 1), l[k]), ReplayFrame(b(k - 1), l[k]))
    BY <2>1, SameStep
  <2> QED
    BY <1>1, <1>2, <2>1, <2>2
<1> HIDE DEF P
<1>5. \A k \in 0 .. Len(l) : k \in P
  BY Zenon, <1>1, <1>3, <1>4, Climb
<1>6. Len(l) \in P
  BY <1>1, <1>5
<1> QED
  BY <1>1, <1>2, <1>6 DEF P

\* Frames that have been replayed change nothing.
LEMMA OldFrames ==
  ASSUME NEW r \in Replaying, ~r.fault, NEW l \in Seq(FrameLine), ToSet(l) \subseteq r.seen, Alone(r.seen)
  PROVE  Same(ReplayAll(r, l), r)
<1> DEFINE a(k) == ReplayAll(r, SubSeq(l, 1, k))
           P == {k \in 0 .. Len(l) : Same(a(k), r)}
<1>1. /\ a(0) = r /\ a(Len(l)) = ReplayAll(r, l) /\ Len(l) \in Nat
      /\ \A k \in 0 .. Len(l) : a(k) \in Replaying
      /\ \A k \in 1 .. Len(l) : l[k] \in FrameLine /\ a(k) = ReplayFrame(a(k - 1), l[k])
  BY FrameSteps
<1> HIDE DEF a
<1>2. 0 \in P
  BY <1>1 DEF Same
<1>3. \A k \in 1 .. Len(l) : l[k] \in r.seen
  <2>1. \A k \in 1 .. Len(l) : l[k] \in ToSet(l)
    BY DEF ToSet
  <2> QED
    BY <2>1
<1>4. ASSUME NEW k \in 1 .. Len(l), k - 1 \in P PROVE k \in P
  <2> DEFINE p == a(k - 1)
             f == l[k]
             q == ReplayFrame(p, f)
  <2>1. p \in Replaying /\ f \in FrameLine /\ Same(p, r) /\ k \in 0 .. Len(l) /\ f \in r.seen /\ a(k) = q
    BY <1>1, <1>3, <1>4
  <2> HIDE DEF p, f
  <2>2. p.seen = r.seen /\ ~p.fault
    BY <2>1 DEF Same
  <2>3. Twins(p, f) = {f}
    <3>1. f \in Twins(p, f)
      BY <2>1, <2>2 DEF Twins
    <3>2. \A g \in Twins(p, f) : g = f
      BY <2>1, <2>2 DEF Twins, Alone
    <3> DEFINE W == Twins(p, f)
    <3> HIDE DEF W
    <3>3. f \in W /\ \A g \in W : g = f
      BY <3>1, <3>2 DEF W
    <3>4. W = {f}
      BY <3>3
    <3> QED
      BY <3>4 DEF W
  <2>4. {f} # {}
    OBVIOUS
  <2>5. q.from = p.from /\ q.hot = p.hot /\ q.seen = p.seen /\ q.fresh = p.fresh /\ ~q.fault
    BY Zenon, <2>1, <2>2, <2>3, <2>4, FrameReplayed
  <2> HIDE DEF q
  <2>6. Same(q, r)
    BY <2>1, <2>2, <2>5 DEF Same
  <2> QED
    BY <2>1, <2>6
<1> HIDE DEF P
<1>5. \A k \in 0 .. Len(l) : k \in P
  BY <1>1, <1>2, <1>4, Climb
<1>6. Len(l) \in P
  BY <1>1, <1>5
<1> QED
  BY <1>1, <1>6 DEF P

\* Where a replay over a checkpoint begins, and where it comes to.
AtCheckpoint(hot, from) ==
  [hot |-> hot, from |-> from, seen |-> {}, fresh |-> {}, unapplied |-> {}, last |-> <<>>, fault |-> FALSE]
Rep(hot, from, l) == ReplayAll(AtCheckpoint(hot, from), l)

\* At the checkpoint nothing has been seen or applied.
LEMMA AtCheckpointIs ==
  ASSUME NEW hot \in Records, NEW from \in Nat \X Nat
  PROVE  /\ AtCheckpoint(hot, from) \in Replaying
         /\ AtCheckpoint(hot, from).hot = hot /\ AtCheckpoint(hot, from).from = from /\ AtCheckpoint(hot, from).seen = {}
         /\ AtCheckpoint(hot, from).fresh = {} /\ ~AtCheckpoint(hot, from).fault
<1>1. <<>> \in Seq(FrameLine) /\ {} \in SUBSET FrameLine /\ {} \in SUBSET Txn
  OBVIOUS
<1> QED
  BY <1>1 DEF AtCheckpoint, Replaying

\* The transactions of the frames of E that come after a position.
Following(from, E) == {g.txn : g \in {x \in E : Before(from, x.pos)}}

\* A replay without fault has seen all frames, and applied those after the checkpoint.
LEMMA SeenIs ==
  ASSUME NEW hot \in Records, NEW from \in Nat \X Nat, NEW l \in Seq(FrameLine)
  PROVE  LET r == Rep(hot, from, l)
         IN  /\ r \in Replaying /\ r.from = from
             /\ ~r.fault => r.seen = ToSet(l) /\ r.fresh = Following(from, ToSet(l))
<1> DEFINE b == AtCheckpoint(hot, from)
           a(k) == ReplayAll(b, SubSeq(l, 1, k))
           s(k) == ToSet(SubSeq(l, 1, k))
           P == {k \in 0 .. Len(l) : ~a(k).fault => a(k).seen = s(k) /\ a(k).fresh = Following(from, s(k))}
<1>1. b \in Replaying /\ b.from = from /\ b.seen = {} /\ b.fresh = {}
  BY AtCheckpointIs
<1> HIDE DEF b
<1>2. /\ a(0) = b /\ a(Len(l)) = ReplayAll(b, l) /\ Len(l) \in Nat
      /\ \A k \in 0 .. Len(l) : a(k) \in Replaying /\ a(k).from = b.from
      /\ \A k \in 1 .. Len(l) : l[k] \in FrameLine /\ a(k) = ReplayFrame(a(k - 1), l[k]) /\ s(k) = s(k - 1) \cup {l[k]}
      /\ s(0) = {} /\ s(Len(l)) = ToSet(l)
  BY <1>1, FrameSteps
<1> HIDE DEF a, s
<1>3. 0 \in P
  <2>1. Following(from, {}) = {}
    BY DEF Following
  <2>a. a(0) = b /\ s(0) = {} /\ 0 \in 0 .. Len(l)
    BY <1>2
  <2>2. a(0).seen = s(0) /\ a(0).fresh = Following(from, s(0)) /\ 0 \in 0 .. Len(l)
    BY Zenon, <1>1, <2>1, <2>a
  <2> QED
    BY <2>2
<1>4. ASSUME NEW k \in 1 .. Len(l), k - 1 \in P PROVE k \in P
  <2> SUFFICES ASSUME ~a(k).fault PROVE a(k).seen = s(k) /\ a(k).fresh = Following(from, s(k))
    BY <1>2
  <2> DEFINE p == a(k - 1)
             f == l[k]
             q == ReplayFrame(p, f)
             E == s(k - 1)
  <2>1. /\ p \in Replaying /\ p.from = from /\ f \in FrameLine /\ a(k) = q /\ s(k) = E \cup {f}
        /\ ~p.fault => p.seen = E /\ p.fresh = Following(from, E)
    BY <1>1, <1>2, <1>4
  <2> HIDE DEF p, f, E
  <2>a. ~q.fault
    BY <2>1
  <2>2. /\ p.fault => q = p
        /\ ~p.fault /\ Twins(p, f) # {} =>
             q.seen = p.seen /\ q.fresh = p.fresh /\ (q.fault <=> Twins(p, f) # {f})
        /\ ~p.fault /\ Twins(p, f) = {} /\ ~Before(p.from, f.pos) =>
             q.seen = p.seen \cup {f} /\ q.fresh = p.fresh
        /\ ~p.fault /\ Twins(p, f) = {} /\ Before(p.from, f.pos) /\ ~Applicable(p.hot, f) => q.fault
        /\ ~p.fault /\ Twins(p, f) = {} /\ Before(p.from, f.pos) /\ Applicable(p.hot, f) =>
             q.seen = p.seen \cup {f} /\ q.fresh = p.fresh \cup {f.txn}
    BY Zenon, <2>1, FrameReplayed
  <2> HIDE DEF q
  <2>3. ~p.fault /\ p.seen = E /\ p.fresh = Following(from, E)
    BY <2>1, <2>2, <2>a
  <2>4. CASE Twins(p, f) # {}
    <3>1. Twins(p, f) = {f} /\ q.seen = p.seen /\ q.fresh = p.fresh
      BY <2>2, <2>3, <2>4, <2>a
    <3>2. f \in E
      BY <2>3, <3>1 DEF Twins
    <3>3. E \cup {f} = E
      BY <3>2
    <3> QED
      BY Zenon, <2>1, <2>3, <3>1, <3>3
  <2>5. CASE Twins(p, f) = {} /\ ~Before(from, f.pos)
    <3>1. q.seen = E \cup {f} /\ q.fresh = Following(from, E)
      BY <2>1, <2>2, <2>3, <2>5
    <3>2. {x \in E \cup {f} : Before(from, x.pos)} = {x \in E : Before(from, x.pos)}
      BY <2>5
    <3> QED
      BY <2>1, <3>1, <3>2 DEF Following
  <2>6. CASE Twins(p, f) = {} /\ Before(from, f.pos)
    <3>1. q.seen = E \cup {f} /\ q.fresh = Following(from, E) \cup {f.txn}
      BY <2>1, <2>2, <2>3, <2>6, <2>a
    <3>2. Following(from, E \cup {f}) = Following(from, E) \cup {f.txn}
      <4> DEFINE A == {x \in E \cup {f} : Before(from, x.pos)}
                 B == {x \in E : Before(from, x.pos)}
      <4>1. A = B \cup {f}
        BY <2>6
      <4> HIDE DEF A, B
      <4>2. {g.txn : g \in A} = {g.txn : g \in B} \cup {f.txn}
        BY <4>1
      <4> QED
        BY Zenon, <4>2 DEF Following, A, B
    <3> QED
      BY Zenon, <2>1, <3>1, <3>2
  <2> QED
    BY <2>4, <2>5, <2>6
<1> HIDE DEF P
<1>5. \A k \in 0 .. Len(l) : k \in P
  BY Zenon, <1>2, <1>3, <1>4, Climb
<1>6. Len(l) \in P
  BY <1>2, <1>5
<1>7. Rep(hot, from, l) = a(Len(l)) /\ a(Len(l)) \in Replaying /\ a(Len(l)).from = from
  BY <1>1, <1>2 DEF Rep, b
<1> QED
  BY <1>2, <1>6, <1>7 DEF P

\* A segment that ends in its only torn line counts as complete.
LEMMA NotCorrupt ==
  ASSUME NEW s \in Seq(Line), TornLast(s)
  PROVE  ~Corrupt(s)
<1> DEFINE k == TornAt(s)
           rest == SubSeq(s, k + 2, Len(s))
<1>1. k = 0 \/ (k \in 1 .. Len(s) /\ s[k] = Torn)
  BY FirstTorn
<1> HIDE DEF k
<1>2. CASE k = 0
  BY <1>2 DEF Corrupt, k
<1>3. CASE k \in 1 .. Len(s) /\ s[k] = Torn
  <2>1. k = Len(s) /\ Len(s) \in Nat
    BY <1>3 DEF TornLast
  <2>2. rest = <<>>
    BY <2>1
  <2>3. ToSet(Decoded(<<>>)) = {}
    <3> DEFINE e == <<>>
               d == Decoded(e)
    <3>1. e \in Seq(Line) /\ Len(e) = 0
      OBVIOUS
    <3> HIDE DEF e
    <3>2. d \in Seq(Kept) /\ Len(d) \in 0 .. Len(e)
      BY Zenon, <3>1, DecodedIs
    <3> HIDE DEF d
    <3>3. DOMAIN d = {}
      BY <3>1, <3>2
    <3>4. ToSet(d) = {}
      BY <3>3 DEF ToSet
    <3> QED
      BY <3>4 DEF d, e
  <2>4. ToSet(Decoded(SubSeq(s, TornAt(s) + 2, Len(s)))) = {}
    BY Zenon, <2>2, <2>3 DEF k
  <2> QED
    BY <2>4 DEF Corrupt
<1> QED
  BY <1>1, <1>2, <1>3

\* Coming to the same is an equivalence.
LEMMA SameIs ==
  /\ \A r : Same(r, r)
  /\ \A r, s : Same(r, s) => Same(s, r)
  /\ \A r, s, t : Same(r, s) /\ Same(s, t) => Same(r, t)
BY DEF Same

\* A group that is replayed behind others, whether it is a copy or new.
LEMMA GroupReplayed ==
  ASSUME NEW hot \in Records, NEW from \in Nat \X Nat, NEW c \in Seq(FrameLine), NEW g \in Seq(FrameLine),
         NEW x \in Replaying, Alone(ToSet(c)), Sorted(g), ToSet(g) \subseteq ToSet(c) \/ Wholly(c, g),
         ~Rep(hot, from, Uniq(c)).fault => Same(x, Rep(hot, from, Uniq(c))),
         ~Rep(hot, from, Uniq(c \o g)).fault
  PROVE  Same(ReplayAll(x, g), Rep(hot, from, Uniq(c \o g)))
<1> DEFINE u == Uniq(c)
           r == Rep(hot, from, u)
           w == Rep(hot, from, Uniq(c \o g))
<1>1. u \in Seq(FrameLine) /\ ToSet(u) = ToSet(c)
  BY UniqIs
<1> HIDE DEF u
<1>2. r \in Replaying /\ (~r.fault => r.seen = ToSet(u))
  BY <1>1, SeenIs
<1>3. AtCheckpoint(hot, from) \in Replaying
  BY AtCheckpointIs
<1>4. CASE ToSet(g) \subseteq ToSet(c)
  <2>1. Uniq(c \o g) = u
    BY <1>4, UniqOld DEF u
  <2>2. w = r /\ ~r.fault /\ Same(x, r)
    BY <2>1 DEF u
  <2> HIDE DEF r, w
  <2>3. x.seen = ToSet(c) /\ ~x.fault
    BY <1>1, <1>2, <2>2 DEF Same
  <2>4. Same(ReplayAll(x, g), x)
    BY <1>4, <2>3, OldFrames
  <2>5. Same(ReplayAll(x, g), w)
    BY <2>2, <2>4, SameIs
  <2> QED
    BY <2>5 DEF w
<1>5. CASE Wholly(c, g)
  <2>1. Uniq(c \o g) = u \o g
    BY <1>5, UniqNew DEF u
  <2>2. w = ReplayAll(r, g)
    BY <1>1, <1>3, <2>1, FramesJoined DEF Rep
  <2>3. r.fault => ReplayAll(r, g).fault
    BY <1>2, FramesReplayed DEF ReplayAll
  <2>4. Same(x, r)
    BY <2>2, <2>3 DEF u
  <2> HIDE DEF r
  <2>5. Same(ReplayAll(x, g), ReplayAll(r, g))
    BY <1>2, <2>4, SameFrames
  <2> QED
    BY <2>2, <2>5
<1> QED
  BY <1>4, <1>5

\* The frames of a segment are replayed, and that is all that counts of it.
LEMMA SegmentEnd ==
  ASSUME NEW hot \in Records, NEW from \in Nat \X Nat, NEW T \in Texts, NEW k \in DOMAIN T, TornLast(T[k]),
         NEW s \in Replaying, ~s.fault,
         Same(ReplayAll(ReplayTo(hot, from, T, k - 1), Concat(GroupFrames(T[k]).groups)), s)
  PROVE  Same(ReplayTo(hot, from, T, k), s)
<1> DEFINE r == ReplayTo(hot, from, T, k - 1)
           g == GroupFrames(T[k]).groups
           q == ReplayAll(r, Concat(g))
           w == ReplayTo(hot, from, T, k)
<1>1. k \in 1 .. Len(T) /\ k - 1 \in 0 .. Len(T)
  BY DEF Texts
<1>2. r \in Replaying /\ T[k] \in Seq(Line) /\ w = ReplaySegment(r, T[k])
  BY <1>1, ReplayBySteps
<1> HIDE DEF r
<1>3. ~Corrupt(T[k])
  BY <1>2, NotCorrupt
<1>4. Concat(g) \in Seq(FrameLine)
  BY <1>2, GroupsConcat
<1>5. r.fault => q.fault
  BY <1>2, <1>4, FramesReplayed DEF ReplayAll
<1>6. Same(q, s)
  BY DEF r
<1>7. ~r.fault
  BY <1>5, <1>6 DEF Same
<1>8. w.hot = q.hot /\ w.from = q.from /\ w.seen = q.seen /\ w.fresh = q.fresh /\ w.fault = q.fault
  BY <1>2, <1>3, <1>7, SegmentReplayed DEF ReplayAll
<1> HIDE DEF q, w
<1>9. Same(w, s)
  BY <1>6, <1>8 DEF Same
<1> QED
  BY <1>9 DEF w

\* A replay of the files comes to what a replay of their log comes to: copies of groups change nothing.
LEMMA ReplayOnce ==
  ASSUME NEW hot \in Records, NEW from \in Nat \X Nat, NEW T \in Texts, InOrder(GroupsOf(T)),
         \A k \in DOMAIN T : TornLast(T[k]), Alone(FramesIn(GroupsIn(GroupsOf(T)))),
         ~Rep(hot, from, LogOf(T)).fault
  PROVE  Same(Replay(hot, from, T), Rep(hot, from, LogOf(T)))
<1> DEFINE L == GroupsOf(T)
           X(k, i) == ReplayAll(ReplayTo(hot, from, T, k - 1), Concat(SubSeq(L[k], 1, i)))
           S(k, i) == Rep(hot, from, Uniq(Up(L, k, i)))
           P == {p \in Nat \X Nat : ~S(p[1], p[2]).fault => Same(X(p[1], p[2]), S(p[1], p[2]))}
<1>1. /\ L \in Lists /\ DOMAIN L = DOMAIN T /\ Len(L) = Len(T)
      /\ \A k \in DOMAIN T : L[k] = GroupFrames(T[k]).groups
      /\ LogOf(T) = Uniq(Below(L, Len(L)))
  BY GroupsOfIs DEF LogAlong
<1>2. InOrder(L) /\ Alone(FramesIn(GroupsIn(L)))
  OBVIOUS
<1> HIDE DEF L
<1>3. /\ Len(L) \in Nat /\ DOMAIN L = 1 .. Len(L)
      /\ \A k \in DOMAIN L : /\ L[k] \in Seq(Seq(FrameLine)) /\ Len(L[k]) \in Nat /\ DOMAIN L[k] = 1 .. Len(L[k])
                             /\ \A i \in DOMAIN L[k] : L[k][i] \in Seq(FrameLine)
  BY <1>1, ListsAre
<1>4. \A k \in 0 .. Len(L) : ReplayTo(hot, from, T, k) \in Replaying
  BY <1>1, ReplayBySteps
<1>5. \A k \in DOMAIN L : \A i \in 0 .. Len(L[k]) : <<k, i>> \in Nat \X Nat
  BY <1>3
<1>6. \A k \in DOMAIN L : k - 1 \in 0 .. Len(L)
  BY <1>3
<1>7. \A r \in Replaying : ReplayAll(r, <<>>) = r
  <2> SUFFICES ASSUME NEW r \in Replaying PROVE ReplayAll(r, <<>>) = r
    OBVIOUS
  <2>1. <<>> \in Seq({1}) /\ 1 \in {1}
    OBVIOUS
  <2> QED
    BY Zenon, <2>1, AlongFrames DEF ReplayAll
<1>8. \A k \in DOMAIN L : SubSeq(L[k], 1, 0) = <<>> /\ SubSeq(L[k], 1, Len(L[k])) = L[k]
  <2> SUFFICES ASSUME NEW k \in DOMAIN L PROVE SubSeq(L[k], 1, 0) = <<>> /\ SubSeq(L[k], 1, Len(L[k])) = L[k]
    OBVIOUS
  <2> DEFINE D == Seq(FrameLine)
             l == L[k]
  <2>1. l \in Seq(D)
    BY <1>3
  <2> HIDE DEF D, l
  <2>2. SubSeq(l, 1, 0) = <<>> /\ SubSeq(l, 1, Len(l)) = l
    BY <2>1, Beginnings
  <2> QED
    BY <2>2 DEF l
<1>9. \A k \in DOMAIN L : X(k, 0) = ReplayTo(hot, from, T, k - 1)
  BY Zenon, <1>4, <1>6, <1>7, <1>8, ConcatEmpty
<1>10. \A k \in DOMAIN L : Up(L, k, 0) = Below(L, k - 1) /\ Up(L, k, Len(L[k])) = Below(L, k)
  BY <1>1, UpIs
<1>11. ASSUME NEW k \in DOMAIN L, ~Rep(hot, from, Uniq(Below(L, k))).fault, <<k, Len(L[k])>> \in P
       PROVE  Same(ReplayTo(hot, from, T, k), Rep(hot, from, Uniq(Below(L, k))))
  <2> DEFINE s == Rep(hot, from, Uniq(Below(L, k)))
  <2>1. Same(X(k, Len(L[k])), S(k, Len(L[k]))) /\ S(k, Len(L[k])) = s
    BY <1>10, <1>11
  <2>2. X(k, Len(L[k])) = ReplayAll(ReplayTo(hot, from, T, k - 1), Concat(GroupFrames(T[k]).groups))
    BY Zenon, <1>1, <1>8
  <2>3. Uniq(Below(L, k)) \in Seq(FrameLine)
    <3>1. Below(L, k) \in Seq(FrameLine)
      <4>1. k \in 0 .. Len(L)
        BY <1>3
      <4> QED
        BY <1>1, <4>1, BelowIs
    <3> QED
      BY <3>1, UniqIs
  <2>4. s \in Replaying /\ ~s.fault
    BY <1>11, <2>3, SeenIs
  <2> HIDE DEF s
  <2>5. TornLast(T[k]) /\ k \in DOMAIN T
    BY <1>1
  <2>6. Same(ReplayAll(ReplayTo(hot, from, T, k - 1), Concat(GroupFrames(T[k]).groups)), s)
    BY <2>1, <2>2
  <2>7. Same(ReplayTo(hot, from, T, k), s)
    BY <2>4, <2>5, <2>6, SegmentEnd
  <2> QED
    BY <2>7 DEF s
<1>12. Uniq(Below(L, 0)) = <<>> /\ Rep(hot, from, <<>>) = ReplayTo(hot, from, T, 0)
  <2>1. Below(L, 0) = <<>>
    BY <1>1, BelowIs
  <2>2. Uniq(<<>>) = <<>>
    <3>1. <<>> \in Seq({1}) /\ 1 \in {1}
      OBVIOUS
    <3> QED
      BY Zenon, <3>1, UniqStep
  <2>3. ReplayTo(hot, from, T, 0) = AtCheckpoint(hot, from)
    BY ReplayBySteps DEF AtCheckpoint
  <2> QED
    BY <1>7, <2>1, <2>2, <2>3, AtCheckpointIs DEF Rep
<1>13. 1 \in DOMAIN L => <<1, 0>> \in P
  <2> SUFFICES ASSUME 1 \in DOMAIN L PROVE <<1, 0>> \in P
    OBVIOUS
  <2>1. X(1, 0) = ReplayTo(hot, from, T, 0) /\ S(1, 0) = ReplayTo(hot, from, T, 0)
    <3>1. 1 - 1 = 0
      OBVIOUS
    <3> QED
      BY <1>9, <1>10, <1>12, <3>1
  <2>2. Same(X(1, 0), S(1, 0))
    BY <2>1, SameIs
  <2> QED
    BY <2>2
<1>14. ASSUME NEW k \in DOMAIN L, NEW i \in DOMAIN L[k], <<k, i - 1>> \in P PROVE <<k, i>> \in P
  <2> SUFFICES ASSUME ~S(k, i).fault PROVE Same(X(k, i), S(k, i))
    <3>1. i \in 0 .. Len(L[k])
      BY <1>3
    <3> QED
      BY <1>5, <3>1
  <2> DEFINE c == Up(L, k, i - 1)
             g == L[k][i]
             x == X(k, i - 1)
  <2>1. /\ c \in Seq(FrameLine) /\ g \in Seq(FrameLine) /\ Up(L, k, i) = c \o g
        /\ Concat(SubSeq(L[k], 1, i - 1)) \in Seq(FrameLine)
        /\ Concat(SubSeq(L[k], 1, i)) = Concat(SubSeq(L[k], 1, i - 1)) \o g
    <3>1. i - 1 \in 0 .. Len(L[k])
      BY <1>3
    <3> QED
      BY Zenon, <1>1, <1>3, <3>1, UpIs
  <2>2. Sorted(g) /\ (ToSet(g) \subseteq ToSet(c) \/ Wholly(c, g))
    BY <1>1, <1>2, OldOrNew
  <2>3. ReplayTo(hot, from, T, k - 1) \in Replaying
    BY <1>4, <1>6
  <2>4. x \in Replaying
    BY <2>1, <2>3, FramesReplayed DEF ReplayAll
  <2>5. X(k, i) = ReplayAll(x, g)
    <3> DEFINE r0 == ReplayTo(hot, from, T, k - 1)
               a == Concat(SubSeq(L[k], 1, i - 1))
               b == Concat(SubSeq(L[k], 1, i))
    <3>1. r0 \in Replaying /\ a \in Seq(FrameLine) /\ g \in Seq(FrameLine) /\ b = a \o g
      BY <2>1, <2>3
    <3>2. X(k, i) = ReplayAll(r0, b) /\ x = ReplayAll(r0, a)
      OBVIOUS
    <3> HIDE DEF r0, a, b, g, x, X
    <3> QED
      BY <3>1, <3>2, FramesJoined
  <2>6. Alone(ToSet(c))
    <3>1. \A f \in ToSet(c) : f \in FramesIn(GroupsIn(L))
      <4>1. ToSet(c) \subseteq FrameLine
        BY <2>1, Elements
      <4>2. \A f \in FrameLine : f \in ToSet(c) => \E m \in DOMAIN L : \E j \in DOMAIN L[m] : f \in ToSet(L[m][j])
        <5>1. i - 1 \in 0 .. Len(L[k])
          BY <1>3
        <5> QED
          BY Zenon, <1>1, <5>1, UpIs
      <4> QED
        BY <4>1, <4>2, GroupsInIs
    <3> QED
      BY <1>2, <3>1 DEF Alone
  <2>7. ~Rep(hot, from, Uniq(c)).fault => Same(x, Rep(hot, from, Uniq(c)))
    BY <1>14
  <2>8. S(k, i) = Rep(hot, from, Uniq(c \o g))
    BY <2>1
  <2> HIDE DEF c, g, x, S, X
  <2>9. Same(ReplayAll(x, g), Rep(hot, from, Uniq(c \o g)))
    BY <2>1, <2>2, <2>4, <2>6, <2>7, <2>8, GroupReplayed
  <2> QED
    BY <2>5, <2>8, <2>9
<1>15. ASSUME NEW k \in DOMAIN L, k + 1 \in DOMAIN L, <<k, Len(L[k])>> \in P PROVE <<k + 1, 0>> \in P
  <2>1. (k + 1) - 1 = k /\ <<k + 1, 0>> \in Nat \X Nat
    <3>1. k \in Nat
      BY <1>3
    <3> QED
      BY <3>1
  <2>2. X(k + 1, 0) = ReplayTo(hot, from, T, k) /\ S(k + 1, 0) = Rep(hot, from, Uniq(Below(L, k)))
    BY <1>9, <1>10, <1>15, <2>1
  <2>3. ~S(k + 1, 0).fault => Same(X(k + 1, 0), S(k + 1, 0))
    BY <1>11, <1>15, <2>2
  <2> QED
    BY <2>1, <2>3
<1> HIDE DEF P, X, S
<1>16. \A k \in DOMAIN L : \A i \in 0 .. Len(L[k]) : <<k, i>> \in P
  BY Zenon, <1>1, <1>13, <1>14, <1>15, ClimbTwice
<1>17. ReplayTo(hot, from, T, Len(T)) = Replay(hot, from, T)
  BY ReplayBySteps
<1>18. CASE Len(L) = 0
  BY <1>1, <1>12, <1>17, <1>18, SameIs
<1>19. CASE Len(L) # 0
  <2>1. Len(L) \in DOMAIN L /\ Len(L[Len(L)]) \in 0 .. Len(L[Len(L)])
    BY <1>3, <1>19
  <2>2. <<Len(L), Len(L[Len(L)])>> \in P
    BY <1>16, <2>1
  <2>3. ~Rep(hot, from, Uniq(Below(L, Len(L)))).fault
    BY <1>1
  <2>4. Same(ReplayTo(hot, from, T, Len(L)), Rep(hot, from, Uniq(Below(L, Len(L)))))
    BY <1>11, <2>1, <2>2, <2>3
  <2> QED
    BY <1>1, <1>17, <2>4
<1> QED
  BY <1>18, <1>19

-----------------------------------------------------------------------------
(* Frames that are new, and frames behind a checkpoint.                    *)

\* The frames of l and those of fr, and those of fr among each other, have different positions and transactions.
Apart(l, fr) ==
  /\ \A g \in ToSet(l), f \in ToSet(fr) : g.pos # f.pos /\ g.txn # f.txn
  /\ \A x, y \in DOMAIN fr : x # y => fr[x].pos # fr[y].pos /\ fr[x].txn # fr[y].txn

\* The frames before one are those at smaller places.
LEMMA EarlierFrames ==
  ASSUME NEW S, NEW s \in Seq(S), NEW k \in 1 .. Len(s), NEW g \in ToSet(SubSeq(s, 1, k - 1))
  PROVE  \E x \in DOMAIN s : x # k /\ g = s[x]
<1>1. /\ Len(s) \in Nat /\ k \in Nat /\ k - 1 \in Nat /\ k - 1 <= Len(s) /\ k >= 1
  OBVIOUS
<1>2. /\ Len(SubSeq(s, 1, k - 1)) = k - 1 /\ \A x \in 1 .. k - 1 : SubSeq(s, 1, k - 1)[x] = s[x]
      /\ DOMAIN SubSeq(s, 1, k - 1) = 1 .. k - 1
  <2> DEFINE d == k - 1
  <2>1. d \in Nat /\ d <= Len(s)
    BY <1>1
  <2> HIDE DEF d
  <2>2. Len(SubSeq(s, 1, d)) = d /\ \A x \in 1 .. d : SubSeq(s, 1, d)[x] = s[x]
    BY <2>1
  <2>3. DOMAIN SubSeq(s, 1, d) = 1 .. d
    BY <2>1
  <2> QED
    BY <2>2, <2>3 DEF d
<1>3. PICK x \in 1 .. k - 1 : g = SubSeq(s, 1, k - 1)[x]
  BY <1>2 DEF ToSet
<1> QED
  BY <1>1, <1>2, <1>3

\* A chain of new frames is replayed, and does to both tiers what it does to all records.
LEMMA ChainReplayed ==
  ASSUME NEW hot \in Records, NEW from \in Nat \X Nat, NEW l \in Seq(FrameLine), NEW fr \in Seq(FrameLine),
         NEW h \in Records, NEW c \in Records, NEW v \in Records,
         ~Rep(hot, from, l).fault, Tiers(Rep(hot, from, l).hot, c) = v, Covers(h, Rep(hot, from, l).hot),
         Chain(h, v, fr), Apart(l, fr), \A f \in ToSet(fr) : Before(from, f.pos)
  PROVE  LET q == Rep(hot, from, l \o fr)
         IN  /\ ~q.fault /\ Tiers(q.hot, c) = ApplyAll(v, fr) /\ Covers(ApplyAll(h, fr), q.hot)
<1> DEFINE r0 == Rep(hot, from, l)
           r(k) == ReplayAll(r0, SubSeq(fr, 1, k))
           H(k) == ApplyAll(h, SubSeq(fr, 1, k))
           V(k) == ApplyAll(v, SubSeq(fr, 1, k))
           P == {k \in Nat : /\ ~r(k).fault /\ Tiers(r(k).hot, c) = V(k) /\ Covers(H(k), r(k).hot)
                             /\ r(k).seen = ToSet(l) \cup ToSet(SubSeq(fr, 1, k))}
<1>1. r0 \in Replaying /\ r0.from = from /\ r0.seen = ToSet(l)
  BY SeenIs
<1>2. Rep(hot, from, l \o fr) = ReplayAll(r0, fr)
  <2>1. AtCheckpoint(hot, from) \in Replaying
    BY AtCheckpointIs
  <2> QED
    BY <2>1, FramesJoined DEF Rep
<1>3. ~r0.fault /\ Tiers(r0.hot, c) = v /\ Covers(h, r0.hot)
  OBVIOUS
<1> HIDE DEF r0
<1>4. /\ r(0) = r0 /\ r(Len(fr)) = ReplayAll(r0, fr) /\ Len(fr) \in Nat
      /\ ToSet(SubSeq(fr, 1, 0)) = {}
  BY <1>1, FrameSteps
<1>5. \A k \in 0 .. Len(fr) : r(k) \in Replaying /\ r(k).from = from
  BY <1>1, FrameSteps
<1>6. \A k \in 1 .. Len(fr) : /\ fr[k] \in FrameLine /\ r(k) = ReplayFrame(r(k - 1), fr[k])
                              /\ ToSet(SubSeq(fr, 1, k)) = ToSet(SubSeq(fr, 1, k - 1)) \cup {fr[k]}
  BY <1>1, FrameSteps
<1>7. H(0) = h /\ V(0) = v /\ H(Len(fr)) = ApplyAll(h, fr) /\ V(Len(fr)) = ApplyAll(v, fr)
  BY ApplySteps
<1>8. \A k \in 0 .. Len(fr) : H(k) \in Records /\ V(k) \in Records
  BY ApplySteps
<1>9. \A k \in 1 .. Len(fr) : H(k) = ApplyFrame(H(k - 1), fr[k]) /\ V(k) = ApplyFrame(V(k - 1), fr[k])
  BY ApplySteps
<1>10. \A k \in 1 .. Len(fr) : Fits(H(k - 1), V(k - 1), fr[k])
  BY <1>4 DEF Chain
<1>11. \A k \in 1 .. Len(fr) : Before(from, fr[k].pos) /\ fr[k] \in ToSet(fr)
  <2>1. \A k \in 1 .. Len(fr) : fr[k] \in ToSet(fr)
    BY PosIs
  <2> QED
    BY <2>1
<1>12. \A k \in 1 .. Len(fr) : \A g \in ToSet(l) \cup ToSet(SubSeq(fr, 1, k - 1)) :
         g.pos # fr[k].pos /\ g.txn # fr[k].txn
  <2> SUFFICES ASSUME NEW k \in 1 .. Len(fr), NEW g \in ToSet(l) \cup ToSet(SubSeq(fr, 1, k - 1))
               PROVE  g.pos # fr[k].pos /\ g.txn # fr[k].txn
    BY Zenon
  <2>1. CASE g \in ToSet(l)
    BY <1>11, <2>1 DEF Apart
  <2>2. CASE g \in ToSet(SubSeq(fr, 1, k - 1))
    <3>1. PICK x \in DOMAIN fr : x # k /\ g = fr[x]
      BY <2>2, EarlierFrames
    <3>2. k \in DOMAIN fr
      BY PosIs
    <3> QED
      BY <3>1, <3>2 DEF Apart
  <2> QED
    BY <2>1, <2>2
<1> HIDE DEF r, H, V
<1>13. 0 \in P
  BY <1>1, <1>3, <1>4, <1>7
<1>14. ASSUME NEW k \in 1 .. Len(fr), k - 1 \in P PROVE k \in P
  <2> DEFINE q == r(k - 1)
             f == fr[k]
             hh == H(k - 1)
             vv == V(k - 1)
             E == ToSet(SubSeq(fr, 1, k - 1))
  <2>1. k - 1 \in 0 .. Len(fr) /\ k \in Nat
    BY <1>4
  <2>2. /\ q \in Replaying /\ q.from = from /\ ~q.fault /\ Tiers(q.hot, c) = vv /\ Covers(hh, q.hot)
        /\ q.seen = ToSet(l) \cup E
    BY <1>5, <1>14, <2>1
  <2>3. /\ f \in FrameLine /\ hh \in Records /\ vv \in Records /\ Fits(hh, vv, f) /\ Before(from, f.pos)
        /\ \A g \in ToSet(l) \cup E : g.pos # f.pos /\ g.txn # f.txn
    BY <1>6, <1>8, <1>10, <1>11, <1>12, <2>1
  <2>4. /\ r(k) = ReplayFrame(q, f) /\ H(k) = ApplyFrame(hh, f) /\ V(k) = ApplyFrame(vv, f)
        /\ ToSet(SubSeq(fr, 1, k)) = E \cup {f}
    BY <1>6, <1>9
  <2> HIDE DEF q, f, hh, vv, E
  <2>5. q.hot \in Records
    BY <2>2 DEF Replaying
  <2>6. Fits(q.hot, vv, f)
    BY <2>2, <2>3, <2>5, FitsMore
  <2>7. Applicable(q.hot, f) /\ Tiers(ApplyFrame(q.hot, f), c) = ApplyFrame(vv, f)
    BY <2>2, <2>3, <2>5, <2>6, FitStep
  <2>8. Covers(ApplyFrame(hh, f), ApplyFrame(q.hot, f))
    BY <2>2, <2>3, <2>5, FitCovers
  <2>9. Twins(q, f) = {}
    BY <2>2, <2>3 DEF Twins
  <2> DEFINE w == ReplayFrame(q, f)
  <2>10. w.hot = ApplyFrame(q.hot, f) /\ w.seen = q.seen \cup {f} /\ ~w.fault
    BY Zenon, <2>2, <2>3, <2>7, <2>9, FrameReplayed
  <2> HIDE DEF w
  <2>11. r(k) = w
    BY <2>4 DEF w
  <2>12. ~r(k).fault /\ Tiers(r(k).hot, c) = V(k) /\ Covers(H(k), r(k).hot)
    BY <2>4, <2>7, <2>8, <2>10, <2>11
  <2>13. r(k).seen = ToSet(l) \cup ToSet(SubSeq(fr, 1, k))
    BY <2>2, <2>4, <2>10, <2>11
  <2> QED
    BY <2>1, <2>12, <2>13
<1> HIDE DEF P
<1>15. \A k \in 0 .. Len(fr) : k \in P
  BY Zenon, <1>4, <1>13, <1>14, Climb
<1>16. Len(fr) \in P
  BY <1>4, <1>15
<1> QED
  BY <1>2, <1>4, <1>7, <1>16 DEF P

\* Frames that come before a checkpoint are skipped.
LEMMA AllSkipped ==
  ASSUME NEW hot \in Records, NEW from \in Nat \X Nat, NEW l \in Seq(FrameLine),
         Apart(<<>>, l), \A f \in ToSet(l) : ~Before(from, f.pos)
  PROVE  ~Rep(hot, from, l).fault /\ Rep(hot, from, l).hot = hot
<1> DEFINE r0 == AtCheckpoint(hot, from)
           r(k) == ReplayAll(r0, SubSeq(l, 1, k))
           P == {k \in Nat : ~r(k).fault /\ r(k).hot = hot /\ r(k).seen = ToSet(SubSeq(l, 1, k))}
<1>1. r0 \in Replaying /\ r0.from = from /\ r0.seen = {} /\ r0.hot = hot /\ ~r0.fault
  BY AtCheckpointIs
<1> HIDE DEF r0
<1>2. /\ r(0) = r0 /\ r(Len(l)) = ReplayAll(r0, l) /\ Len(l) \in Nat
      /\ ToSet(SubSeq(l, 1, 0)) = {}
  BY <1>1, FrameSteps
<1>3. \A k \in 0 .. Len(l) : r(k) \in Replaying /\ r(k).from = from
  BY <1>1, FrameSteps
<1>4. \A k \in 1 .. Len(l) : /\ l[k] \in FrameLine /\ r(k) = ReplayFrame(r(k - 1), l[k])
                             /\ ToSet(SubSeq(l, 1, k)) = ToSet(SubSeq(l, 1, k - 1)) \cup {l[k]}
  BY <1>1, FrameSteps
<1>5. \A k \in 1 .. Len(l) : ~Before(from, l[k].pos)
  <2>1. \A k \in 1 .. Len(l) : l[k] \in ToSet(l)
    BY PosIs
  <2> QED
    BY <2>1
<1>6. \A k \in 1 .. Len(l) : \A g \in ToSet(SubSeq(l, 1, k - 1)) : g.pos # l[k].pos /\ g.txn # l[k].txn
  <2> SUFFICES ASSUME NEW k \in 1 .. Len(l), NEW g \in ToSet(SubSeq(l, 1, k - 1))
               PROVE  g.pos # l[k].pos /\ g.txn # l[k].txn
    OBVIOUS
  <2>1. PICK x \in DOMAIN l : x # k /\ g = l[x]
    BY EarlierFrames
  <2>2. k \in DOMAIN l
    BY PosIs
  <2> QED
    BY <2>1, <2>2 DEF Apart
<1> HIDE DEF r
<1>7. 0 \in P
  BY Zenon, <1>1, <1>2
<1>8. ASSUME NEW k \in 1 .. Len(l), k - 1 \in P PROVE k \in P
  <2> DEFINE q == r(k - 1)
             f == l[k]
             w == ReplayFrame(q, f)
  <2>1. k - 1 \in 0 .. Len(l) /\ k \in Nat
    BY <1>2
  <2>2. q \in Replaying /\ q.from = from /\ ~q.fault /\ q.hot = hot /\ q.seen = ToSet(SubSeq(l, 1, k - 1))
    BY <1>3, <1>8, <2>1
  <2>3. f \in FrameLine /\ ~Before(from, f.pos) /\ \A g \in q.seen : g.pos # f.pos /\ g.txn # f.txn
    BY <1>4, <1>5, <1>6, <2>2
  <2>4. r(k) = w /\ ToSet(SubSeq(l, 1, k)) = ToSet(SubSeq(l, 1, k - 1)) \cup {f}
    BY <1>4
  <2> HIDE DEF q, f
  <2>5. Twins(q, f) = {}
    BY <2>3 DEF Twins
  <2>6. w.hot = q.hot /\ w.seen = q.seen \cup {f} /\ ~w.fault
    BY Zenon, <2>2, <2>3, <2>5, FrameReplayed
  <2> QED
    BY Zenon, <2>1, <2>2, <2>4, <2>6
<1> HIDE DEF P
<1>9. \A k \in 0 .. Len(l) : k \in P
  BY Zenon, <1>2, <1>7, <1>8, Climb
<1>10. Len(l) \in P
  BY <1>2, <1>9
<1> QED
  BY <1>2, <1>10 DEF P, Rep, r0

-----------------------------------------------------------------------------
(* The invariant of recovery.                                              *)

\* The records that frames make from nothing, and those that the owner would show with its open group.
Made(l) == ApplyAll(NoRecords, l)
View == [i \in Id |-> Current(i)]

\* The records v are what the operation o asks for.
Satisfied(v, o) == IF o.kind = "state" THEN v[o.id].st = o.what ELSE v[o.id] # None

\* A checkpoint m and the frames l give the records that l makes.
Replays(m, l) ==
  LET r == Rep(m.hot, m.ckpt, l)
  IN  ~r.fault /\ Tiers(r.hot, m.cold) = Made(l)

\* No transaction has two frames, in the files or in the open group, or a frame before it is taken.
Known == ToSet(Full(segments)) \cup ToSet(own.frames)
Single ==
  /\ \A f, g \in Known : f.txn = g.txn => f = g
  /\ \A x, y \in DOMAIN own.frames : own.frames[x].txn = own.frames[y].txn => x = y
  /\ \A x, y \in DOMAIN inbox : inbox[x] = inbox[y] => x = y
  /\ \A t \in Txn : t \in ToSet(inbox) \/ op[t] = NoOp => \A f \in Known : f.txn # t

\* The MANIFEST goes with what is durable, and with what is found.
Recoverable ==
  /\ Replays(manifest, log) /\ Replays(manifest, Full(segments))
  /\ Keeps(Made(log), Made(Full(segments)))
  /\ DOMAIN manifest.receipts \subseteq Txns(log)

\* The owner o serves what the frames l make, and has receipts of all after its checkpoint.
Serves(o, l, m) ==
  /\ Tiers(o.hot, o.cold) = Made(l)
  /\ Covers(o.hot, Rep(m.hot, m.ckpt, l).hot)
  /\ DOMAIN o.receipts \subseteq Txns(l)
  /\ \A f \in ToSet(l) : Before(o.ckpt, f.pos) => f.txn \in DOMAIN o.receipts

\* The frames of the open group fit, and it shows what they do.
Grouped ==
  /\ Chain(own.hot, Made(log), own.frames)
  /\ View = ApplyAll(own.hot, own.frames)
  /\ own.frames = <<>> => own.overlay = NoRecords
  /\ \A t \in own.noops : Satisfied(ApplyAll(Made(log), own.frames), op[t])

Serving == own.state \in {"available", "unavailable_write"} => Serves(own, log, manifest) /\ Grouped

\* What was answered without a frame is so in the log.
Truthful == \A t \in Txn : outcome[t] = "duplicate" => Satisfied(Made(log), op[t])

\* An operation is one of four kinds.
LEMMA OpIs ==
  /\ \A o \in Op : /\ o.kind \in {"begin", "obs", "state", "reheat"} /\ o.id \in Id
                   /\ o.kind = "state" => o.what \in Terminal
  /\ \A o \in Op : o # NoOp
BY OpAssumption DEF NoOp

\* What is satisfied stays so while records are kept.
LEMMA SatisfiedKept ==
  ASSUME NEW v, NEW w, Keeps(v, w), NEW o \in Op, Satisfied(v, o)
  PROVE  Satisfied(w, o)
<1>1. o.id \in Id /\ (o.kind = "state" => o.what \in Terminal)
  BY OpIs
<1>2. CASE o.kind = "state"
  BY <1>1, <1>2 DEF Satisfied, Keeps
<1>3. CASE o.kind # "state"
  BY <1>1, <1>3 DEF Satisfied, Keeps
<1> QED
  BY <1>2, <1>3

\* No frames.
LEMMA NoFrames ==
  /\ <<>> \in Seq(FrameLine) /\ ToSet(<<>>) = {} /\ DOMAIN <<>> = {}
  /\ \A v : ApplyAll(v, <<>>) = v
  /\ \A h, v : Chain(h, v, <<>>)
<1>1. <<>> \in Seq({1}) /\ 1 \in {1} /\ <<>> \in Seq(FrameLine) /\ DOMAIN <<>> = {}
  OBVIOUS
<1>2. \A v : ApplyAll(v, <<>>) = v
  BY Zenon, <1>1, AlongApply DEF ApplyAll
<1>3. ToSet(<<>>) = {}
  BY <1>1 DEF ToSet
<1>4. \A h, v : Chain(h, v, <<>>)
  BY <1>1 DEF Chain
<1> QED
  BY <1>1, <1>2, <1>3, <1>4

\* Records of both tiers are records, and those that frames make are.
LEMMA MadeIs ==
  /\ \A h \in Records, c \in Records : Tiers(h, c) \in Records
  /\ \A l \in Seq(FrameLine) : Made(l) \in Records
  /\ \A l \in Seq(FrameLine), m \in Seq(FrameLine) : Made(l \o m) = ApplyAll(Made(l), m)
<1>1. NoRecords \in Records
  BY NoneIs
<1>2. ASSUME NEW h \in Records, NEW c \in Records PROVE Tiers(h, c) \in Records
  BY DEF Tiers, Records
<1>3. ASSUME NEW l \in Seq(FrameLine) PROVE Made(l) \in Records
  BY <1>1, ApplySteps DEF Made
<1>4. ASSUME NEW l \in Seq(FrameLine), NEW m \in Seq(FrameLine) PROVE Made(l \o m) = ApplyAll(Made(l), m)
  BY <1>1, ApplyJoined DEF Made
<1> QED
  BY <1>2, <1>3, <1>4

\* More frames are of more transactions, and frames together are of those of both.
LEMMA TxnsJoined ==
  ASSUME NEW l \in Seq(FrameLine), NEW m \in Seq(FrameLine)
  PROVE  /\ l \o m \in Seq(FrameLine) /\ ToSet(l \o m) = ToSet(l) \cup ToSet(m)
         /\ Txns(l \o m) = Txns(l) \cup Txns(m)
<1>1. l \o m \in Seq(FrameLine) /\ ToSet(l \o m) = ToSet(l) \cup ToSet(m)
  BY Elements
<1> QED
  BY <1>1 DEF Txns

\* The frames of the log have different positions and transactions.
LEMMA LogApart ==
  ASSUME NEW l \in Seq(FrameLine), Sorted(l), \A f, g \in ToSet(l) : f.txn = g.txn => f = g
  PROVE  Apart(<<>>, l) /\ Alone(ToSet(l))
<1>1. /\ DOMAIN l = 1 .. Len(l) /\ Len(l) \in Nat
      /\ \A x \in DOMAIN l : l[x] \in FrameLine /\ l[x].pos \in Nat \X Nat /\ l[x] \in ToSet(l)
      /\ \A f \in ToSet(l) : \E x \in DOMAIN l : f = l[x]
  BY PosIs
<1>2. \A x, y \in DOMAIN l : l[x].pos = l[y].pos => x = y
  <2> SUFFICES ASSUME NEW x \in DOMAIN l, NEW y \in DOMAIN l, x # y PROVE l[x].pos # l[y].pos
    OBVIOUS
  <2>1. x < y \/ y < x
    BY <1>1
  <2>2. Before(l[x].pos, l[y].pos) \/ Before(l[y].pos, l[x].pos)
    BY <2>1 DEF Sorted
  <2> QED
    BY <1>1, <2>2, BeforeOrder
<1>3. \A x, y \in DOMAIN l : l[x].txn = l[y].txn => x = y
  BY <1>1, <1>2
<1>4. Apart(<<>>, l)
  BY <1>2, <1>3, NoFrames DEF Apart
<1>5. Alone(ToSet(l))
  BY <1>1, <1>2 DEF Alone
<1> QED
  BY <1>4, <1>5

\* The two logs, when no transaction has two frames.
LEMMA LogsAlone ==
  ASSUME Sound, Ordered, Single
  PROVE  /\ segments \in Segments /\ InOrder(AllGroups(segments)) /\ TornLasts(segments)
         /\ log \in Seq(FrameLine) /\ Sorted(log) /\ ToSet(log) = FramesIn(HeldGroups(segments))
         /\ Full(segments) \in Seq(FrameLine) /\ ToSet(Full(segments)) = FramesIn(FoundGroups(segments))
         /\ ToSet(log) \subseteq ToSet(Full(segments))
         /\ Apart(<<>>, log) /\ Alone(FramesIn(FoundGroups(segments)))
         /\ own.frames \in Seq(FrameLine)
<1>1. segments \in Segments /\ InOrder(AllGroups(segments)) /\ TornLasts(segments) /\ log = LogOf(Fsynced(segments))
  BY DEF Sound, Stored, Ordered, FilesInOrder
<1>2. /\ Full(segments) \in Seq(FrameLine) /\ Sorted(Full(segments))
      /\ ToSet(Full(segments)) = FramesIn(FoundGroups(segments))
      /\ log \in Seq(FrameLine) /\ Sorted(log) /\ ToSet(log) = FramesIn(HeldGroups(segments))
  BY <1>1, LogsAre
<1>3. ToSet(log) \subseteq ToSet(Full(segments)) /\ own.frames \in Seq(FrameLine)
  BY <1>2, Positions
<1>4. \A f, g \in ToSet(Full(segments)) : f.txn = g.txn => f = g
  BY DEF Single, Known
<1>5. Alone(ToSet(Full(segments)))
  BY <1>2, <1>4, LogApart
<1>6. Apart(<<>>, log)
  BY <1>2, <1>3, <1>4, LogApart
<1> QED
  BY <1>1, <1>2, <1>3, <1>5, <1>6

\* The open group is apart from the log, and after the checkpoint.
LEMMA GroupApart ==
  ASSUME Sound, Ordered, Writing, Single, own.state = "available"
  PROVE  Apart(log, own.frames) /\ \A f \in ToSet(own.frames) : Before(manifest.ckpt, f.pos)
<1> DEFINE fr == own.frames
<1>1. /\ fr \in Seq(FrameLine) /\ Sorted(fr)
      /\ \A h \in HeldGroups(segments) : Wholly(h, fr)
      /\ \A f \in ToSet(fr) : Before(manifest.ckpt, f.pos)
  BY OwnGroup
<1>2. /\ log \in Seq(FrameLine) /\ ToSet(log) = FramesIn(HeldGroups(segments))
      /\ ToSet(log) \subseteq ToSet(Full(segments))
  BY LogsAlone
<1>3. \A g \in ToSet(log), f \in ToSet(fr) : Before(g.pos, f.pos)
  <2> SUFFICES ASSUME NEW g \in ToSet(log), NEW f \in ToSet(fr) PROVE Before(g.pos, f.pos)
    OBVIOUS
  <2>1. PICK h \in HeldGroups(segments) : g \in ToSet(h)
    BY <1>2, FramesInIs
  <2> QED
    BY <1>1, <2>1 DEF Wholly, BeforeAll
<1>4. /\ \A g \in ToSet(log) : g \in FrameLine
      /\ \A f \in ToSet(fr) : f \in FrameLine
  BY <1>1, <1>2, PosIs
<1>5. \A g \in ToSet(log), f \in ToSet(fr) : g.pos # f.pos /\ g # f
  BY <1>3, <1>4, PosIs, BeforeOrder
<1>6. \A g \in ToSet(log), f \in ToSet(fr) : g.txn = f.txn => g = f
  BY <1>2 DEF Single, Known
<1>7. \A x, y \in DOMAIN fr : fr[x].txn = fr[y].txn => x = y
  BY DEF Single
<1>8. \A f, g \in ToSet(fr) : f.txn = g.txn => f = g
  BY DEF Single, Known
<1>9. Apart(<<>>, fr)
  BY <1>1, <1>8, LogApart
<1> QED
  BY <1>1, <1>5, <1>6, <1>9 DEF Apart

\* The records of the MANIFEST and of the owner.
LEMMA RecordsAre ==
  ASSUME Sound
  PROVE  /\ manifest.hot \in Records /\ manifest.cold \in Records /\ manifest.ckpt \in Nat \X Nat
         /\ own.hot \in Records /\ own.cold \in Records /\ own.ckpt \in Nat \X Nat /\ View \in Records
         /\ own.noops \subseteq Asked /\ own.overlay \in Records
<1>1. manifest \in Manifest /\ own \in Owner
  BY DEF Sound, Stored, Owned
<1>2. View \in Records
  BY <1>1, CurrentIs DEF View
<1>3. own.noops \subseteq Asked
  BY DEF Sound, Answered
<1> QED
  BY <1>1, <1>2, <1>3 DEF Manifest, Owner

\* What the open group does, when it is written.
LEMMA GroupReplays ==
  ASSUME Sound, Ordered, Writing, Single, Recoverable, Serving, own.state = "available"
  PROVE  LET l == log \o own.frames
         IN  /\ l \in Seq(FrameLine) /\ Made(l) = ApplyAll(Made(log), own.frames)
             /\ Replays(manifest, l) /\ Keeps(Made(log), Made(l))
             /\ Tiers(View, own.cold) = Made(l) /\ Covers(View, Rep(manifest.hot, manifest.ckpt, l).hot)
<1> DEFINE fr == own.frames
           v == Made(log)
           r == Rep(manifest.hot, manifest.ckpt, log)
           q == Rep(manifest.hot, manifest.ckpt, log \o fr)
<1>1. log \in Seq(FrameLine) /\ fr \in Seq(FrameLine) /\ log \o fr \in Seq(FrameLine)
  BY LogsAlone, TxnsJoined
<1>2. v \in Records /\ Made(log \o fr) = ApplyAll(v, fr)
  BY <1>1, MadeIs
<1>3. /\ manifest.hot \in Records /\ manifest.cold \in Records /\ manifest.ckpt \in Nat \X Nat
      /\ own.hot \in Records /\ own.cold \in Records
  BY RecordsAre
<1>4. ~r.fault /\ Tiers(r.hot, manifest.cold) = v
  BY DEF Recoverable, Replays
<1>5. /\ Tiers(own.hot, own.cold) = v /\ Covers(own.hot, r.hot) /\ Chain(own.hot, v, fr)
      /\ View = ApplyAll(own.hot, fr)
  BY DEF Serving, Serves, Grouped
<1>6. Apart(log, fr) /\ \A f \in ToSet(fr) : Before(manifest.ckpt, f.pos)
  BY GroupApart
<1> HIDE DEF fr, v
<1>7. ~q.fault /\ Tiers(q.hot, manifest.cold) = ApplyAll(v, fr) /\ Covers(ApplyAll(own.hot, fr), q.hot)
  BY <1>1, <1>2, <1>3, <1>4, <1>5, <1>6, ChainReplayed
<1>8. Tiers(ApplyAll(own.hot, fr), own.cold) = ApplyAll(v, fr) /\ Keeps(v, ApplyAll(v, fr))
  BY <1>1, <1>2, <1>3, <1>5, ChainRuns
<1>9. Replays(manifest, log \o fr)
  BY <1>2, <1>7 DEF Replays
<1> QED
  BY <1>1, <1>2, <1>5, <1>7, <1>8, <1>9 DEF fr, v

\* Single, after a step that takes nothing.
LEMMA SingleKept ==
  ASSUME Single, Known' \subseteq Known, own'.frames \in {own.frames, <<>>}, inbox' \in {inbox, <<>>}, op' = op
  PROVE  Single'
<1>1. DOMAIN <<>> = {} /\ ToSet(<<>>) = {}
  BY NoFrames
<1>2. \A f, g \in Known' : f.txn = g.txn => f = g
  BY DEF Single
<1>3. \A x, y \in DOMAIN own'.frames : own'.frames[x].txn = own'.frames[y].txn => x = y
  BY <1>1 DEF Single
<1>4. \A x, y \in DOMAIN inbox' : inbox'[x] = inbox'[y] => x = y
  BY <1>1 DEF Single
<1>5. \A t \in Txn : t \in ToSet(inbox') \/ op'[t] = NoOp => \A f \in Known' : f.txn # t
  BY <1>1 DEF Single
<1> QED
  BY <1>2, <1>3, <1>4, <1>5 DEF Single

\* Recoverable, after a step that leaves what the MANIFEST says of records and receipts.
LEMMA RecoverableKept ==
  ASSUME Recoverable, manifest'.hot = manifest.hot, manifest'.cold = manifest.cold, manifest'.ckpt = manifest.ckpt,
         manifest'.receipts = manifest.receipts, Replays(manifest, log'), Replays(manifest, Full(segments')),
         Keeps(Made(log'), Made(Full(segments'))), Txns(log) \subseteq Txns(log')
  PROVE  Recoverable'
<1>1. Replays(manifest', log') /\ Replays(manifest', Full(segments'))
  BY DEF Replays
<1>2. DOMAIN manifest'.receipts \subseteq Txns(log')
  BY DEF Recoverable
<1>3. Recoverable' <=> /\ Replays(manifest', log') /\ Replays(manifest', Full(segments'))
                       /\ Keeps(Made(log'), Made(Full(segments')))
                       /\ DOMAIN manifest'.receipts \subseteq Txns(log')
  BY DEF Recoverable, Full
<1> QED
  BY <1>1, <1>2, <1>3

\* Truthful, after a step that says nothing of the kind.
LEMMA TruthfulKept ==
  ASSUME Sound, Truthful, Keeps(Made(log), Made(log')), op' = op,
         \A t \in Txn : outcome'[t] = "duplicate" => outcome[t] = "duplicate"
  PROVE  Truthful'
<1>1. ASSUME NEW t \in Txn, outcome'[t] = "duplicate" PROVE Satisfied(Made(log'), op'[t])
  <2>1. outcome[t] = "duplicate" /\ Satisfied(Made(log), op[t])
    BY <1>1 DEF Truthful
  <2>2. op[t] # NoOp /\ op[t] \in Op
    BY <2>1 DEF Sound, Answered
  <2> QED
    BY <2>1, <2>2, SatisfiedKept
<1> QED
  BY <1>1 DEF Truthful

-----------------------------------------------------------------------------
(* Submissions, exits and losses of power.                                 *)

\* A store can be read.
Readable == own.state # "unavailable_read"

\* The invariant of what is served, found and answered.
Kept4 == Single /\ Recoverable /\ Serving /\ Truthful /\ Readable
Complete == Sound /\ WholeEnds /\ Ordered /\ Writing /\ Kept4

\* submit of the client: a transaction that has no frame is posted once.
LEMMA SubmitComplete ==
  ASSUME Complete, NEW t \in Txn, NEW o \in Op, Submit(t, o)
  PROVE  Kept4'
<1> USE DEF Complete, Kept4
<1>1. /\ op[t] = NoOp /\ own.state = "available" /\ op' = [op EXCEPT ![t] = o]
      /\ outcome' = [outcome EXCEPT ![t] = "pending"] /\ inbox' = Append(inbox, t)
      /\ segments' = segments /\ manifest' = manifest /\ own' = own /\ log' = log
  BY DEF Submit
<1>2. /\ inbox \in Seq(Asked) /\ own.noops \subseteq Asked /\ op \in [Txn -> Op \cup {NoOp}]
      /\ outcome \in [Txn -> Told] /\ Asked \subseteq Txn
  BY DEF Sound, Answered, Asked
<1>3. t \notin Asked /\ o # NoOp
  BY <1>1, OpIs DEF Asked
<1>4. \A u \in Txn : u # t => op'[u] = op[u] /\ outcome'[u] = outcome[u]
  BY <1>1, <1>2
<1>5. op'[t] = o /\ outcome'[t] = "pending"
  BY <1>1, <1>2
<1>6. Single'
  <2>1. Known' = Known
    BY <1>1 DEF Known, Full
  <2>2. /\ inbox \in Seq(Txn) /\ Len(inbox) \in Nat /\ DOMAIN inbox = 1 .. Len(inbox)
        /\ DOMAIN inbox' = 1 .. Len(inbox) + 1 /\ inbox'[Len(inbox) + 1] = t
        /\ \A x \in DOMAIN inbox : inbox'[x] = inbox[x] /\ inbox[x] \in Asked
    BY <1>1, <1>2
  <2>3. ToSet(inbox') = ToSet(inbox) \cup {t}
    BY <1>1, <2>2, Elements
  <2>4. \A x, y \in DOMAIN inbox' : inbox'[x] = inbox'[y] => x = y
    <3>1. \A x \in DOMAIN inbox' : x \in DOMAIN inbox \/ x = Len(inbox) + 1
      BY <2>2
    <3>2. \A x, y \in DOMAIN inbox : inbox[x] = inbox[y] => x = y
      BY DEF Single
    <3>3. \A x \in DOMAIN inbox : inbox'[x] # t
      BY <1>3, <2>2
    <3> QED
      BY <2>2, <3>1, <3>2, <3>3
  <2>5. \A u \in Txn : u \in ToSet(inbox') \/ op'[u] = NoOp => \A f \in Known' : f.txn # u
    <3> SUFFICES ASSUME NEW u \in Txn, u \in ToSet(inbox') \/ op'[u] = NoOp PROVE \A f \in Known : f.txn # u
      BY <2>1
    <3>1. CASE u = t
      BY <1>1, <3>1 DEF Single
    <3>2. CASE u # t
      BY <1>4, <2>3, <3>2 DEF Single
    <3> QED
      BY <3>1, <3>2
  <2>6. \A f, g \in Known' : f.txn = g.txn => f = g
    BY <2>1 DEF Single
  <2>7. \A x, y \in DOMAIN own'.frames : own'.frames[x].txn = own'.frames[y].txn => x = y
    BY <1>1 DEF Single
  <2> QED
    BY <2>4, <2>5, <2>6, <2>7 DEF Single
<1>7. Recoverable'
  <2>1. Full(segments') = Full(segments)
    BY <1>1
  <2> QED
    BY <1>1, <2>1, RecoverableKept DEF Recoverable
<1>8. Serving'
  <2>1. Serves(own', log', manifest') <=> Serves(own, log, manifest)
    BY <1>1
  <2>2. View' = View
    BY <1>1 DEF View, Current
  <2>3. \A u \in own.noops : op'[u] = op[u]
    BY <1>2, <1>3, <1>4
  <2>4. Grouped => Grouped'
    BY <1>1, <2>2, <2>3 DEF Grouped
  <2> QED
    BY <1>1, <2>1, <2>4 DEF Serving
<1>9. Truthful'
  <2> SUFFICES ASSUME NEW u \in Txn, outcome'[u] = "duplicate" PROVE Satisfied(Made(log'), op'[u])
    BY DEF Truthful
  <2>1. u # t
    BY <1>5
  <2> QED
    BY <1>1, <1>4, <2>1 DEF Truthful
<1> QED
  BY <1>1, <1>6, <1>7, <1>8, <1>9 DEF Readable

\* No owner serves nothing.
LEMMA DownServes ==
  ASSUME own' = Down
  PROVE  Serving' /\ Readable' /\ own'.frames = <<>>
BY DownIs DEF Serving, Readable

\* The end of an owner.
LEMMA ExitComplete ==
  ASSUME Complete, Exit
  PROVE  Kept4'
<1> USE DEF Complete, Kept4
<1>1. /\ own' = Down /\ inbox' = <<>> /\ segments' = segments /\ manifest' = manifest /\ op' = op /\ log' = log
      /\ Tell(Pending, "indeterminate")
  BY DEF Exit
<1>2. Full(segments') = Full(segments) /\ own'.frames = <<>>
  BY <1>1, DownServes
<1>3. Known' \subseteq Known
  BY <1>2, NoFrames DEF Known, Full
<1>4. Single'
  BY <1>1, <1>2, <1>3, SingleKept
<1>5. Recoverable'
  BY <1>1, <1>2, RecoverableKept DEF Recoverable
<1>6. Truthful'
  BY <1>1, TruthfulKept, KeepsOrder DEF Tell
<1> QED
  BY <1>1, <1>4, <1>5, <1>6, DownServes

\* A log that has been found is as good as the log.
LEMMA FoundLog ==
  ASSUME Complete, log' \in {log, Full(segments)}
  PROVE  /\ Replays(manifest, log') /\ Keeps(Made(log), Made(log')) /\ Txns(log) \subseteq Txns(log')
         /\ Keeps(Made(log'), Made(Full(segments)))
<1>1. Recoverable /\ ToSet(log) \subseteq ToSet(Full(segments))
  BY LogsAlone DEF Complete, Kept4
<1>2. Txns(log) \subseteq Txns(log')
  BY <1>1 DEF Txns
<1> QED
  BY <1>1, <1>2, KeepsOrder DEF Recoverable

\* A loss of power.
LEMMA PowerLossComplete ==
  ASSUME Complete, PowerLoss
  PROVE  Kept4'
<1> USE DEF Complete, Kept4
<1>1. /\ own' = Down /\ inbox' = <<>> /\ manifest' = manifest /\ op' = op
      /\ Tell({t \in Txn : outcome[t] \in {"pending", "indeterminate"}}, "lost")
  BY DEF PowerLoss
<1>2. log' = Full(segments') /\ log' \in {log, Full(segments)}
  BY PowerLossOrder
<1>3. own'.frames = <<>>
  BY <1>1, DownServes
<1>4. Known' \subseteq Known
  <2>1. ToSet(Full(segments')) \subseteq ToSet(Full(segments))
    BY <1>2, LogsAlone
  <2> QED
    BY <1>3, <2>1, NoFrames DEF Known, Full
<1>5. Single'
  BY <1>1, <1>3, <1>4, SingleKept
<1>6. Recoverable'
  BY <1>1, <1>2, FoundLog, RecoverableKept, KeepsOrder
<1>7. Truthful'
  BY <1>1, <1>2, FoundLog, TruthfulKept DEF Tell
<1> QED
  BY <1>1, <1>5, <1>6, <1>7, DownServes

-----------------------------------------------------------------------------
(* Writes.                                                                 *)

\* The memory of the owner while it writes a group again.
LEMMA RetryMemory ==
  ASSUME own \in Owner, own' = [own EXCEPT !.retry = TRUE]
  PROVE  /\ own'.state = own.state /\ own'.frames = own.frames /\ own'.hot = own.hot /\ own'.cold = own.cold
         /\ own'.receipts = own.receipts /\ own'.ckpt = own.ckpt /\ own'.overlay = own.overlay
         /\ own'.noops = own.noops
BY DEF Owner

\* The owner serves the same while its records, its receipts and the log are the same.
LEMMA ServesKept ==
  ASSUME Serves(own, log, manifest), own'.hot = own.hot, own'.cold = own.cold, own'.receipts = own.receipts,
         own'.ckpt = own.ckpt, log' = log, manifest' = manifest
  PROVE  Serves(own', log', manifest')
BY DEF Serves

\* No open group.
LEMMA NotGrouped ==
  ASSUME own' \in Owner, own'.frames = <<>>, own'.overlay = NoRecords, own'.noops = {}
  PROVE  Grouped'
<1>1. own'.hot \in Records
  BY DEF Owner
<1>2. View' = own'.hot
  BY <1>1 DEF View, Current, NoRecords, Records
<1> QED
  BY <1>2, NoFrames DEF Grouped

\* A write that fails leaves the group either unwritten or to be found.
LEMMA FailedComplete ==
  ASSUME Complete, own.state = "available", manifest' = manifest, op' = op, inbox' = inbox,
         log' = log, Full(segments') \in {log, log \o own.frames}, own'.frames \in {own.frames, <<>>},
         \A t \in Txn : outcome'[t] = "duplicate" => outcome[t] = "duplicate"
  PROVE  Single' /\ Recoverable' /\ Truthful'
<1> USE DEF Complete, Kept4
<1>1. /\ log \o own.frames \in Seq(FrameLine) /\ Replays(manifest, log \o own.frames)
      /\ Keeps(Made(log), Made(log \o own.frames))
  BY GroupReplays
<1>2. log \in Seq(FrameLine) /\ own.frames \in Seq(FrameLine) /\ ToSet(log) \subseteq ToSet(Full(segments))
  BY LogsAlone
<1>3. ToSet(log \o own.frames) = ToSet(log) \cup ToSet(own.frames)
  BY <1>2, TxnsJoined
<1>4. ToSet(own'.frames) \subseteq ToSet(own.frames)
  BY NoFrames
<1>5. Known' \subseteq Known
  <2>1. Known' = ToSet(Full(segments')) \cup ToSet(own'.frames)
    BY DEF Known, Full
  <2>2. ToSet(Full(segments')) \subseteq ToSet(log) \cup ToSet(own.frames)
    BY Zenon, <1>3
  <2> QED
    BY <1>2, <1>4, <2>1, <2>2 DEF Known
<1>6. Single'
  BY <1>5, SingleKept
<1>7. Recoverable'
  <2>1. Replays(manifest, log)
    BY DEF Recoverable
  <2>2. Replays(manifest, Full(segments')) /\ Keeps(Made(log'), Made(Full(segments')))
    BY Zenon, <1>1, <2>1, KeepsOrder
  <2> QED
    BY <2>1, <2>2, RecoverableKept
<1>8. Truthful'
  BY TruthfulKept, KeepsOrder
<1> QED
  BY <1>6, <1>7, <1>8

\* A merge, which serves the group and answers for it.
LEMMA MergeComplete ==
  ASSUME Complete, own.state = "available", manifest' = manifest, op' = op, inbox' = inbox,
         NEW segs, Merge(segs), log' = log \o own.frames, Full(segments') = log \o own.frames
  PROVE  Kept4'
<1> USE DEF Complete, Kept4
<1> DEFINE l == log \o own.frames
<1>1. /\ l \in Seq(FrameLine) /\ Made(l) = ApplyAll(Made(log), own.frames)
      /\ Replays(manifest, l) /\ Keeps(Made(log), Made(l))
      /\ Tiers(View, own.cold) = Made(l) /\ Covers(View, Rep(manifest.hot, manifest.ckpt, l).hot)
  BY GroupReplays
<1>2. log \in Seq(FrameLine) /\ own.frames \in Seq(FrameLine) /\ ToSet(log) \subseteq ToSet(Full(segments))
  BY LogsAlone
<1>3. ToSet(l) = ToSet(log) \cup ToSet(own.frames) /\ Txns(l) = Txns(log) \cup Txns(own.frames)
  BY <1>2, TxnsJoined
<1>4. log' = l /\ Full(segments') = l
  OBVIOUS
<1>5. /\ own' \in Owner /\ own'.frames = <<>> /\ own'.noops = {} /\ own'.state = own.state
      /\ own'.hot = View /\ own'.cold = own.cold /\ own'.ckpt = own.ckpt
      /\ own'.overlay = NoRecords
      /\ DOMAIN own'.receipts = DOMAIN own.receipts \cup Txns(own.frames)
  BY MergeMemory, MergeOwned DEF Sound, View
<1>6. \A t \in Txn : outcome'[t] = IF t \in Txns(own.frames) THEN "acked"
                                   ELSE IF t \in own.noops THEN "duplicate" ELSE outcome[t]
  BY DEF Merge
<1> HIDE DEF l
<1>7. Single'
  <2>1. Known' = ToSet(l) \cup {}
    BY <1>4, <1>5, NoFrames DEF Known, Full
  <2>2. Known' \subseteq Known
    BY <1>2, <1>3, <2>1 DEF Known
  <2> QED
    BY <1>5, <2>2, SingleKept
<1>8. Recoverable'
  BY <1>1, <1>3, <1>4, RecoverableKept, KeepsOrder
<1>9. Serves(own, log, manifest) /\ Grouped
  BY DEF Serving
<1>10. Serves(own', log', manifest')
  <2>1. DOMAIN own'.receipts \subseteq Txns(l)
    BY <1>3, <1>5, <1>9 DEF Serves
  <2>2. \A f \in ToSet(l) : Before(own.ckpt, f.pos) => f.txn \in DOMAIN own'.receipts
    BY <1>3, <1>5, <1>9 DEF Serves, Txns
  <2> QED
    BY <1>1, <1>4, <1>5, <2>1, <2>2 DEF Serves
<1>11. Grouped'
  BY <1>5, NotGrouped
<1>12. Truthful'
  <2> SUFFICES ASSUME NEW t \in Txn, outcome'[t] = "duplicate" PROVE Satisfied(Made(l), op[t])
    BY <1>4 DEF Truthful
  <2>1. CASE t \in own.noops
    BY <1>1, <1>9, <2>1 DEF Grouped
  <2>2. CASE t \notin own.noops
    <3>1. outcome[t] = "duplicate"
      BY <1>6, <2>2
    <3>2. op[t] \in Op
      BY <3>1 DEF Sound, Answered
    <3> QED
      BY <1>1, <3>1, <3>2, SatisfiedKept DEF Truthful
  <2> QED
    BY <2>1, <2>2
<1> QED
  BY <1>5, <1>7, <1>8, <1>10, <1>11, <1>12 DEF Serving, Readable

\* The first attempt of flushGroup.
LEMMA FlushComplete ==
  ASSUME Complete, Flush
  PROVE  Kept4'
<1> USE DEF Complete, Kept4
<1>1. own.state = "available" /\ manifest' = manifest /\ op' = op /\ inbox' = inbox
  BY DEF Flush
<1>2. CASE Merge(segments) /\ log' = log \o own.frames /\ Full(segments') = log \o own.frames
  BY <1>1, <1>2, MergeComplete
<1>3. CASE /\ own' = [own EXCEPT !.retry = TRUE] /\ outcome' = outcome
           /\ log' = log /\ Full(segments') \in {log, log \o own.frames}
  <2>1. /\ own'.state = own.state /\ own'.frames = own.frames /\ own'.hot = own.hot /\ own'.cold = own.cold
        /\ own'.receipts = own.receipts /\ own'.ckpt = own.ckpt /\ own'.overlay = own.overlay
        /\ own'.noops = own.noops
    BY <1>3, RetryMemory DEF Sound, Owned
  <2>2. Single' /\ Recoverable' /\ Truthful'
    BY <1>1, <1>3, <2>1, FailedComplete
  <2>3. Serves(own', log', manifest')
    BY <1>1, <1>3, <2>1, ServesKept DEF Serving
  <2>4. View' = View
    BY <2>1 DEF View, Current
  <2>5. Grouped'
    BY <1>1, <1>3, <2>1, <2>4 DEF Serving, Grouped
  <2> QED
    BY <1>1, <2>1, <2>2, <2>3, <2>5 DEF Serving, Readable
<1> QED
  BY <1>2, <1>3, FlushOrder

\* The second, after which the group may be found, or not.
LEMMA RetryComplete ==
  ASSUME Complete, Retry
  PROVE  Kept4'
<1> USE DEF Complete, Kept4
<1>1. own.state = "available" /\ manifest' = manifest /\ op' = op /\ inbox' = inbox
  BY RetryOrder DEF Retry
<1>2. CASE /\ Merge(NewSegment(segments, own.epoch))
           /\ log' = log \o own.frames /\ Full(segments') = log \o own.frames
  BY <1>1, <1>2, MergeComplete
<1>3. CASE /\ own' = NoGroup([own EXCEPT !.state = "unavailable_write"])
           /\ Tell(Txns(own.frames) \cup own.noops, "indeterminate")
           /\ log' = log /\ Full(segments') \in {log, log \o own.frames}
  <2>1. /\ own' \in Owner /\ own'.state = "unavailable_write" /\ own'.frames = <<>> /\ own'.noops = {}
        /\ own'.hot = own.hot /\ own'.cold = own.cold /\ own'.receipts = own.receipts
        /\ own'.ckpt = own.ckpt /\ own'.overlay = NoRecords
    BY <1>3, GivenUpMemory DEF Sound, Owned
  <2>2. \A t \in Txn : outcome'[t] = "duplicate" => outcome[t] = "duplicate"
    BY <1>3 DEF Tell
  <2>3. Single' /\ Recoverable' /\ Truthful'
    BY <1>1, <1>3, <2>1, <2>2, FailedComplete
  <2>4. Serves(own', log', manifest')
    BY <1>1, <1>3, <2>1, ServesKept DEF Serving
  <2>5. Grouped'
    BY <2>1, NotGrouped
  <2> QED
    BY <2>1, <2>3, <2>4, <2>5 DEF Serving, Readable
<1> QED
  BY <1>2, <1>3, RetryOrder

-----------------------------------------------------------------------------
(* Operations.                                                             *)

\* What an operation that is redundant asks for is so.
LEMMA RedundantSatisfied ==
  ASSUME own.cold \in Records, NEW o \in Op, Redundant(o), NEW h \in Records, h[o.id] = Current(o.id)
  PROVE  Satisfied(Tiers(h, own.cold), o)
<1> DEFINE cur == Current(o.id)
           both == Tiers(h, own.cold)[o.id]
<1>1. /\ o.kind \in {"begin", "obs", "state", "reheat"} /\ o.id \in Id
      /\ o.kind = "state" => o.what \in Terminal
  BY OpIs
<1>2. both = IF cur # None THEN cur ELSE own.cold[o.id]
  BY <1>1 DEF Tiers
<1>3. /\ o.kind = "begin" => cur # None \/ own.cold[o.id] # None
      /\ o.kind = "obs" => cur # None
      /\ o.kind = "state" => cur.st = o.what
      /\ o.kind = "reheat" => cur # None
  BY Zenon, <1>1 DEF Redundant
<1>4. None.st \notin Terminal
  BY DEF None, Terminal
<1> HIDE DEF cur
<1>5. CASE o.kind = "state"
  <2>1. cur # None /\ cur.st = o.what
    BY <1>1, <1>3, <1>4, <1>5
  <2> QED
    BY <1>2, <1>5, <2>1 DEF Satisfied
<1>6. CASE o.kind # "state"
  BY <1>1, <1>2, <1>3, <1>6 DEF Satisfied
<1> QED
  BY <1>5, <1>6

\* A frame that fits touches only records that are there after it.
LEMMA Touched ==
  ASSUME NEW f \in FrameLine, NEW h \in Records, NEW v \in Records, Fits(h, v, f)
  PROVE  \A i \in Id : ApplyFrame(h, f)[i] = h[i] \/ ApplyFrame(h, f)[i] # None
<1> DEFINE w == ApplyFrame(h, f)
<1>1. /\ f.op.kind \in {"begin", "obs", "state", "reheat"} /\ f.over \subseteq Id
      /\ f.op.kind = "state" => f.op.what \in Terminal
      /\ f.op.kind = "begin" =>
           \A j \in Id : w[j] = IF j = f.op.id THEN Started
                                ELSE IF j \in f.over /\ h[j] # None THEN Retired(h[j]) ELSE h[j]
      /\ f.op.kind = "obs" =>
           \A j \in Id : w[j] = IF j = f.op.id THEN Observed(h[j], f.op.what) ELSE h[j]
      /\ f.op.kind = "state" =>
           \A j \in Id : w[j] = IF j = f.op.id THEN Ended(h[j], f.op.what) ELSE h[j]
      /\ f.op.kind = "reheat" =>
           \A j \in Id : w[j] = IF j = f.op.id THEN f.rec ELSE h[j]
  BY AppliedIs
<1>2. \A j \in Id : h[j] \in Record
  BY DEF Records
<1> SUFFICES \A i \in Id : w[i] = h[i] \/ w[i] # None
  OBVIOUS
<1> HIDE DEF w
<1>3. CASE f.op.kind = "begin"
  BY <1>1, <1>2, <1>3, ChangedIs
<1>4. CASE f.op.kind = "obs"
  BY <1>1, <1>2, <1>4, ChangedIs
<1>5. CASE f.op.kind = "state"
  BY <1>1, <1>2, <1>5, ChangedIs
<1>6. CASE f.op.kind = "reheat"
  BY <1>1, <1>6, FitsIs
<1> QED
  BY <1>1, <1>3, <1>4, <1>5, <1>6

\* The frame of an operation that the owner writes, fits what it shows.
LEMMA FrameFits ==
  ASSUME own \in Owner, NEW t, op[t] \in Op, ~Redundant(op[t]), Writable(op[t]),
         FrameOf(t) \in FrameLine
  PROVE  Fits(View, Tiers(View, own.cold), FrameOf(t))
<1> DEFINE f == FrameOf(t)
           o == op[t]
           i == o.id
           v == Tiers(View, own.cold)
<1>1. /\ o.kind \in {"begin", "obs", "state", "reheat"} /\ i \in Id
  BY OpIs
<1>2. /\ f.op = o /\ (o.kind = "begin" => f.over = Superseded(View, i))
      /\ o.kind = "reheat" => f.rec = own.cold[i]
  BY DEF FrameOf, Frame, View
<1>3. \A j \in Id : /\ View[j] = Current(j)
                    /\ v[j] = IF Current(j) # None THEN Current(j) ELSE own.cold[j]
  BY DEF View, Tiers
<1>4. /\ o.kind = "begin" => Current(i) = None /\ own.cold[i] = None
      /\ o.kind = "obs" => Current(i) # None
      /\ o.kind = "state" => Current(i).st = "tracked"
      /\ o.kind = "reheat" => Current(i) = None /\ own.cold[i] # None
  BY Zenon, <1>1 DEF Redundant, Writable
<1>5. None.st # "tracked"
  BY DEF None
<1>6. ASSUME o.kind = "begin", NEW j \in f.over PROVE View[j] # None /\ v[j].st = "tracked" /\ j # i
  <2>1. j \in Superseded(View, i)
    BY <1>2, <1>6
  <2>2. j \in Id /\ j # i /\ View[j].st = "tracked"
    BY <2>1 DEF Superseded
  <2> QED
    BY <1>3, <1>5, <2>2
<1>7. f \in FrameLine /\ f.op.id = i
  BY <1>2
<1> SUFFICES Fits(View, v, f)
  OBVIOUS
<1> HIDE DEF v, o, f, i
<1>8. CASE o.kind = "begin"
  BY <1>1, <1>2, <1>3, <1>4, <1>6, <1>7, <1>8, FitsIs
<1>9. CASE o.kind = "obs"
  BY <1>1, <1>2, <1>3, <1>4, <1>7, <1>9, FitsIs
<1>10. CASE o.kind = "state"
  BY <1>1, <1>2, <1>3, <1>4, <1>5, <1>7, <1>10, FitsIs
<1>11. CASE o.kind = "reheat"
  BY <1>1, <1>2, <1>3, <1>4, <1>7, <1>11, FitsIs
<1> QED
  BY <1>1, <1>8, <1>9, <1>10, <1>11

\* The open group shows what a frame does that it takes.
LEMMA ShownAfter ==
  ASSUME own \in Owner, NEW f \in FrameLine, NEW v \in Records, Fits(View, v, f),
         own'.overlay = OverlayAfter(f), own'.hot = own.hot
  PROVE  View' = ApplyFrame(View, f)
<1> DEFINE after == ApplyFrame(View, f)
<1>1. View \in Records
  BY CurrentIs DEF View
<1>2. after \in Records
  BY <1>1, ApplyType
<1>3. \A i \in Id : after[i] = View[i] \/ after[i] # None
  BY <1>1, Touched
<1>4. \A i \in Id : OverlayAfter(f)[i] = IF after[i] # Current(i) THEN after[i] ELSE own.overlay[i]
  BY DEF OverlayAfter, View
<1>5. \A i \in Id : View[i] = Current(i)
  BY DEF View
<1> HIDE DEF after
<1>6. ASSUME NEW i \in Id PROVE View'[i] = after[i]
  <2>1. View'[i] = IF own'.overlay[i] # None THEN own'.overlay[i] ELSE own.hot[i]
    BY DEF View, Current
  <2>2. CASE after[i] # Current(i)
    BY <1>3, <1>4, <1>5, <2>1, <2>2
  <2>3. CASE after[i] = Current(i)
    BY <1>4, <2>1, <2>3 DEF Current
  <2> QED
    BY <2>2, <2>3
<1>7. View' = [i \in Id |-> View'[i]]
  BY DEF View
<1>8. after = [i \in Id |-> after[i]]
  BY <1>2 DEF Records
<1> QED
  BY <1>6, <1>7, <1>8 DEF after

\* What Take may do to the memory and to the answers.
LEMMA TakeAnswers ==
  ASSUME Sound, Take
  PROVE  LET t == Head(inbox)
             f == FrameOf(t)
         IN  \/ own' = own /\ \A u \in Txn : outcome'[u] = "duplicate" => outcome[u] = "duplicate"
             \/ /\ own' = own /\ own.state = "available" /\ Redundant(op[t]) /\ own.overlay[op[t].id] = None
                /\ \A u \in Txn : outcome'[u] = "duplicate" => outcome[u] = "duplicate" \/ u = t
             \/ /\ own.state = "available" /\ Redundant(op[t])
                /\ own' = [own EXCEPT !.noops = @ \cup {t}] /\ outcome' = outcome
             \/ /\ own.state = "available" /\ ~Redundant(op[t]) /\ Writable(op[t])
                /\ own' = [own EXCEPT !.frames = Append(@, f), !.overlay = OverlayAfter(f), !.next = @ + 1]
                /\ outcome' = outcome
<1> DEFINE t == Head(inbox)
           o == op[t]
           f == FrameOf(t)
<1>1. \/ Tell({t}, "nacked") /\ UNCHANGED own
      \/ /\ own.state = "available" /\ Redundant(o)
         /\ IF DependsOnGroup(o)
            THEN own' = [own EXCEPT !.noops = @ \cup {t}] /\ UNCHANGED outcome
            ELSE Tell({t}, "duplicate") /\ UNCHANGED own
      \/ /\ own.state = "available" /\ ~Redundant(o) /\ Writable(o)
         /\ own' = [own EXCEPT !.frames = Append(@, f), !.overlay = OverlayAfter(f), !.next = @ + 1]
         /\ UNCHANGED outcome
  BY Zenon DEF Take
<1>2. Tell({t}, "nacked") => \A u \in Txn : outcome'[u] = "duplicate" => outcome[u] = "duplicate"
  BY DEF Tell
<1>3. Tell({t}, "duplicate") => \A u \in Txn : outcome'[u] = "duplicate" => outcome[u] = "duplicate" \/ u = t
  BY DEF Tell
<1>4. DependsOnGroup(o) <=> own.overlay[o.id] # None
  BY DEF DependsOnGroup
<1> HIDE DEF t, o, f
<1>5. CASE Tell({t}, "nacked") /\ UNCHANGED own
  BY <1>2, <1>5
<1>6. CASE /\ own.state = "available" /\ Redundant(o)
           /\ IF DependsOnGroup(o)
              THEN own' = [own EXCEPT !.noops = @ \cup {t}] /\ UNCHANGED outcome
              ELSE Tell({t}, "duplicate") /\ UNCHANGED own
  <2>1. CASE DependsOnGroup(o)
    BY <1>6, <2>1 DEF t, o
  <2>2. CASE ~DependsOnGroup(o)
    BY <1>3, <1>4, <1>6, <2>2 DEF t, o
  <2> QED
    BY <2>1, <2>2
<1>7. CASE /\ own.state = "available" /\ ~Redundant(o) /\ Writable(o)
           /\ own' = [own EXCEPT !.frames = Append(@, f), !.overlay = OverlayAfter(f), !.next = @ + 1]
           /\ UNCHANGED outcome
  BY <1>7 DEF t, o, f
<1> QED
  BY <1>1, <1>5, <1>6, <1>7

\* The memory after a frame, or an operation without one.
LEMMA TakenMemory ==
  ASSUME own \in Owner
  PROVE  /\ \A t \in Txn : own' = [own EXCEPT !.noops = @ \cup {t}] =>
              /\ own'.state = own.state /\ own'.hot = own.hot /\ own'.cold = own.cold
              /\ own'.receipts = own.receipts /\ own'.ckpt = own.ckpt
              /\ own'.frames = own.frames /\ own'.overlay = own.overlay /\ own'.noops = own.noops \cup {t}
         /\ \A f \in FrameLine :
              own' = [own EXCEPT !.frames = Append(@, f), !.overlay = OverlayAfter(f), !.next = @ + 1] =>
              /\ own'.state = own.state /\ own'.hot = own.hot /\ own'.cold = own.cold
              /\ own'.receipts = own.receipts /\ own'.ckpt = own.ckpt /\ own'.noops = own.noops
              /\ own'.frames = Append(own.frames, f) /\ own'.overlay = OverlayAfter(f)
BY Zenon DEF Owner

\* The posted transaction that is taken has no frame, and the others are posted still.
LEMMA TakenOnce ==
  ASSUME Sound, Single, inbox # <<>>, inbox' = Tail(inbox)
  PROVE  LET t == Head(inbox)
         IN  /\ t \in Txn /\ t \in ToSet(inbox) /\ op[t] \in Op
             /\ \A x, y \in DOMAIN inbox' : inbox'[x] = inbox'[y] => x = y
             /\ \A u \in ToSet(inbox') : u \in ToSet(inbox) /\ u # t
             /\ \A g \in Known : g.txn # t
<1> DEFINE t == Head(inbox)
<1>1. inbox \in Seq(Asked) /\ Asked \subseteq Txn /\ op \in [Txn -> Op \cup {NoOp}]
  BY DEF Sound, Answered, Asked
<1>2. /\ Len(inbox) \in Nat /\ DOMAIN inbox = 1 .. Len(inbox) /\ 1 \in DOMAIN inbox /\ t = inbox[1]
      /\ DOMAIN inbox' = 1 .. Len(inbox) - 1
      /\ \A x \in DOMAIN inbox' : inbox'[x] = inbox[x + 1] /\ x + 1 \in DOMAIN inbox /\ x + 1 # 1 /\ x \in Nat
      /\ \A x \in DOMAIN inbox : inbox[x] \in Asked
  BY <1>1
<1>3. \A x, y \in DOMAIN inbox : inbox[x] = inbox[y] => x = y
  BY DEF Single
<1>4. t \in ToSet(inbox) /\ t \in Txn /\ op[t] \in Op
  BY <1>1, <1>2 DEF ToSet, Asked
<1> HIDE DEF t
<1>5. \A x, y \in DOMAIN inbox' : inbox'[x] = inbox'[y] => x = y
  BY <1>2, <1>3
<1>6. \A u \in ToSet(inbox') : u \in ToSet(inbox) /\ u # t
  <2> SUFFICES ASSUME NEW u \in ToSet(inbox') PROVE u \in ToSet(inbox) /\ u # t
    OBVIOUS
  <2>1. PICK x \in DOMAIN inbox' : u = inbox'[x]
    BY DEF ToSet
  <2>2. u = inbox[x + 1] /\ x + 1 \in DOMAIN inbox /\ x + 1 # 1
    BY <1>2, <2>1
  <2> QED
    BY <1>2, <1>3, <2>2 DEF ToSet
<1>7. \A g \in Known : g.txn # t
  BY <1>4 DEF Single
<1> QED
  BY <1>4, <1>5, <1>6, <1>7 DEF t

\* Single, after a frame has been taken or not.
LEMMA TakenSingle ==
  ASSUME Sound, Single, inbox # <<>>, inbox' = Tail(inbox), op' = op, Full(segments') = Full(segments),
         \/ own'.frames = own.frames
         \/ \E f \in FrameLine : f.txn = Head(inbox) /\ own'.frames = Append(own.frames, f)
  PROVE  Single'
<1> DEFINE t == Head(inbox)
<1>1. /\ t \in Txn /\ t \in ToSet(inbox) /\ op[t] \in Op
      /\ \A x, y \in DOMAIN inbox' : inbox'[x] = inbox'[y] => x = y
      /\ \A u \in ToSet(inbox') : u \in ToSet(inbox) /\ u # t
      /\ \A g \in Known : g.txn # t
  BY TakenOnce
<1>2. Known' = ToSet(Full(segments)) \cup ToSet(own'.frames)
  BY DEF Known, Full
<1>3. /\ \A f, g \in Known : f.txn = g.txn => f = g
      /\ \A x, y \in DOMAIN own.frames : own.frames[x].txn = own.frames[y].txn => x = y
      /\ \A u \in Txn : u \in ToSet(inbox) \/ op[u] = NoOp => \A f \in Known : f.txn # u
  BY DEF Single
<1>4. own.frames \in Seq(FrameLine) /\ ToSet(own.frames) \subseteq Known
  BY DEF Sound, Owned, Owner, Known
<1> HIDE DEF t
<1>5. CASE own'.frames = own.frames
  <2>1. Known' = Known
    BY <1>2, <1>5 DEF Known
  <2>2. \A u \in Txn : u \in ToSet(inbox') \/ op'[u] = NoOp => \A f \in Known' : f.txn # u
    BY <1>1, <1>3, <2>1
  <2> QED
    BY <1>1, <1>3, <1>5, <2>1, <2>2 DEF Single
<1>6. ASSUME NEW f \in FrameLine, f.txn = t, own'.frames = Append(own.frames, f)
      PROVE  Single'
  <2>1. Known' = Known \cup {f}
    BY <1>2, <1>4, <1>6, Elements DEF Known
  <2>2. \A g, h \in Known' : g.txn = h.txn => g = h
    BY <1>1, <1>3, <1>6, <2>1
  <2>3. \A u \in Txn : u \in ToSet(inbox') \/ op'[u] = NoOp => \A g \in Known' : g.txn # u
    <3>1. op[t] # NoOp
      BY <1>1, OpIs
    <3> QED
      BY <1>1, <1>3, <1>6, <2>1, <3>1
  <2>4. \A x, y \in DOMAIN own'.frames : own'.frames[x].txn = own'.frames[y].txn => x = y
    <3>1. /\ Len(own.frames) \in Nat /\ DOMAIN own.frames = 1 .. Len(own.frames)
          /\ DOMAIN own'.frames = 1 .. Len(own.frames) + 1 /\ own'.frames[Len(own.frames) + 1] = f
          /\ \A x \in DOMAIN own.frames : own'.frames[x] = own.frames[x]
      BY <1>4, <1>6
    <3>2. \A x \in DOMAIN own.frames : own.frames[x].txn # t
      <4>1. \A x \in DOMAIN own.frames : own.frames[x] \in ToSet(own.frames)
        BY DEF ToSet
      <4> QED
        BY <1>1, <1>4, <4>1
    <3>3. \A x \in DOMAIN own'.frames : x \in DOMAIN own.frames \/ x = Len(own.frames) + 1
      BY <3>1
    <3> QED
      BY <1>3, <1>6, <3>1, <3>2, <3>3
  <2> QED
    BY <1>1, <2>2, <2>3, <2>4 DEF Single
<1> QED
  BY <1>5, <1>6 DEF t

\* submit of the owner.
LEMMA TakeComplete ==
  ASSUME Complete, Take
  PROVE  Kept4'
<1> USE DEF Complete, Kept4
<1> DEFINE t == Head(inbox)
           f == FrameOf(t)
           v == Made(log)
           w == ApplyAll(v, own.frames)
<1>1. /\ inbox # <<>> /\ inbox' = Tail(inbox) /\ segments' = segments /\ manifest' = manifest
      /\ op' = op /\ log' = log /\ own.state \in {"available", "unavailable_write"}
  BY DEF Take
<1>2. Full(segments') = Full(segments)
  BY <1>1
<1>3. /\ t \in Txn /\ op[t] \in Op
  BY <1>1, TakenOnce
<1>4. f \in FrameLine /\ f.txn = t
  BY TakeMemory DEF Sound
<1>5. own \in Owner /\ own.frames \in Seq(FrameLine) /\ own.hot \in Records /\ own.cold \in Records /\ View \in Records
  BY RecordsAre, LogsAlone DEF Sound, Owned
<1>6. log \in Seq(FrameLine) /\ v \in Records /\ w \in Records
  BY <1>5, LogsAlone, MadeIs, ApplySteps
<1>7. Serves(own, log, manifest) /\ Grouped
  BY <1>1 DEF Serving
<1>8. Tiers(own.hot, own.cold) = v /\ Chain(own.hot, v, own.frames) /\ View = ApplyAll(own.hot, own.frames)
  BY <1>7 DEF Serves, Grouped
<1>9. Tiers(View, own.cold) = w
  BY <1>5, <1>6, <1>8, ChainRuns
<1>10. Recoverable'
  BY <1>1, <1>2, RecoverableKept DEF Recoverable
<1>11. \A u \in Txn : u \in own.noops \/ outcome[u] = "duplicate" => op[u] \in Op
  BY DEF Sound, Answered, Asked
<1> HIDE DEF v, w, f, t
<1>12. CASE own' = own /\ \A u \in Txn : outcome'[u] = "duplicate" => outcome[u] = "duplicate" \/ (u = t /\ Satisfied(v, op[t]))
  <2>1. Single'
    BY <1>1, <1>2, <1>12, TakenSingle
  <2>2. Serves(own', log', manifest') /\ View' = View
    BY <1>1, <1>7, <1>12 DEF View, Current
  <2>3. Grouped'
    BY <1>1, <1>7, <1>12, <2>2 DEF Grouped
  <2>4. Truthful'
    BY <1>1, <1>12 DEF Truthful, v
  <2> QED
    BY <1>10, <1>12, <2>1, <2>2, <2>3, <2>4 DEF Serving, Readable
<1>13. CASE own.state = "available" /\ Redundant(op[t]) /\ own' = [own EXCEPT !.noops = @ \cup {t}] /\ outcome' = outcome
  <2>1. /\ own'.state = own.state /\ own'.hot = own.hot /\ own'.cold = own.cold
        /\ own'.receipts = own.receipts /\ own'.ckpt = own.ckpt
        /\ own'.frames = own.frames /\ own'.overlay = own.overlay /\ own'.noops = own.noops \cup {t}
    BY Zenon, <1>3, <1>5, <1>13, TakenMemory
  <2>2. Single'
    BY <1>1, <1>2, <2>1, TakenSingle
  <2>3. Serves(own', log', manifest') /\ View' = View
    BY <1>1, <1>7, <2>1, ServesKept DEF View, Current
  <2>4. Satisfied(w, op[t])
    <3>1. op[t].id \in Id
      BY <1>3, OpIs
    <3>2. View[op[t].id] = Current(op[t].id)
      BY <3>1 DEF View
    <3> QED
      BY <1>3, <1>5, <1>9, <1>13, <3>2, RedundantSatisfied
  <2>5. \A u \in own.noops : Satisfied(w, op[u])
    BY <1>7 DEF Grouped, w, v
  <2>6. Grouped'
    BY <1>1, <1>7, <2>1, <2>3, <2>4, <2>5 DEF Grouped, w, v
  <2>7. Truthful'
    BY <1>1, <1>13 DEF Truthful
  <2> QED
    BY <1>10, <1>13, <2>1, <2>2, <2>3, <2>6, <2>7 DEF Serving, Readable
<1>14. CASE /\ own.state = "available" /\ ~Redundant(op[t]) /\ Writable(op[t])
            /\ own' = [own EXCEPT !.frames = Append(@, f), !.overlay = OverlayAfter(f), !.next = @ + 1]
            /\ outcome' = outcome
  <2>1. /\ own'.state = own.state /\ own'.hot = own.hot /\ own'.cold = own.cold
        /\ own'.receipts = own.receipts /\ own'.ckpt = own.ckpt /\ own'.noops = own.noops
        /\ own'.frames = Append(own.frames, f) /\ own'.overlay = OverlayAfter(f)
    BY Zenon, <1>4, <1>5, <1>14, TakenMemory
  <2>2. Single'
    BY <1>1, <1>2, <1>4, <2>1, TakenSingle DEF t
  <2>3. Serves(own', log', manifest')
    BY <1>1, <1>7, <2>1, ServesKept
  <2>4. Fits(View, w, f)
    BY <1>3, <1>4, <1>5, <1>9, <1>14, FrameFits DEF f
  <2>5. View' = ApplyFrame(View, f)
    BY <1>4, <1>5, <1>6, <2>1, <2>4, ShownAfter
  <2>6. ApplyAll(own.hot, own'.frames) = ApplyFrame(View, f) /\ ApplyAll(v, own'.frames) = ApplyFrame(w, f)
    BY <1>4, <1>5, <1>6, <1>8, <2>1, ApplySteps DEF w
  <2>7. Chain(own.hot, v, own'.frames)
    BY <1>4, <1>5, <1>8, <2>1, <2>4, ChainMore DEF w
  <2>8. Keeps(w, ApplyFrame(w, f))
    BY <1>4, <1>5, <1>6, <1>9, <2>4, FitStep
  <2>9. \A u \in own.noops : Satisfied(ApplyFrame(w, f), op[u])
    <3> SUFFICES ASSUME NEW u \in own.noops PROVE Satisfied(ApplyFrame(w, f), op[u])
      OBVIOUS
    <3>1. u \in Txn /\ op[u] \in Op
      BY <1>5, <1>11 DEF Owner
    <3>2. Satisfied(w, op[u])
      BY <1>7 DEF Grouped, w, v
    <3> QED
      BY <2>8, <3>1, <3>2, SatisfiedKept
  <2>10. own'.frames # <<>>
    <3>1. Append(own.frames, f) # <<>>
      BY <1>4, <1>5
    <3> QED
      BY <2>1, <3>1
  <2>11. Grouped'
    <3>1. Made(log') = v
      BY <1>1 DEF v
    <3>2. Chain(own'.hot, Made(log'), own'.frames)
      BY <2>1, <2>7, <3>1
    <3>3. View' = ApplyAll(own'.hot, own'.frames)
      BY <2>1, <2>5, <2>6
    <3>4. \A u \in own'.noops : Satisfied(ApplyAll(Made(log'), own'.frames), op'[u])
      BY <1>1, <2>1, <2>6, <2>9, <3>1
    <3> QED
      BY <2>10, <3>2, <3>3, <3>4 DEF Grouped
  <2>12. Truthful'
    BY <1>1, <1>14 DEF Truthful
  <2> QED
    BY <1>10, <1>14, <2>1, <2>2, <2>3, <2>11, <2>12 DEF Serving, Readable
<1>15. ASSUME own.overlay[op[t].id] = None, Redundant(op[t]) PROVE Satisfied(v, op[t])
  <2>1. own.hot[op[t].id] = Current(op[t].id)
    BY <1>15 DEF Current
  <2> QED
    BY <1>3, <1>5, <1>8, <1>15, <2>1, RedundantSatisfied
<1> QED
  BY <1>12, <1>13, <1>14, <1>15, TakeAnswers DEF t, f

-----------------------------------------------------------------------------
(* Checkpoints.                                                            *)

\* Demotion moves records from one tier to the other.
LEMMA DemotedTiers ==
  ASSUME own.hot \in Records, own.cold \in Records, NEW d \in SUBSET Id, \A i \in d : own.hot[i] # None
  PROVE  /\ DemotedHot(d) \in Records /\ DemotedCold(d) \in Records
         /\ Tiers(DemotedHot(d), DemotedCold(d)) = Tiers(own.hot, own.cold)
         /\ Covers(DemotedHot(d), DemotedHot(d))
         /\ \A h : Covers(own.hot, h) => Covers(DemotedHot(d), h)
<1>1. DemotedHot(d) \in Records /\ DemotedCold(d) \in Records
  BY NoneIs DEF DemotedHot, DemotedCold, Records
<1>2. \A i \in Id : /\ DemotedHot(d)[i] = IF i \in d THEN None ELSE own.hot[i]
                    /\ DemotedCold(d)[i] = IF i \in d THEN own.hot[i] ELSE own.cold[i]
  BY DEF DemotedHot, DemotedCold
<1>3. Tiers(DemotedHot(d), DemotedCold(d)) = Tiers(own.hot, own.cold)
  BY <1>2 DEF Tiers
<1> QED
  BY <1>1, <1>2, <1>3 DEF Covers

\* When no group is open all that is found is durable.
LEMMA AllDurable ==
  ASSUME Sound, Ordered, Writing, Single, own.state = "available", own.frames = <<>>
  PROVE  Full(segments) = log /\ \A f \in ToSet(log) : ~Before(Here, f.pos)
<1>1. segments \in Segments /\ FilesInOrder(segments) /\ log = LogOf(Fsynced(segments))
  BY DEF Sound, Stored, Ordered
<1>2. ~own.retry
  BY DEF Sound, Owned
<1>3. \A g \in FoundGroups(segments) : g \in HeldGroups(segments)
  BY <1>2 DEF Writing
<1>4. Full(segments) = log
  BY <1>1, <1>3, OneMore
<1>5. ToSet(log) = FramesIn(HeldGroups(segments))
  BY LogsAlone
<1> QED
  BY <1>4, <1>5 DEF Writing

\* A checkpoint of what the owner serves.
LEMMA CheckpointComplete ==
  ASSUME Complete, Checkpoint
  PROVE  Kept4'
<1> USE DEF Complete, Kept4
<1>1. /\ segments' = segments /\ inbox' = inbox /\ op' = op /\ outcome' = outcome /\ log' = log
  BY DEF Checkpoint
<1>2. /\ own.state = "available" /\ own.frames = <<>>
      /\ own'.state = own.state /\ own'.frames = own.frames /\ own'.noops = own.noops
      /\ own'.overlay = own.overlay
  BY CheckpointMemory DEF Sound
<1>3. Full(segments') = Full(segments)
  BY <1>1
<1>4. Single'
  <2>1. Known' = Known
    BY <1>1, <1>2 DEF Known, Full
  <2> QED
    BY <1>1, <1>2, <2>1, SingleKept
<1>5. Truthful'
  BY <1>1, TruthfulKept, KeepsOrder
<1>6. Serves(own, log, manifest) /\ Grouped
  BY <1>2 DEF Serving
<1>7. own.overlay = NoRecords /\ \A t \in own.noops : Satisfied(Made(log), op[t])
  BY <1>2, <1>6, NoFrames DEF Grouped
<1>8. own' \in Owner
  BY CheckpointOwned DEF Sound, Owned
<1>9. Grouped'
  <2>1. own'.hot \in Records
    BY <1>8 DEF Owner
  <2>2. View' = own'.hot
    BY <1>2, <1>7, <2>1 DEF View, Current, NoRecords, Records
  <2> QED
    BY <1>1, <1>2, <1>7, <2>2, NoFrames DEF Grouped
<1>10. CASE /\ own'.hot = own.hot /\ own'.cold = own.cold /\ own'.ckpt = own.ckpt
            /\ DOMAIN own'.receipts = DOMAIN own.receipts /\ manifest' = manifest
  <2>1. Serves(own', log', manifest')
    BY <1>1, <1>6, <1>10 DEF Serves
  <2>2. Recoverable'
    BY <1>1, <1>3, <1>10, RecoverableKept DEF Recoverable
  <2> QED
    BY <1>2, <1>4, <1>5, <1>9, <2>1, <2>2 DEF Serving, Readable
<1>11. ASSUME NEW d \in SUBSET Id, \A i \in d : own.hot[i] # None,
              own'.hot = DemotedHot(d), own'.cold = DemotedCold(d), own'.ckpt = Here,
              DOMAIN own'.receipts \subseteq DOMAIN own.receipts,
              manifest' = manifest \/ manifest' = ManifestOf(own')
       PROVE  Kept4'
  <2>1. own.hot \in Records /\ own.cold \in Records /\ Here \in Nat \X Nat
    BY RecordsAre, Positions
  <2>2. /\ DemotedHot(d) \in Records /\ DemotedCold(d) \in Records
        /\ Tiers(DemotedHot(d), DemotedCold(d)) = Made(log)
        /\ Covers(DemotedHot(d), DemotedHot(d))
        /\ \A h : Covers(own.hot, h) => Covers(DemotedHot(d), h)
    BY <1>6, <1>11, <2>1, DemotedTiers DEF Serves
  <2>3. Full(segments) = log /\ \A f \in ToSet(log) : ~Before(Here, f.pos)
    BY <1>2, AllDurable
  <2>4. DOMAIN own'.receipts \subseteq Txns(log)
    BY <1>6, <1>11 DEF Serves
  <2>5. CASE manifest' = manifest
    <3>1. Serves(own', log', manifest')
      BY <1>1, <1>6, <1>11, <2>2, <2>3, <2>4, <2>5 DEF Serves
    <3>2. Recoverable'
      BY <1>1, <1>3, <2>5, RecoverableKept DEF Recoverable
    <3> QED
      BY <1>2, <1>4, <1>5, <1>9, <3>1, <3>2 DEF Serving, Readable
  <2>6. CASE manifest' = ManifestOf(own')
    <3>1. /\ manifest'.hot = DemotedHot(d) /\ manifest'.cold = DemotedCold(d) /\ manifest'.ckpt = Here
          /\ DOMAIN manifest'.receipts \subseteq DOMAIN own'.receipts
      BY <1>11, <2>6 DEF ManifestOf
    <3>2. log \in Seq(FrameLine) /\ Apart(<<>>, log)
      BY LogsAlone
    <3> DEFINE q == Rep(DemotedHot(d), Here, log)
    <3>3. ~q.fault /\ q.hot = DemotedHot(d)
      BY <2>1, <2>2, <2>3, <3>2, AllSkipped
    <3> HIDE DEF q
    <3>4. Rep(manifest'.hot, manifest'.ckpt, log) = q
      BY <3>1 DEF q
    <3>5. Replays(manifest', log)
      BY <2>2, <3>1, <3>3, <3>4 DEF Replays
    <3>6. Serves(own', log', manifest')
      BY <1>1, <1>11, <2>2, <2>3, <2>4, <3>3, <3>4 DEF Serves
    <3>7. Recoverable'
      <4>1. Recoverable' <=> /\ Replays(manifest', log') /\ Replays(manifest', Full(segments'))
                             /\ Keeps(Made(log'), Made(Full(segments')))
                             /\ DOMAIN manifest'.receipts \subseteq Txns(log')
        BY DEF Recoverable, Full
      <4> QED
        BY <1>1, <1>3, <2>3, <2>4, <3>1, <3>5, <4>1, KeepsOrder
    <3> QED
      BY <1>2, <1>4, <1>5, <1>9, <3>6, <3>7 DEF Serving, Readable
  <2> QED
    BY <1>11, <2>5, <2>6
<1> QED
  BY <1>10, <1>11, CheckpointMemory DEF Sound

-----------------------------------------------------------------------------
(* Recovery, and what the invariant says.                                  *)

\* What recover finds is what the frames that are found come to.
LEMMA FoundReplayed ==
  ASSUME Complete
  PROVE  /\ Replayed \in Replaying
         /\ Same(Replayed, Rep(manifest.hot, manifest.ckpt, Full(segments)))
         /\ ~Rep(manifest.hot, manifest.ckpt, Full(segments)).fault
<1> USE DEF Complete, Kept4
<1> DEFINE T == Items(segments)
<1>1. /\ segments \in Segments /\ InOrder(AllGroups(segments)) /\ TornLasts(segments)
      /\ Alone(FramesIn(FoundGroups(segments)))
  BY LogsAlone
<1>2. manifest.hot \in Records /\ manifest.ckpt \in Nat \X Nat
  BY RecordsAre
<1>3. T \in Texts
  BY <1>1, ItemsTexts
<1>4. InOrder(GroupsOf(T)) /\ Alone(FramesIn(GroupsIn(GroupsOf(T))))
  BY <1>1 DEF AllGroups, FoundGroups
<1>5. \A k \in DOMAIN T : TornLast(T[k])
  BY <1>1 DEF Items, TornLasts
<1>6. ~Rep(manifest.hot, manifest.ckpt, LogOf(T)).fault
  BY DEF Recoverable, Replays, Full
<1> HIDE DEF T
<1>7. Same(Replay(manifest.hot, manifest.ckpt, T), Rep(manifest.hot, manifest.ckpt, LogOf(T)))
  BY <1>2, <1>3, <1>4, <1>5, <1>6, ReplayOnce
<1>8. Replay(manifest.hot, manifest.ckpt, T) \in Replaying
  BY <1>2, <1>3, ReplayType
<1> QED
  BY <1>6, <1>7, <1>8 DEF Replayed, Full, T

\* open of a new owner.
LEMMA OpenComplete ==
  ASSUME Complete, ~MayTearCopy, Open
  PROVE  Kept4'
<1> USE DEF Complete, Kept4
<1> DEFINE R == Replayed
           l == Full(segments)
           r == Rep(manifest.hot, manifest.ckpt, l)
<1>1. inbox' = inbox /\ op' = op /\ own.state = "down"
  BY DEF Open
<1>2. /\ R \in Replaying /\ ~R.fault /\ R.hot = r.hot /\ R.fresh = r.fresh /\ ~r.fault
  BY FoundReplayed DEF Same
<1>3. /\ log \in Seq(FrameLine) /\ l \in Seq(FrameLine) /\ ToSet(log) \subseteq ToSet(l)
  BY LogsAlone
<1>4. manifest.hot \in Records /\ manifest.cold \in Records /\ manifest.ckpt \in Nat \X Nat /\ manifest \in Manifest
  BY RecordsAre DEF Sound, Stored
<1>5. r.fresh = Following(manifest.ckpt, ToSet(l)) /\ r.hot \in Records
  BY SMTT(30), <1>2, <1>3, <1>4, SeenIs DEF Replaying
<1>6. Replays(manifest, l)
  BY DEF Recoverable
<1>7. CASE /\ manifest' = manifest /\ own' = own /\ outcome' = outcome
           /\ Full(segments') = Full(segments) /\ log' \in {log, Full(segments)}
  <2>1. Known' = Known
    BY <1>7 DEF Known, Full
  <2>2. Single'
    BY <1>1, <1>7, <2>1, SingleKept
  <2>3. Recoverable'
    BY <1>6, <1>7, FoundLog, RecoverableKept
  <2>4. Truthful'
    BY <1>1, <1>7, FoundLog, TruthfulKept
  <2> QED
    BY <1>1, <1>7, <2>2, <2>3, <2>4 DEF Serving, Readable
<1>8. CASE Recover(R) /\ log' = Full(segments') /\ log' = Full(segments)
  <2>1. own' = Recovered(R) /\ manifest' = [manifest EXCEPT !.epoch = @ + 1]
    BY <1>8 DEF Recover
  <2>2. \A t \in Txn : outcome'[t] = "duplicate" => outcome[t] = "duplicate"
    <3> SUFFICES ASSUME NEW t \in Txn, outcome'[t] = "duplicate" PROVE outcome[t] = "duplicate"
      OBVIOUS
    <3>1. outcome'[t] = IF t \in Unresolved /\ Resolve(Recovered(R), t) # "unresolved"
                        THEN Resolve(Recovered(R), t) ELSE outcome[t]
      BY <1>8 DEF Recover
    <3>2. Resolve(Recovered(R), t) # "duplicate"
      BY DEF Resolve
    <3> QED
      BY <3>1, <3>2
  <2>3. /\ own' \in Owner /\ own'.frames = <<>> /\ own'.noops = {} /\ own'.state = "available"
        /\ own'.hot = R.hot /\ own'.cold = manifest.cold /\ own'.ckpt = manifest.ckpt
        /\ own'.overlay = NoRecords
        /\ DOMAIN own'.receipts = DOMAIN manifest.receipts \cup R.fresh
    BY <1>2, <2>1, RecoveredIs, RecoveredMemory DEF Sound
  <2>4. /\ manifest'.hot = manifest.hot /\ manifest'.cold = manifest.cold /\ manifest'.ckpt = manifest.ckpt
        /\ manifest'.receipts = manifest.receipts
    BY <1>4, <2>1 DEF Manifest
  <2>5. /\ Replays(manifest, log') /\ Keeps(Made(log), Made(log')) /\ Txns(log) \subseteq Txns(log')
    BY <1>8, FoundLog
  <2>6. Known' \subseteq Known
    <3>1. Known' = ToSet(Full(segments')) \cup ToSet(own'.frames)
      BY DEF Known, Full
    <3> QED
      BY <1>8, <2>3, <3>1, NoFrames DEF Known
  <2>7. Single'
    BY <1>1, <2>3, <2>6, SingleKept
  <2>8. Recoverable'
    BY <1>8, <2>4, <2>5, RecoverableKept, KeepsOrder
  <2>9. Truthful'
    BY <1>1, <2>2, <2>5, TruthfulKept
  <2>10. Serves(own', log', manifest')
    <3>1. log' = l
      BY <1>8
    <3>2. Tiers(own'.hot, own'.cold) = Made(l)
      BY <1>2, <1>6, <2>3 DEF Replays
    <3>3. Rep(manifest'.hot, manifest'.ckpt, l) = r
      BY <2>4
    <3>4. Covers(own'.hot, r.hot)
      BY <1>2, <2>3 DEF Covers
    <3>5. R.fresh = {f.txn : f \in {x \in ToSet(l) : Before(manifest.ckpt, x.pos)}}
      BY <1>2, <1>5 DEF Following
    <3>6. DOMAIN own'.receipts \subseteq Txns(l)
      <4>1. R.fresh \subseteq Txns(l)
        BY <3>5 DEF Txns
      <4>2. DOMAIN manifest.receipts \subseteq Txns(l)
        BY <2>5, <3>1 DEF Recoverable
      <4> QED
        BY <2>3, <4>1, <4>2
    <3>7. \A f \in ToSet(l) : Before(own'.ckpt, f.pos) => f.txn \in DOMAIN own'.receipts
      BY <2>3, <3>5
    <3> HIDE DEF l, r
    <3> QED
      BY <3>1, <3>2, <3>3, <3>4, <3>6, <3>7 DEF Serves
  <2>11. Grouped'
    BY <2>3, NotGrouped
  <2> QED
    BY <2>3, <2>7, <2>8, <2>9, <2>10, <2>11 DEF Serving, Readable
<1>9. CASE RecoverUnreadable(R) /\ R.fault
  BY <1>2, <1>9
<1> QED
  BY <1>7, <1>8, <1>9, OpenOrder

\* Every step keeps the invariant.
LEMMA CompleteStep ==
  ASSUME Complete, ~MayTearCopy, [Next]_vars
  PROVE  Complete'
<1>1. Sound /\ WholeEnds /\ Ordered /\ Writing
  BY DEF Complete
<1>2. Sound' /\ WholeEnds' /\ Ordered' /\ Writing'
  BY <1>1, SoundStep, EndsStep, OrderStep
<1> SUFFICES Kept4'
  BY <1>2 DEF Complete
<1>3. CASE \E t \in Txn, o \in Op : Submit(t, o)
  BY <1>3, SubmitComplete
<1>4. CASE Take
  BY <1>4, TakeComplete
<1>5. CASE Flush
  BY <1>5, FlushComplete
<1>6. CASE Retry
  BY <1>6, RetryComplete
<1>7. CASE Checkpoint
  BY <1>7, CheckpointComplete
<1>8. CASE Exit
  BY <1>8, ExitComplete
<1>9. CASE PowerLoss
  BY <1>9, PowerLossComplete
<1>10. CASE Open
  BY <1>10, OpenComplete
<1>11. CASE UNCHANGED vars
  <2>1. /\ segments' = segments /\ manifest' = manifest /\ own' = own /\ inbox' = inbox /\ op' = op
        /\ outcome' = outcome /\ log' = log
    BY <1>11 DEF vars
  <2>2. Single /\ Recoverable /\ Serving /\ Truthful /\ Readable
    BY DEF Complete, Kept4
  <2>3. Known' = Known /\ Full(segments') = Full(segments) /\ View' = View
    BY <2>1 DEF Known, Full, View, Current
  <2>4. Single'
    BY <2>1, <2>2, <2>3, SingleKept
  <2>5. Recoverable'
    BY <2>1, <2>2, <2>3, RecoverableKept DEF Recoverable
  <2>6. Grouped => Grouped'
    BY <2>1, <2>3 DEF Grouped
  <2>7. Serving'
    BY <2>1, <2>2, <2>6 DEF Serving
  <2>8. Truthful'
    BY <2>1, <2>2 DEF Truthful
  <2> QED
    BY <2>1, <2>2, <2>4, <2>5, <2>7, <2>8 DEF Kept4, Readable
<1> QED
  BY <1>3, <1>4, <1>5, <1>6, <1>7, <1>8, <1>9, <1>10, <1>11 DEF Next

\* A fresh store.
LEMMA CompleteInit ==
  ASSUME Init
  PROVE  Complete
<1>1. Sound /\ WholeEnds /\ Ordered /\ Writing /\ log = <<>> /\ Full(segments) = <<>>
  BY OrderInit
<1>2. /\ own = Down /\ inbox = <<>> /\ manifest.hot = NoRecords /\ manifest.cold = NoRecords
      /\ manifest.ckpt = <<0, 0>> /\ manifest.receipts = NoReceipts
      /\ \A t \in Txn : outcome[t] = "none"
  BY DEF Init
<1>3. own.frames = <<>> /\ own.state = "down"
  BY <1>2, DownIs
<1>4. Known = {}
  BY <1>1, <1>3, NoFrames DEF Known
<1>5. Single
  BY <1>2, <1>3, <1>4, NoFrames DEF Single
<1>6. Made(<<>>) = NoRecords
  BY NoFrames DEF Made
<1>7. Replays(manifest, <<>>)
  <2>1. NoRecords \in Records /\ <<0, 0>> \in Nat \X Nat
    BY NoneIs
  <2>2. Apart(<<>>, <<>>) /\ \A f \in ToSet(<<>>) : ~Before(<<0, 0>>, f.pos)
    BY NoFrames DEF Apart
  <2>3. ~Rep(NoRecords, <<0, 0>>, <<>>).fault /\ Rep(NoRecords, <<0, 0>>, <<>>).hot = NoRecords
    BY Zenon, <2>1, <2>2, NoFrames, AllSkipped
  <2>4. Tiers(NoRecords, NoRecords) = NoRecords
    BY DEF Tiers, NoRecords
  <2> QED
    BY <1>2, <1>6, <2>3, <2>4 DEF Replays
<1>8. Recoverable
  <2>1. DOMAIN manifest.receipts = {}
    BY <1>2 DEF NoReceipts
  <2> QED
    BY <1>1, <1>7, <2>1, KeepsOrder DEF Recoverable
<1>9. Serving /\ Truthful /\ Readable
  BY <1>2, <1>3 DEF Serving, Truthful, Readable
<1> QED
  BY <1>1, <1>5, <1>8, <1>9 DEF Complete, Kept4

\* The invariant says that recovery is complete,
LEMMA CompleteRecovers ==
  ASSUME Complete
  PROVE  RecoveryComplete
<1> USE DEF Complete, Kept4
<1> DEFINE T == Fsynced(segments)
           r == Rep(manifest.hot, manifest.ckpt, log)
<1>1. /\ segments \in Segments /\ InOrder(AllGroups(segments)) /\ TornLasts(segments)
      /\ Alone(FramesIn(FoundGroups(segments)))
  BY LogsAlone
<1>2. manifest.hot \in Records /\ manifest.ckpt \in Nat \X Nat /\ log = LogOf(T)
  BY RecordsAre DEF Ordered
<1>3. T \in Texts /\ DOMAIN T = DOMAIN segments /\ \A k \in DOMAIN segments : T[k] = SubSeq(segments[k].items, 1, segments[k].safe)
  BY <1>1, FsyncedIs
<1>4. InOrder(GroupsOf(T))
  BY <1>1, LogsAre DEF DurableGroups
<1>5. Alone(FramesIn(GroupsIn(GroupsOf(T))))
  <2>1. FramesIn(HeldGroups(segments)) \subseteq FramesIn(FoundGroups(segments))
    BY Positions
  <2> QED
    BY <1>1, <2>1 DEF Alone, HeldGroups, DurableGroups
<1>6. ASSUME NEW k \in DOMAIN T PROVE TornLast(T[k])
  <2> DEFINE s == segments[k].items
             n == segments[k].safe
  <2>1. s \in Seq(Line) /\ n \in 0 .. Len(s) /\ T[k] = SubSeq(s, 1, n) /\ TornLast(s)
    BY <1>1, <1>3, SegmentsAre DEF TornLasts
  <2> HIDE DEF s, n
  <2>2. Cut(SubSeq(s, 1, n), s) /\ SubSeq(s, 1, n) \in Seq(Line)
    <3>1. /\ SubSeq(s, 1, n) \in Seq(Line) /\ Len(SubSeq(s, 1, n)) = n
          /\ \A j \in 1 .. n : SubSeq(s, 1, n)[j] = s[j]
      BY <2>1, Prefix
    <3>2. Len(s) \in Nat /\ n <= Len(s)
      BY <2>1
    <3> QED
      BY Zenon, <2>1, <3>1, <3>2, BeginningCut
  <2> QED
    BY Zenon, <2>1, <2>2, GroupsCut
<1>7. ~r.fault /\ Tiers(r.hot, manifest.cold) = Made(log)
  BY DEF Recoverable, Replays
<1> HIDE DEF T
<1>8. Same(Replay(manifest.hot, manifest.ckpt, T), r)
  BY <1>2, <1>3, <1>4, <1>5, <1>6, <1>7, ReplayOnce
<1>9. Truth = Made(log)
  BY DEF Truth, Made
<1> QED
  BY <1>7, <1>8, <1>9 DEF RecoveryComplete, Same, T

\* that the owner serves what is committed,
LEMMA CompleteServes ==
  ASSUME Complete
  PROVE  ServesCommitted
<1>1. Truth = Made(log)
  BY DEF Truth, Made
<1> QED
  BY <1>1 DEF Complete, Kept4, Serving, Serves, ServesCommitted

\* and that its answers are true.
LEMMA CompleteAnswers ==
  ASSUME Complete
  PROVE  AnswersTruthful
<1> USE DEF Complete, Kept4
<1>1. Truth = Made(log) /\ Committed = Txns(log)
  BY DEF Truth, Made, Committed
<1> SUFFICES ASSUME NEW t \in Txn
             PROVE  /\ outcome[t] = "duplicate" =>
                         CASE op[t].kind = "begin" -> Truth[op[t].id] # None
                           [] op[t].kind = "state" -> Truth[op[t].id].st = op[t].what
                           [] OTHER -> Truth[op[t].id] # None
                    /\ own.state # "down" =>
                         /\ Resolve(own, t) = "committed" => t \in Committed
                         /\ Resolve(own, t) = "not_applied" =>
                              \A f \in ToSet(log) : f.txn = t => ~Before(own.ckpt, f.pos)
  BY Zenon DEF AnswersTruthful
<1>2. ASSUME outcome[t] = "duplicate"
      PROVE  CASE op[t].kind = "begin" -> Truth[op[t].id] # None
               [] op[t].kind = "state" -> Truth[op[t].id].st = op[t].what
               [] OTHER -> Truth[op[t].id] # None
  <2>1. Satisfied(Truth, op[t])
    BY <1>1, <1>2 DEF Truthful
  <2>2. op[t].kind = "state" \/ op[t].kind # "state"
    OBVIOUS
  <2> QED
    BY <2>1, <2>2 DEF Satisfied
<1>3. ASSUME own.state # "down"
      PROVE  /\ Resolve(own, t) = "committed" => t \in Committed
             /\ Resolve(own, t) = "not_applied" => \A f \in ToSet(log) : f.txn = t => ~Before(own.ckpt, f.pos)
  <2>1. own.state \in {"available", "unavailable_write"}
    BY <1>3 DEF Sound, Owned, Owner, Readable
  <2>2. Serves(own, log, manifest)
    BY <2>1 DEF Serving
  <2>3. Resolve(own, t) = "committed" => t \in DOMAIN own.receipts
    BY DEF Resolve
  <2>4. Resolve(own, t) = "not_applied" => t \notin DOMAIN own.receipts
    BY DEF Resolve
  <2> QED
    BY <1>1, <2>2, <2>3, <2>4 DEF Serves
<1> QED
  BY <1>2, <1>3

\* Complete holds always.
LEMMA AlwaysComplete == ~MayTearCopy => (Spec => []Complete)
<1> SUFFICES ASSUME ~MayTearCopy PROVE Spec => []Complete
  OBVIOUS
<1>1. Init => Complete
  BY CompleteInit
<1>2. Complete /\ [Next]_vars => Complete'
  BY CompleteStep
<1> QED
  BY <1>1, <1>2, PTL DEF Spec

\* After a loss of power at any moment the MANIFEST and the segments give the records of the whole
\* log: no checkpoint, demotion, reheat or copy of a group by a recovery drops, repeats or reorders
\* an effect, if a recovery is never cut within that copy (recover and replaySegments, and checkpoint,
\* in ledger-owner.js).
THEOREM RecoveryLosesNothing == ~MayTearCopy => (Spec => []RecoveryComplete)
<1> SUFFICES ASSUME ~MayTearCopy PROVE Spec => []RecoveryComplete
  OBVIOUS
<1>1. Spec => []Complete
  BY AlwaysComplete
<1> QED
  BY <1>1, CompleteRecovers, PTL

\* The owner serves what the committed frames make, and nothing of a group that is not known to be
\* durable (flushGroup in ledger-owner.js merges the overlay only after the fsync).
THEOREM ServesWhatIsCommitted == ~MayTearCopy => (Spec => []ServesCommitted)
<1> SUFFICES ASSUME ~MayTearCopy PROVE Spec => []ServesCommitted
  OBVIOUS
<1>1. Spec => []Complete
  BY AlwaysComplete
<1> QED
  BY <1>1, CompleteServes, PTL

\* An operation that was answered without a frame is so in the log for ever, what resolve calls
\* committed is in the log, and what it calls not applied is not, or lies behind the checkpoint
\* (noopVerdict and resolve in ledger-owner.js).
THEOREM AnswersAreTrue == ~MayTearCopy => (Spec => []AnswersTruthful)
<1> SUFFICES ASSUME ~MayTearCopy PROVE Spec => []AnswersTruthful
  OBVIOUS
<1>1. Spec => []Complete
  BY AlwaysComplete
<1> QED
  BY <1>1, CompleteAnswers, PTL

-----------------------------------------------------------------------------
(* Who has been told what.                                                 *)

\* The answers of those who do not yet know.
Expected == {"pending", "indeterminate", "lost"}

\* What has been posted and not been answered is pending.
Posted ==
  /\ \A t \in ToSet(inbox) \cup own.noops : outcome[t] = "pending"
  /\ \A f \in ToSet(own.frames) : outcome[f.txn] = "pending"
  /\ \A t \in own.noops : t \notin ToSet(inbox) /\ \A f \in Known : f.txn # t

\* Nobody was told of a frame that is found and not durable; a pending transaction that is found is in
\* the open group, and one that was given up comes after the checkpoint: recovery has its receipt.
Doubtful ==
  \A f \in ToSet(Full(segments)) :
    /\ f \in ToSet(log) \/ outcome[f.txn] \in Expected
    /\ outcome[f.txn] = "pending" => f \in ToSet(own.frames) /\ own.state = "available"
    /\ outcome[f.txn] = "indeterminate" => own.state # "available" /\ Before(manifest.ckpt, f.pos)

\* What is called not applied although it is in the log has no receipt, and will not get one again.
Denied ==
  \A f \in ToSet(log) : outcome[f.txn] = "not_applied" =>
    /\ f.txn \notin DOMAIN manifest.receipts /\ f.txn \notin DOMAIN own.receipts
    /\ ~Before(manifest.ckpt, f.pos)

Answering == Posted /\ Doubtful /\ Denied

\* An answer is of what is in the log after the step, except where a receipt has been trimmed.
Tells(t) ==
  \/ outcome'[t] = outcome[t]
  \/ outcome[t] = "none" /\ outcome'[t] = "pending"
  \/ outcome[t] = "pending" /\ outcome'[t] = "acked" /\ t \in Txns(log')
  \/ outcome[t] = "pending" /\ outcome'[t] \in {"duplicate", "nacked"} /\ t \notin Txns(log')
  \/ outcome[t] = "pending" /\ outcome'[t] \in {"indeterminate", "lost"}
  \/ outcome[t] = "indeterminate" /\ outcome'[t] = "lost"
  \/ outcome[t] = "indeterminate" /\ outcome'[t] = "committed" /\ t \in Txns(log')
  \/ outcome[t] = "indeterminate" /\ outcome'[t] = "not_applied" /\ t \notin Txns(log')
  \/ outcome[t] = "committed" /\ outcome'[t] = "not_applied"

\* What is known of the frames and of the transactions.
LEMMA AnsweringIs ==
  ASSUME Complete
  PROVE  /\ ToSet(log) \subseteq ToSet(Full(segments)) /\ ToSet(Full(segments)) \subseteq Known
         /\ ToSet(own.frames) \subseteq Known
         /\ \A f \in Known : f.txn \in Txn
         /\ \A f, g \in Known : f.txn = g.txn => f = g
         /\ ToSet(inbox) \subseteq Asked /\ own.noops \subseteq Asked /\ Asked \subseteq Txn
         /\ \A t \in Txn : op[t] = NoOp \/ t \in ToSet(inbox) => \A f \in Known : f.txn # t
         /\ outcome \in [Txn -> Told]
         /\ own.frames \in Seq(FrameLine) /\ log \in Seq(FrameLine)
         /\ own.frames = <<>> => ToSet(own.frames) = {}
<1> USE DEF Complete, Kept4
<1>1. /\ ToSet(log) \subseteq ToSet(Full(segments)) /\ Full(segments) \in Seq(FrameLine)
      /\ own.frames \in Seq(FrameLine) /\ log \in Seq(FrameLine)
  BY LogsAlone
<1>2. /\ ToSet(Full(segments)) \subseteq FrameLine /\ ToSet(own.frames) \subseteq FrameLine
  BY <1>1 DEF ToSet
<1>3. \A f \in FrameLine : f.txn \in Txn
  BY DEF FrameLine
<1>4. /\ inbox \in Seq(Asked) /\ own.noops \subseteq Asked /\ Asked \subseteq Txn /\ outcome \in [Txn -> Told]
  BY DEF Sound, Answered, Asked
<1>5. ToSet(inbox) \subseteq Asked
  BY <1>4 DEF ToSet
<1>6. /\ \A f, g \in Known : f.txn = g.txn => f = g
      /\ \A t \in Txn : t \in ToSet(inbox) \/ op[t] = NoOp => \A f \in Known : f.txn # t
  BY DEF Single
<1> QED
  BY <1>1, <1>2, <1>3, <1>4, <1>5, <1>6, NoFrames DEF Known

\* submit of the client.
LEMMA SubmitTells ==
  ASSUME Complete, Answering, NEW t \in Txn, NEW o \in Op, Submit(t, o)
  PROVE  Answering' /\ \A u \in Txn : Tells(u)
<1>1. /\ op[t] = NoOp /\ own.state = "available"
      /\ outcome' = [outcome EXCEPT ![t] = "pending"] /\ inbox' = Append(inbox, t)
      /\ segments' = segments /\ manifest' = manifest /\ own' = own /\ log' = log
  BY DEF Submit
<1>2. /\ \A f \in Known : f.txn # t /\ f.txn \in Txn
      /\ own.noops \subseteq Txn /\ t \notin own.noops
      /\ outcome \in [Txn -> Told] /\ outcome[t] = "none"
      /\ ToSet(Full(segments)) \subseteq Known /\ ToSet(own.frames) \subseteq Known /\ ToSet(log) \subseteq Known
      /\ ToSet(inbox) \subseteq Txn
  <2>1. t \notin Asked /\ outcome[t] = "none"
    BY <1>1 DEF Asked, Complete, Sound, Answered
  <2> QED
    BY <1>1, <2>1, AnsweringIs
<1>3. outcome'[t] = "pending" /\ \A u \in Txn : u # t => outcome'[u] = outcome[u]
  BY <1>1, <1>2
<1>4. \A f \in Known : outcome'[f.txn] = outcome[f.txn]
  BY <1>2, <1>3
<1>5. Known' = Known
  BY <1>1 DEF Known, Full
<1>6. ToSet(inbox') = ToSet(inbox) \cup {t}
  <2>1. inbox \in Seq(Txn)
    BY DEF Complete, Sound, Answered, Asked
  <2> QED
    BY <1>1, <2>1, Elements
<1>7. Posted'
  <2>1. \A u \in ToSet(inbox') \cup own'.noops : outcome'[u] = "pending"
    BY <1>1, <1>2, <1>3, <1>6 DEF Answering, Posted
  <2>2. \A f \in ToSet(own'.frames) : outcome'[f.txn] = "pending"
    BY <1>1, <1>2, <1>4 DEF Answering, Posted
  <2>3. \A u \in own'.noops : u \notin ToSet(inbox') /\ \A f \in Known' : f.txn # u
    BY <1>1, <1>2, <1>5, <1>6 DEF Answering, Posted
  <2> QED
    BY <2>1, <2>2, <2>3 DEF Posted
<1>8. Doubtful'
  <2>1. Full(segments') = Full(segments)
    BY <1>1
  <2>2. \A f \in ToSet(Full(segments)) : outcome'[f.txn] = outcome[f.txn]
    BY <1>2, <1>4
  <2> QED
    BY <1>1, <2>1, <2>2 DEF Answering, Doubtful
<1>9. Denied'
  <2>1. \A f \in ToSet(log) : outcome'[f.txn] = outcome[f.txn]
    BY <1>2, <1>4
  <2> QED
    BY <1>1, <2>1 DEF Answering, Denied
<1> QED
  BY <1>2, <1>3, <1>7, <1>8, <1>9 DEF Answering, Tells

\* No owner has posted or received anything.
LEMMA DownAnswers ==
  ASSUME own' = Down, inbox' = <<>>
  PROVE  /\ Posted' /\ own'.state = "down" /\ DOMAIN own'.receipts = {}
<1>1. Down.frames = <<>> /\ Down.noops = {} /\ Down.state = "down" /\ Down.receipts = NoReceipts
  BY DownIs
<1>2. DOMAIN NoReceipts = {}
  BY DEF NoReceipts
<1>3. ToSet(own'.frames) = {} /\ ToSet(inbox') = {} /\ own'.noops = {}
  BY <1>1, NoFrames
<1> QED
  BY <1>1, <1>2, <1>3 DEF Posted

\* The end of an owner.
LEMMA ExitTells ==
  ASSUME Complete, Answering, Exit
  PROVE  Answering' /\ \A u \in Txn : Tells(u)
<1>1. /\ own' = Down /\ inbox' = <<>> /\ segments' = segments /\ manifest' = manifest /\ log' = log
      /\ \A u \in Txn : outcome'[u] = IF outcome[u] = "pending" THEN "indeterminate" ELSE outcome[u]
  BY DEF Exit, Tell, Pending
<1>2. \A f \in ToSet(Full(segments)) : f.txn \in Txn
  BY AnsweringIs
<1>3. Posted' /\ own'.state = "down" /\ DOMAIN own'.receipts = {}
  BY <1>1, DownAnswers
<1>4. Full(segments') = Full(segments)
  BY <1>1
<1>5. Doubtful'
  <2> SUFFICES ASSUME NEW f \in ToSet(Full(segments))
               PROVE  /\ f \in ToSet(log) \/ outcome'[f.txn] \in Expected
                      /\ outcome'[f.txn] # "pending"
                      /\ outcome'[f.txn] = "indeterminate" => Before(manifest.ckpt, f.pos)
    BY <1>1, <1>3, <1>4 DEF Doubtful
  <2>1. /\ f \in ToSet(log) \/ outcome[f.txn] \in Expected
        /\ outcome[f.txn] = "pending" => f \in ToSet(own.frames) /\ own.state = "available"
        /\ outcome[f.txn] = "indeterminate" => Before(manifest.ckpt, f.pos)
    BY DEF Answering, Doubtful
  <2>2. outcome'[f.txn] = IF outcome[f.txn] = "pending" THEN "indeterminate" ELSE outcome[f.txn]
    BY <1>1, <1>2
  <2>3. f \in ToSet(own.frames) /\ own.state = "available" => Before(manifest.ckpt, f.pos)
    BY OwnGroup DEF Complete
  <2> QED
    BY <2>1, <2>2, <2>3 DEF Expected
<1>6. Denied'
  <2>1. \A f \in ToSet(log) : outcome'[f.txn] = "not_applied" => outcome[f.txn] = "not_applied"
    BY <1>1, <1>2, AnsweringIs
  <2> QED
    BY <1>1, <1>3, <2>1 DEF Answering, Denied
<1> QED
  BY <1>1, <1>3, <1>5, <1>6 DEF Answering, Tells

\* A loss of power, after which nobody waits.
LEMMA PowerLossTells ==
  ASSUME Complete, Answering, PowerLoss
  PROVE  Answering' /\ \A u \in Txn : Tells(u)
<1>1. /\ own' = Down /\ inbox' = <<>> /\ manifest' = manifest
      /\ \A u \in Txn : outcome'[u] = IF outcome[u] \in {"pending", "indeterminate"} THEN "lost" ELSE outcome[u]
  BY DEF PowerLoss, Tell
<1>2. log' = Full(segments') /\ log' \in {log, Full(segments)}
  BY PowerLossOrder DEF Complete
<1>3. ToSet(log') \subseteq ToSet(Full(segments)) /\ \A f \in ToSet(log') : f.txn \in Txn
  BY <1>2, AnsweringIs
<1>4. Posted' /\ own'.state = "down" /\ DOMAIN own'.receipts = {}
  BY <1>1, DownAnswers
<1>5. Doubtful'
  <2>1. \A f \in ToSet(log') : outcome'[f.txn] # "pending" /\ outcome'[f.txn] # "indeterminate"
    BY <1>1, <1>3
  <2> QED
    BY <1>2, <2>1 DEF Doubtful, Full
<1>6. Denied'
  <2> SUFFICES ASSUME NEW f \in ToSet(log'), outcome'[f.txn] = "not_applied"
               PROVE  f.txn \notin DOMAIN manifest.receipts /\ ~Before(manifest.ckpt, f.pos)
    BY <1>1, <1>4 DEF Denied
  <2>1. outcome[f.txn] = "not_applied"
    BY <1>1, <1>3
  <2>2. f \in ToSet(log)
    BY <1>3, <2>1 DEF Answering, Doubtful, Expected
  <2> QED
    BY <2>1, <2>2 DEF Answering, Denied
<1> QED
  BY <1>1, <1>4, <1>5, <1>6 DEF Answering, Tells

\* submit of the owner: what it answers at once is not in the log.
LEMMA TakeTells ==
  ASSUME Complete, Answering, Take
  PROVE  Answering' /\ \A u \in Txn : Tells(u)
<1> DEFINE t == Head(inbox)
           f == FrameOf(t)
<1>1. /\ inbox # <<>> /\ inbox' = Tail(inbox) /\ segments' = segments /\ manifest' = manifest /\ log' = log
      /\ own.state \in {"available", "unavailable_write"}
  BY DEF Take
<1>2. /\ t \in Txn /\ t \in ToSet(inbox)
      /\ \A u \in ToSet(inbox') : u \in ToSet(inbox) /\ u # t
      /\ \A g \in Known : g.txn # t
  BY <1>1, TakenOnce DEF Complete, Kept4
<1>3. f \in FrameLine /\ f.txn = t /\ own \in Owner
  BY TakeMemory DEF Complete, Sound, Owned
<1>4. /\ Full(segments') = Full(segments) /\ ToSet(log) \subseteq ToSet(Full(segments))
      /\ ToSet(Full(segments)) \subseteq Known /\ ToSet(own.frames) \subseteq Known
      /\ \A g \in Known : g.txn \in Txn
      /\ own.frames \in Seq(FrameLine) /\ own.noops \subseteq Txn
  BY <1>1, AnsweringIs
<1>5. outcome[t] = "pending" /\ t \notin own.noops
  BY <1>2 DEF Answering, Posted
<1> HIDE DEF f
<1>6. \/ /\ own' = own
         /\ \/ outcome' = outcome
            \/ \E w \in {"nacked", "duplicate"} : \A u \in Txn : outcome'[u] = IF u = t THEN w ELSE outcome[u]
      \/ own' = [own EXCEPT !.noops = @ \cup {t}] /\ outcome' = outcome
      \/ own' = [own EXCEPT !.frames = Append(@, f), !.overlay = OverlayAfter(f), !.next = @ + 1] /\ outcome' = outcome
  BY Zenon DEF Take, Tell, f
<1>7. t \notin Txns(log)
  BY <1>2, <1>4 DEF Txns
<1> HIDE DEF t
<1>8. CASE own' = own /\ \E w \in {"nacked", "duplicate"} : \A u \in Txn : outcome'[u] = IF u = t THEN w ELSE outcome[u]
  <2>1. PICK w \in {"nacked", "duplicate"} : \A u \in Txn : outcome'[u] = IF u = t THEN w ELSE outcome[u]
    BY <1>8
  <2>2. \A g \in Known : outcome'[g.txn] = outcome[g.txn]
    BY <1>2, <1>4, <2>1
  <2>3. Known' = Known
    BY <1>1, <1>8 DEF Known, Full
  <2>4. Posted'
    <3>1. \A u \in ToSet(inbox') \cup own'.noops : outcome'[u] = "pending"
      <4> SUFFICES ASSUME NEW u \in ToSet(inbox') \cup own.noops PROVE outcome'[u] = "pending"
        BY <1>8
      <4>1. u # t /\ outcome[u] = "pending"
        BY <1>2, <1>5 DEF Answering, Posted
      <4>2. u \in Txn
        BY <1>2, <1>4, AnsweringIs
      <4> QED
        BY <2>1, <4>1, <4>2
    <3>2. \A g \in ToSet(own'.frames) : outcome'[g.txn] = "pending"
      BY <1>4, <1>8, <2>2 DEF Answering, Posted
    <3>3. \A u \in own'.noops : u \notin ToSet(inbox') /\ \A g \in Known' : g.txn # u
      BY <1>2, <1>8, <2>3 DEF Answering, Posted
    <3> QED
      BY <3>1, <3>2, <3>3 DEF Posted
  <2>5. Doubtful'
    <3>1. \A g \in ToSet(Full(segments)) : outcome'[g.txn] = outcome[g.txn]
      BY <1>4, <2>2
    <3> QED
      BY <1>1, <1>4, <1>8, <3>1 DEF Answering, Doubtful
  <2>6. Denied'
    <3>1. \A g \in ToSet(log) : outcome'[g.txn] = outcome[g.txn]
      BY <1>4, <2>2
    <3> QED
      BY <1>1, <1>8, <3>1 DEF Answering, Denied
  <2>7. \A u \in Txn : Tells(u)
    BY <1>1, <1>5, <1>7, <2>1 DEF Tells
  <2> QED
    BY <2>4, <2>5, <2>6, <2>7 DEF Answering
<1>9. ASSUME outcome' = outcome, own'.state = own.state, own'.receipts = own.receipts,
             \/ own'.frames = own.frames /\ own'.noops \in {own.noops, own.noops \cup {t}}
             \/ own'.frames = Append(own.frames, f) /\ own'.noops = own.noops
      PROVE  Answering' /\ \A u \in Txn : Tells(u)
  <2>1. ToSet(own'.frames) = ToSet(own.frames) \/ (ToSet(own'.frames) = ToSet(own.frames) \cup {f} /\ own'.noops = own.noops)
    <3>1. ToSet(Append(own.frames, f)) = ToSet(own.frames) \cup {f}
      BY <1>3, <1>4, Elements
    <3>2. CASE own'.frames = own.frames
      BY <3>2
    <3>3. CASE own'.frames = Append(own.frames, f) /\ own'.noops = own.noops
      BY <3>1, <3>3
    <3> QED
      BY <1>9, <3>2, <3>3
  <2>2. Known' = ToSet(Full(segments)) \cup ToSet(own'.frames)
    BY <1>4 DEF Known, Full
  <2>3. Posted'
    <3>1. \A u \in ToSet(inbox') \cup own'.noops : outcome'[u] = "pending"
      BY <1>2, <1>5, <1>9 DEF Answering, Posted
    <3>2. \A g \in ToSet(own'.frames) : outcome'[g.txn] = "pending"
      BY <1>3, <1>5, <1>9, <2>1 DEF Answering, Posted
    <3>3. \A u \in own'.noops : u \notin ToSet(inbox')
      BY <1>2, <1>9 DEF Answering, Posted
    <3>4. ASSUME NEW u \in own'.noops, NEW g \in Known' PROVE g.txn # u
      <4>1. \A v \in own.noops : v # t /\ \A h \in Known : h.txn # v
        BY <1>5 DEF Answering, Posted
      <4>2. g \in Known \/ (g = f /\ own'.noops = own.noops)
        BY <2>1, <2>2 DEF Known
      <4>3. u \in own.noops \/ u = t
        BY <1>9
      <4>4. CASE g \in Known
        BY <1>2, <4>1, <4>3, <4>4
      <4>5. CASE g = f /\ own'.noops = own.noops
        BY <1>3, <4>1, <4>5
      <4> QED
        BY <4>2, <4>4, <4>5
    <3> QED
      BY <3>1, <3>2, <3>3, <3>4 DEF Posted
  <2>4. Doubtful'
    <3>1. ToSet(own.frames) \subseteq ToSet(own'.frames)
      BY <2>1
    <3> QED
      BY <1>1, <1>4, <1>9, <3>1 DEF Answering, Doubtful
  <2>5. Denied'
    BY <1>1, <1>9 DEF Answering, Denied
  <2> QED
    BY <1>9, <2>3, <2>4, <2>5 DEF Answering, Tells
<1>10. CASE own' = own /\ outcome' = outcome
  BY <1>9, <1>10
<1>11. CASE own' = [own EXCEPT !.noops = @ \cup {t}] /\ outcome' = outcome
  BY Zenon, <1>2, <1>3, <1>9, <1>11, TakenMemory
<1>12. CASE own' = [own EXCEPT !.frames = Append(@, f), !.overlay = OverlayAfter(f), !.next = @ + 1] /\ outcome' = outcome
  BY Zenon, <1>3, <1>9, <1>12, TakenMemory
<1> QED
  BY <1>6, <1>8, <1>10, <1>11, <1>12

\* A merge answers for the open group, and for what depended on it.
LEMMA MergeTells ==
  ASSUME Complete, Answering, own.state = "available", manifest' = manifest, inbox' = inbox,
         NEW segs, Merge(segs), log' = log \o own.frames, Full(segments') = log \o own.frames
  PROVE  Answering' /\ \A u \in Txn : Tells(u)
<1>1. /\ own'.frames = <<>> /\ own'.noops = {}
      /\ DOMAIN own'.receipts = DOMAIN own.receipts \cup Txns(own.frames)
      /\ \A u \in Txn : outcome'[u] = IF u \in Txns(own.frames) THEN "acked"
                                      ELSE IF u \in own.noops THEN "duplicate" ELSE outcome[u]
  <2>1. own'.frames = <<>> /\ own'.noops = {}
    <3>1. own \in Owner
      BY DEF Complete, Sound, Owned
    <3> QED
      BY <3>1 DEF Merge, NoGroup, Owner
  <2>2. DOMAIN own'.receipts = DOMAIN own.receipts \cup Txns(own.frames)
    BY Zenon, MergeMemory DEF Complete, Sound
  <2> QED
    BY Zenon, <2>1, <2>2 DEF Merge
<1>2. /\ ToSet(log) \subseteq ToSet(Full(segments)) /\ ToSet(Full(segments)) \subseteq Known
      /\ ToSet(own.frames) \subseteq Known /\ \A g \in Known : g.txn \in Txn
      /\ own.frames \in Seq(FrameLine) /\ log \in Seq(FrameLine) /\ own.noops \subseteq Txn
      /\ ToSet(inbox) \subseteq Txn
      /\ \A t \in Txn : t \in ToSet(inbox) => \A g \in Known : g.txn # t
  BY AnsweringIs
<1>3. /\ ToSet(log') = ToSet(log) \cup ToSet(own.frames) /\ Txns(log') = Txns(log) \cup Txns(own.frames)
      /\ ToSet(Full(segments')) = ToSet(log')
  BY <1>2, TxnsJoined
<1>4. \A u : u \in Txns(own.frames) <=> \E g \in ToSet(own.frames) : g.txn = u
  BY DEF Txns
<1>5. \A u : u \in Txns(log) <=> \E g \in ToSet(log) : g.txn = u
  BY DEF Txns
<1>6. \A u \in Txns(own.frames) : outcome[u] = "pending"
  BY <1>4 DEF Answering, Posted
<1>7. ASSUME NEW u \in own.noops PROVE outcome[u] = "pending" /\ u \notin Txns(log')
  <2>1. outcome[u] = "pending" /\ \A f \in Known : f.txn # u
    BY Zenon DEF Answering, Posted
  <2>2. ToSet(log) \subseteq Known
    BY <1>2
  <2>3. u \notin Txns(log)
    BY Zenon, <1>5, <2>1, <2>2
  <2>4. u \notin Txns(own.frames)
    BY Zenon, <1>2, <1>4, <2>1
  <2> QED
    BY <1>3, <2>1, <2>3, <2>4
<1>8. Posted'
  <2>1. \A u \in ToSet(inbox) : outcome[u] = "pending" /\ u \notin Txns(own.frames) /\ u \notin own.noops
    BY <1>2, <1>4 DEF Answering, Posted
  <2>2. \A u \in ToSet(inbox) : outcome'[u] = "pending"
    BY Zenon, <1>1, <1>2, <2>1
  <2> QED
    BY <1>1, <2>2, NoFrames DEF Posted
<1>9. ASSUME NEW g \in ToSet(log')
      PROVE  outcome'[g.txn] # "pending" /\ outcome'[g.txn] # "indeterminate"
  <2>1. g.txn \in Txn
    BY <1>2, <1>3
  <2>2. CASE g \in ToSet(own.frames)
    BY <1>1, <1>4, <2>1, <2>2
  <2>3. CASE g \in ToSet(log)
    <3>1. /\ outcome[g.txn] = "pending" => g \in ToSet(own.frames)
          /\ outcome[g.txn] # "indeterminate"
      BY <1>2, <2>3 DEF Answering, Doubtful
    <3> QED
      BY <1>1, <2>1, <2>2, <3>1
  <2> QED
    BY <1>3, <2>2, <2>3
<1>10. Doubtful'
  <2>1. ToSet(Full(segments)') = ToSet(log')
    BY <1>3 DEF Full
  <2> QED
    BY <1>9, <2>1 DEF Doubtful
<1>11. Denied'
  <2> SUFFICES ASSUME NEW g \in ToSet(log'), outcome'[g.txn] = "not_applied"
               PROVE  /\ g.txn \notin DOMAIN manifest.receipts /\ g.txn \notin DOMAIN own'.receipts
                      /\ ~Before(manifest.ckpt, g.pos)
    BY DEF Denied
  <2>1. outcome[g.txn] = "not_applied" /\ g.txn \notin Txns(own.frames)
    BY Zenon, <1>1, <1>2, <1>3
  <2>2. g \in ToSet(log)
    BY <1>3, <1>4, <2>1
  <2> QED
    BY <1>1, <2>1, <2>2 DEF Answering, Denied
<1>12. \A u \in Txn : Tells(u)
  BY <1>1, <1>3, <1>6, <1>7 DEF Tells
<1> QED
  BY <1>8, <1>10, <1>11, <1>12 DEF Answering

\* A write that fails says nothing, or leaves those that wait in doubt.
LEMMA FailedTells ==
  ASSUME Complete, Answering, own.state = "available", manifest' = manifest, inbox' = inbox, log' = log,
         Full(segments') \in {log, log \o own.frames}, own' \in Owner, own'.receipts = own.receipts,
         \/ /\ own'.frames = own.frames /\ own'.noops = own.noops /\ own'.state = own.state
            /\ outcome' = outcome
         \/ /\ own'.frames = <<>> /\ own'.noops = {} /\ own'.state = "unavailable_write"
            /\ Tell(Txns(own.frames) \cup own.noops, "indeterminate")
  PROVE  Answering' /\ \A u \in Txn : Tells(u)
<1>1. /\ ToSet(log) \subseteq ToSet(Full(segments)) /\ ToSet(Full(segments)) \subseteq Known
      /\ ToSet(own.frames) \subseteq Known /\ \A g \in Known : g.txn \in Txn
      /\ own.frames \in Seq(FrameLine) /\ log \in Seq(FrameLine) /\ own.noops \subseteq Txn
      /\ ToSet(inbox) \subseteq Txn
      /\ \A t \in Txn : t \in ToSet(inbox) => \A g \in Known : g.txn # t
  BY AnsweringIs
<1>2. ToSet(log \o own.frames) = ToSet(log) \cup ToSet(own.frames)
  BY <1>1, TxnsJoined
<1>3. ToSet(log) \subseteq ToSet(Full(segments')) /\ ToSet(Full(segments')) \subseteq ToSet(log) \cup ToSet(own.frames)
  BY Zenon, <1>2
<1>4. \A u : u \in Txns(own.frames) <=> \E g \in ToSet(own.frames) : g.txn = u
  BY DEF Txns
<1>5. \A g \in ToSet(own.frames) : outcome[g.txn] = "pending" /\ Before(manifest.ckpt, g.pos)
  BY OwnGroup DEF Answering, Posted, Complete
<1>6. \A g \in ToSet(log) :
        /\ outcome[g.txn] = "pending" => g \in ToSet(own.frames)
        /\ outcome[g.txn] # "indeterminate"
  BY <1>1 DEF Answering, Doubtful
<1>7. Full(segments)' = Full(segments')
  BY DEF Full
<1>8. CASE /\ own'.frames = own.frames /\ own'.noops = own.noops /\ own'.state = own.state
           /\ outcome' = outcome
  <2>1. Known' \subseteq Known
    BY <1>1, <1>3, <1>7, <1>8 DEF Known
  <2>2. Posted'
    BY <1>8, <2>1 DEF Answering, Posted
  <2>3. Doubtful'
    BY <1>3, <1>5, <1>6, <1>7, <1>8 DEF Doubtful, Expected
  <2>4. Denied'
    BY <1>8 DEF Answering, Denied
  <2> QED
    BY <1>8, <2>2, <2>3, <2>4 DEF Answering, Tells
<1>9. CASE /\ own'.frames = <<>> /\ own'.noops = {} /\ own'.state = "unavailable_write"
           /\ Tell(Txns(own.frames) \cup own.noops, "indeterminate")
  <2>1. \A u \in Txn : outcome'[u] = IF u \in Txns(own.frames) \cup own.noops THEN "indeterminate" ELSE outcome[u]
    BY <1>9 DEF Tell
  <2>2. \A u \in Txns(own.frames) \cup own.noops : outcome[u] = "pending"
    BY <1>4 DEF Answering, Posted
  <2>3. Posted'
    <3>1. \A u \in ToSet(inbox) : outcome[u] = "pending" /\ u \notin Txns(own.frames) \cup own.noops
      BY <1>1, <1>4 DEF Answering, Posted
    <3>2. \A u \in ToSet(inbox) : outcome'[u] = "pending"
      BY <1>1, <2>1, <3>1
    <3> QED
      BY <1>9, <3>2, NoFrames DEF Posted
  <2>4. Doubtful'
    <3> SUFFICES ASSUME NEW g \in ToSet(Full(segments'))
                 PROVE  /\ g \in ToSet(log) \/ outcome'[g.txn] \in Expected
                        /\ outcome'[g.txn] # "pending"
                        /\ outcome'[g.txn] = "indeterminate" => Before(manifest.ckpt, g.pos)
      BY <1>7, <1>9 DEF Doubtful
    <3>1. g.txn \in Txn
      BY <1>1, <1>3
    <3>2. CASE g \in ToSet(own.frames)
      BY <1>4, <1>5, <2>1, <3>1, <3>2 DEF Expected
    <3>3. CASE g \in ToSet(log) /\ g \notin ToSet(own.frames)
      <4>1. outcome[g.txn] # "pending" /\ outcome[g.txn] # "indeterminate"
        BY <1>6, <3>3
      <4> QED
        BY <2>1, <2>2, <3>1, <3>3, <4>1
    <3> QED
      BY <1>3, <3>2, <3>3
  <2>5. Denied'
    <3>1. \A g \in ToSet(log) : outcome'[g.txn] = "not_applied" => outcome[g.txn] = "not_applied"
      BY <1>1, <2>1
    <3> QED
      BY <3>1 DEF Answering, Denied
  <2>6. \A u \in Txn : Tells(u)
    BY <2>1, <2>2 DEF Tells
  <2> QED
    BY <2>3, <2>4, <2>5, <2>6 DEF Answering
<1> QED
  BY <1>8, <1>9

\* The two attempts of a flush.
LEMMA WriteTells ==
  ASSUME Complete, Answering, Flush \/ Retry
  PROVE  Answering' /\ \A u \in Txn : Tells(u)
<1>1. own \in Owner /\ inbox' = inbox
  BY DEF Complete, Sound, Owned, Flush, Retry
<1>2. CASE Flush
  <2>1. /\ own.state = "available" /\ manifest' = manifest
        /\ \/ /\ Merge(segments) /\ log' = log \o own.frames /\ Full(segments') = log \o own.frames
           \/ /\ own' = [own EXCEPT !.retry = TRUE] /\ outcome' = outcome
              /\ log' = log /\ Full(segments') \in {log, log \o own.frames}
    BY <1>2, FlushOrder DEF Complete
  <2>2. CASE Merge(segments) /\ log' = log \o own.frames /\ Full(segments') = log \o own.frames
    BY <1>1, <2>1, <2>2, MergeTells
  <2>3. CASE /\ own' = [own EXCEPT !.retry = TRUE] /\ outcome' = outcome
             /\ log' = log /\ Full(segments') \in {log, log \o own.frames}
    <3>1. own' \in Owner
      BY Zenon, <1>1, <2>3 DEF Owner
    <3>2. own'.state = own.state /\ own'.frames = own.frames /\ own'.receipts = own.receipts /\ own'.noops = own.noops
      BY <1>1, <2>3, RetryMemory
    <3> QED
      BY <1>1, <2>1, <2>3, <3>1, <3>2, FailedTells
  <2> QED
    BY <2>1, <2>2, <2>3
<1>3. CASE Retry
  <2> DEFINE segs == NewSegment(segments, own.epoch)
  <2>1. /\ own.state = "available" /\ manifest' = manifest
        /\ \/ /\ Merge(segs) /\ log' = log \o own.frames /\ Full(segments') = log \o own.frames
           \/ /\ own' = NoGroup([own EXCEPT !.state = "unavailable_write"])
              /\ Tell(Txns(own.frames) \cup own.noops, "indeterminate")
              /\ log' = log /\ Full(segments') \in {log, log \o own.frames}
    BY Zenon, <1>3, RetryOrder DEF Complete
  <2> HIDE DEF segs
  <2>2. CASE Merge(segs) /\ log' = log \o own.frames /\ Full(segments') = log \o own.frames
    BY <1>1, <2>1, <2>2, MergeTells
  <2>3. CASE /\ own' = NoGroup([own EXCEPT !.state = "unavailable_write"])
             /\ Tell(Txns(own.frames) \cup own.noops, "indeterminate")
             /\ log' = log /\ Full(segments') \in {log, log \o own.frames}
    <3>1. /\ own' \in Owner /\ own'.state = "unavailable_write" /\ own'.frames = <<>> /\ own'.noops = {}
          /\ own'.receipts = own.receipts
      BY <1>1, <2>3, GivenUpMemory
    <3> QED
      BY Zenon, <1>1, <2>1, <2>3, <3>1, FailedTells
  <2> QED
    BY <2>1, <2>2, <2>3
<1> QED
  BY <1>2, <1>3

\* A checkpoint, which may trim receipts and answers nobody.
LEMMA CheckpointTells ==
  ASSUME Complete, Answering, Checkpoint
  PROVE  Answering' /\ \A u \in Txn : Tells(u)
<1>1. segments' = segments /\ inbox' = inbox /\ outcome' = outcome /\ log' = log
  BY DEF Checkpoint
<1>2. /\ own.state = "available" /\ own.frames = <<>>
      /\ own'.state = own.state /\ own'.frames = own.frames /\ own'.noops = own.noops
      /\ DOMAIN own'.receipts \subseteq DOMAIN own.receipts
      /\ \/ manifest' = manifest
         \/ own'.ckpt = Here /\ manifest' = ManifestOf(own')
  BY CheckpointMemory DEF Complete, Sound
<1>3. Full(segments') = Full(segments) /\ Known' = Known
  BY <1>1, <1>2 DEF Known, Full
<1>4. Full(segments) = log /\ \A f \in ToSet(log) : ~Before(Here, f.pos)
  BY <1>2, AllDurable DEF Complete, Kept4
<1>5. Posted'
  BY <1>1, <1>2, <1>3 DEF Answering, Posted
<1>6. Doubtful'
  <2>1. \A f \in ToSet(log) : outcome[f.txn] # "indeterminate"
    BY <1>2, <1>4 DEF Answering, Doubtful
  <2> QED
    BY <1>1, <1>2, <1>3, <1>4, <2>1 DEF Answering, Doubtful
<1>7. Denied'
  <2>1. \/ manifest' = manifest
        \/ manifest'.ckpt = Here /\ DOMAIN manifest'.receipts \subseteq DOMAIN own'.receipts
    BY <1>2 DEF ManifestOf
  <2> QED
    BY <1>1, <1>2, <1>4, <2>1 DEF Answering, Denied
<1> QED
  BY <1>1, <1>5, <1>6, <1>7 DEF Answering, Tells

\* The receipts of a recovered owner: those of the MANIFEST, and of all that follows its checkpoint.
LEMMA RecoveredReceipts ==
  ASSUME Complete, Recover(Replayed)
  PROVE  /\ own'.state = "available" /\ own'.frames = <<>> /\ own'.noops = {}
         /\ manifest'.ckpt = manifest.ckpt /\ manifest'.receipts = manifest.receipts
         /\ DOMAIN own'.receipts =
              DOMAIN manifest.receipts \cup Following(manifest.ckpt, ToSet(Full(segments)))
<1> DEFINE l == Full(segments)
           r == Rep(manifest.hot, manifest.ckpt, l)
<1>1. Replayed \in Replaying /\ Replayed.fresh = r.fresh /\ ~r.fault
  BY FoundReplayed DEF Same
<1>2. l \in Seq(FrameLine)
  BY LogsAlone DEF Complete, Kept4
<1>3. manifest.hot \in Records /\ manifest.ckpt \in Nat \X Nat /\ manifest \in Manifest
  BY RecordsAre DEF Complete, Sound, Stored
<1>4. r.fresh = Following(manifest.ckpt, ToSet(l))
  BY <1>1, <1>2, <1>3, SeenIs
<1>5. own' = Recovered(Replayed) /\ manifest' = [manifest EXCEPT !.epoch = @ + 1]
  BY DEF Recover
<1>6. /\ own'.frames = <<>> /\ own'.noops = {} /\ own'.state = "available"
      /\ DOMAIN own'.receipts = DOMAIN manifest.receipts \cup Replayed.fresh
  BY <1>1, <1>5, RecoveredIs, RecoveredMemory DEF Complete, Sound
<1>7. manifest'.ckpt = manifest.ckpt /\ manifest'.receipts = manifest.receipts
  BY <1>3, <1>5 DEF Manifest
<1> HIDE DEF r
<1> QED
  BY <1>1, <1>4, <1>6, <1>7

\* A recovery answers those that are in doubt, from what it has found.
LEMMA RecoverTells ==
  ASSUME Complete, Answering, own.state = "down", Recover(Replayed), inbox' = inbox,
         log' = Full(segments'), log' = Full(segments)
  PROVE  Answering' /\ \A u \in Txn : Tells(u)
<1> DEFINE E == ToSet(Full(segments))
           D == DOMAIN own'.receipts
           Says(u) == Resolve(Recovered(Replayed), u)
<1>1. /\ own'.state = "available" /\ own'.frames = <<>> /\ own'.noops = {}
      /\ manifest'.ckpt = manifest.ckpt /\ manifest'.receipts = manifest.receipts
      /\ D = DOMAIN manifest.receipts \cup Following(manifest.ckpt, E)
  BY RecoveredReceipts
<1>2. /\ \A u \in Txn : outcome'[u] = IF u \in Unresolved /\ Says(u) # "unresolved" THEN Says(u) ELSE outcome[u]
      /\ own' = Recovered(Replayed)
  BY DEF Recover
<1>3. \A u : /\ Says(u) \in {"committed", "not_applied", "unresolved"}
             /\ Says(u) = "committed" <=> u \in D
  BY <1>2 DEF Resolve
<1>4. \A u \in Txn : u \in Unresolved <=> outcome[u] \in {"indeterminate", "committed", "not_applied"}
  BY DEF Unresolved
<1> HIDE DEF Says, D
<1>5. /\ ToSet(log) \subseteq E /\ E \subseteq Known /\ \A g \in Known : g.txn \in Txn
      /\ \A g, h \in Known : g.txn = h.txn => g = h
      /\ ToSet(inbox) \subseteq Txn
  BY AnsweringIs
<1>6. ToSet(log') = E /\ \A u : u \in Txns(log') <=> \E g \in E : g.txn = u
  BY DEF Txns
<1>7. \A u : u \in Following(manifest.ckpt, E) <=> \E g \in E : g.txn = u /\ Before(manifest.ckpt, g.pos)
  BY DEF Following
<1> HIDE DEF E
<1>8. /\ \A g \in E : /\ g \in ToSet(log) \/ outcome[g.txn] \in Expected
                      /\ outcome[g.txn] # "pending"
                      /\ outcome[g.txn] = "indeterminate" => Before(manifest.ckpt, g.pos)
      /\ \A g \in ToSet(log) : outcome[g.txn] = "not_applied" =>
           g.txn \notin DOMAIN manifest.receipts /\ ~Before(manifest.ckpt, g.pos)
  BY DEF Answering, Doubtful, Denied, E
<1>9. \A u \in D : u \in Txns(log')
  <2>1. DOMAIN manifest.receipts \subseteq Txns(log)
    BY DEF Complete, Kept4, Recoverable
  <2>2. \A u \in Txns(log) : \E g \in ToSet(log) : g.txn = u
    BY DEF Txns
  <2> QED
    BY <1>1, <1>5, <1>6, <1>7, <2>1, <2>2
<1>10. \A g \in E : outcome[g.txn] = "indeterminate" => g.txn \in D
  BY <1>1, <1>7, <1>8
<1>11. \A g \in E : outcome[g.txn] = "not_applied" => g.txn \notin D
  <2> SUFFICES ASSUME NEW g \in E, outcome[g.txn] = "not_applied" PROVE g.txn \notin D
    OBVIOUS
  <2>1. g \in ToSet(log)
    BY <1>8 DEF Expected
  <2>2. g.txn \notin DOMAIN manifest.receipts /\ ~Before(manifest.ckpt, g.pos)
    BY <1>8, <2>1
  <2> QED
    BY <1>1, <1>5, <1>7, <2>2
<1>12. Posted'
  <2>1. \A u \in ToSet(inbox) : outcome'[u] = "pending"
    <3>1. \A u \in ToSet(inbox) : outcome[u] = "pending"
      BY DEF Answering, Posted
    <3> QED
      BY <1>2, <1>4, <1>5, <3>1
  <2> QED
    BY <1>1, <2>1, NoFrames DEF Posted
<1>13. Doubtful'
  <2>1. ToSet(Full(segments)') = E
    BY <1>6 DEF Full
  <2>2. \A g \in E : outcome'[g.txn] # "pending" /\ outcome'[g.txn] # "indeterminate"
    <3> SUFFICES ASSUME NEW g \in E PROVE outcome'[g.txn] # "pending" /\ outcome'[g.txn] # "indeterminate"
      OBVIOUS
    <3>1. g.txn \in Txn
      BY <1>5
    <3>2. CASE g.txn \in Unresolved /\ Says(g.txn) # "unresolved"
      BY <1>2, <1>3, <3>1, <3>2
    <3>3. CASE g.txn \notin Unresolved
      BY <1>2, <1>4, <1>8, <3>1, <3>3
    <3>4. CASE g.txn \in Unresolved /\ Says(g.txn) = "unresolved"
      <4>1. g.txn \notin D
        BY <1>3, <3>4
      <4>2. outcome[g.txn] # "indeterminate"
        BY <1>10, <4>1
      <4> QED
        BY <1>2, <1>8, <3>1, <3>4, <4>2
    <3> QED
      BY <3>2, <3>3, <3>4
  <2> QED
    BY <1>6, <2>1, <2>2 DEF Doubtful
<1>14. Denied'
  <2> SUFFICES ASSUME NEW g \in E, outcome'[g.txn] = "not_applied"
               PROVE  g.txn \notin D
    BY <1>1, <1>6, <1>7 DEF Denied, D
  <2>1. g.txn \in Txn
    BY <1>5
  <2>2. CASE g.txn \in Unresolved /\ Says(g.txn) # "unresolved"
    BY <1>2, <1>3, <2>1, <2>2
  <2>3. CASE ~(g.txn \in Unresolved /\ Says(g.txn) # "unresolved")
    BY <1>2, <1>11, <2>1, <2>3
  <2> QED
    BY <2>2, <2>3
<1>15. ASSUME NEW u \in Txn PROVE Tells(u)
  <2>1. CASE ~(u \in Unresolved /\ Says(u) # "unresolved")
    BY <1>2, <2>1 DEF Tells
  <2>2. CASE u \in Unresolved /\ Says(u) = "committed"
    <3>1. u \in D /\ outcome'[u] = "committed"
      BY <1>2, <1>3, <2>2
    <3>2. u \in Txns(log')
      BY <1>9, <3>1
    <3>3. outcome[u] # "not_applied"
      BY <1>6, <1>11, <3>1, <3>2
    <3> QED
      BY <1>4, <2>2, <3>1, <3>2, <3>3 DEF Tells
  <2>3. CASE u \in Unresolved /\ Says(u) = "not_applied"
    <3>1. u \notin D /\ outcome'[u] = "not_applied"
      BY <1>2, <1>3, <2>3
    <3>2. outcome[u] = "indeterminate" => u \notin Txns(log')
      BY <1>6, <1>10, <3>1
    <3> QED
      BY <1>4, <2>3, <3>1, <3>2 DEF Tells
  <2> QED
    BY <1>3, <2>1, <2>2, <2>3
<1> QED
  BY <1>12, <1>13, <1>14, <1>15 DEF Answering

\* open of a new owner.
LEMMA OpenTells ==
  ASSUME Complete, Answering, ~MayTearCopy, Open
  PROVE  Answering' /\ \A u \in Txn : Tells(u)
<1>1. inbox' = inbox
  BY DEF Open
<1>2. own.state = "down" /\ ~Replayed.fault
  BY OpenOrder, FoundReplayed DEF Complete, Same
<1>3. CASE Recover(Replayed) /\ log' = Full(segments') /\ log' = Full(segments)
  BY <1>1, <1>2, <1>3, RecoverTells
<1>4. CASE /\ manifest' = manifest /\ own' = own /\ outcome' = outcome
           /\ Full(segments') = Full(segments) /\ log' \in {log, Full(segments)}
  <2>1. ToSet(log) \subseteq ToSet(log') /\ ToSet(log') \subseteq ToSet(Full(segments))
    BY <1>4, AnsweringIs
  <2>2. Known' = Known /\ Full(segments)' = Full(segments)
    BY <1>4 DEF Known, Full
  <2>3. Posted'
    BY <1>1, <1>4, <2>2 DEF Answering, Posted
  <2>4. Doubtful'
    BY <1>4, <2>1, <2>2 DEF Answering, Doubtful
  <2>5. Denied'
    BY <1>4, <2>1 DEF Answering, Doubtful, Denied, Expected
  <2> QED
    BY <1>4, <2>3, <2>4, <2>5 DEF Answering, Tells
<1> QED
  BY <1>2, <1>3, <1>4, OpenOrder DEF Complete

\* Every step keeps the invariant, and tells what is so.
LEMMA AnsweringStep ==
  ASSUME Complete, Answering, ~MayTearCopy, [Next]_vars
  PROVE  Answering' /\ \A u \in Txn : Tells(u)
<1>1. CASE \E t \in Txn, o \in Op : Submit(t, o)
  BY <1>1, SubmitTells
<1>2. CASE Take
  BY <1>2, TakeTells
<1>3. CASE Flush \/ Retry
  BY <1>3, WriteTells
<1>4. CASE Checkpoint
  BY <1>4, CheckpointTells
<1>5. CASE Exit
  BY <1>5, ExitTells
<1>6. CASE PowerLoss
  BY <1>6, PowerLossTells
<1>7. CASE Open
  BY <1>7, OpenTells
<1>8. CASE UNCHANGED vars
  <2>1. /\ segments' = segments /\ manifest' = manifest /\ own' = own /\ inbox' = inbox
        /\ outcome' = outcome /\ log' = log
    BY <1>8 DEF vars
  <2>2. Known' = Known /\ Full(segments)' = Full(segments)
    BY <2>1 DEF Known, Full
  <2> QED
    BY <2>1, <2>2 DEF Answering, Posted, Doubtful, Denied, Tells
<1> QED
  BY <1>1, <1>2, <1>3, <1>4, <1>5, <1>6, <1>7, <1>8 DEF Next

-----------------------------------------------------------------------------
(* The ledger implements InjectLog.                                        *)

\* A fresh store has answered nobody.
LEMMA AnsweringInit ==
  ASSUME Init
  PROVE  Answering
<1>1. /\ own = Down /\ inbox = <<>> /\ log = <<>> /\ Full(segments) = <<>>
  BY OrderInit DEF Init
<1>2. own.frames = <<>> /\ own.noops = {}
  BY <1>1, DownIs
<1> QED
  BY <1>1, <1>2, NoFrames DEF Answering, Posted, Doubtful, Denied

\* The log and the answers as InjectLog has them.
TxnLog(l) == [k \in DOMAIN l |-> l[k].txn]
TermOf(w) == IF w \in {"indeterminate", "lost"} THEN "unknown" ELSE w

\* The transactions of a log.
LEMMA TxnLogIs ==
  ASSUME NEW l \in Seq(FrameLine)
  PROVE  /\ TxnLog(l) \in Seq(Txn) /\ Len(TxnLog(l)) = Len(l) /\ DOMAIN TxnLog(l) = DOMAIN l
         /\ ToSet(TxnLog(l)) = Txns(l)
         /\ \A m \in Seq(FrameLine) : TxnLog(l \o m) = TxnLog(l) \o TxnLog(m)
<1>1. \A f \in FrameLine : f.txn \in Txn
  BY DEF FrameLine
<1>2. Len(l) \in Nat /\ DOMAIN l = 1 .. Len(l) /\ \A k \in DOMAIN l : l[k] \in FrameLine /\ l[k].txn \in Txn
  BY <1>1
<1>3. TxnLog(l) \in Seq(Txn) /\ Len(TxnLog(l)) = Len(l) /\ DOMAIN TxnLog(l) = DOMAIN l
  BY <1>2 DEF TxnLog
<1>4. ToSet(TxnLog(l)) = Txns(l)
  <2>1. \A k \in DOMAIN l : TxnLog(l)[k] = l[k].txn
    BY DEF TxnLog
  <2> QED
    BY <1>3, <2>1 DEF ToSet, Txns
<1>5. ASSUME NEW m \in Seq(FrameLine) PROVE TxnLog(l \o m) = TxnLog(l) \o TxnLog(m)
  <2>1. Len(m) \in Nat /\ DOMAIN m = 1 .. Len(m) /\ \A k \in DOMAIN m : m[k] \in FrameLine /\ m[k].txn \in Txn
    BY <1>1
  <2>2. TxnLog(m) \in Seq(Txn) /\ Len(TxnLog(m)) = Len(m) /\ DOMAIN TxnLog(m) = DOMAIN m
    BY <2>1 DEF TxnLog
  <2> DEFINE n == l \o m
             p == TxnLog(l) \o TxnLog(m)
  <2>3. /\ n \in Seq(FrameLine) /\ Len(n) = Len(l) + Len(m) /\ DOMAIN n = 1 .. Len(l) + Len(m)
        /\ \A k \in 1 .. Len(l) + Len(m) : n[k] = IF k <= Len(l) THEN l[k] ELSE m[k - Len(l)]
    BY <1>2, <2>1
  <2>4. /\ p \in Seq(Txn) /\ DOMAIN p = 1 .. Len(l) + Len(m)
        /\ \A k \in 1 .. Len(l) + Len(m) : p[k] = IF k <= Len(l) THEN TxnLog(l)[k] ELSE TxnLog(m)[k - Len(l)]
    <3> DEFINE a == TxnLog(l)
               b == TxnLog(m)
    <3>1. a \in Seq(Txn) /\ b \in Seq(Txn) /\ Len(a) = Len(l) /\ Len(b) = Len(m)
      BY <1>3, <2>2
    <3> HIDE DEF a, b
    <3>2. /\ a \o b \in Seq(Txn) /\ DOMAIN (a \o b) = 1 .. Len(a) + Len(b)
          /\ \A k \in 1 .. Len(a) + Len(b) : (a \o b)[k] = IF k <= Len(a) THEN a[k] ELSE b[k - Len(a)]
      BY <3>1
    <3> QED
      BY <3>1, <3>2 DEF a, b
  <2>5. /\ \A k \in DOMAIN l : TxnLog(l)[k] = l[k].txn
        /\ \A k \in DOMAIN m : TxnLog(m)[k] = m[k].txn
    BY DEF TxnLog
  <2>6. \A k \in 1 .. Len(l) + Len(m) : k \in DOMAIN l \/ (~(k <= Len(l)) /\ k - Len(l) \in DOMAIN m)
    BY <1>2, <2>1
  <2>7. \A k \in DOMAIN l : k <= Len(l)
    BY <1>2
  <2> HIDE DEF n, p
  <2>8. \A k \in DOMAIN n : p[k] = n[k].txn
    BY Zenon, <2>3, <2>4, <2>5, <2>6, <2>7
  <2>9. p = [k \in DOMAIN n |-> n[k].txn]
    <3>1. p = [k \in DOMAIN p |-> p[k]]
      BY <2>4
    <3> QED
      BY <2>3, <2>4, <2>8, <3>1
  <2> QED
    BY Zenon, <2>9 DEF TxnLog, n, p
<1> QED
  BY <1>3, <1>4, <1>5

\* No transaction is in the log twice.
Distinct == IsInjective(TxnLog(log))

\* The log has none twice.
LEMMA LogDistinct ==
  ASSUME Complete
  PROVE  Distinct
<1>1. log \in Seq(FrameLine) /\ Apart(<<>>, log)
  BY LogsAlone DEF Complete, Kept4
<1>2. DOMAIN TxnLog(log) = DOMAIN log /\ \A k \in DOMAIN log : TxnLog(log)[k] = log[k].txn
  BY DEF TxnLog
<1>3. \A x, y \in DOMAIN log : x # y => log[x].txn # log[y].txn
  BY <1>1 DEF Apart
<1> QED
  BY <1>1, <1>2, <1>3 DEF IsInjective, Distinct

\* What a step adds to the log was found or in the open group: nobody was told that it is not in it.
LEMMA LogStep ==
  ASSUME Complete, Complete', Answering, ~MayTearCopy, [Next]_vars
  PROVE  /\ IsPrefix(TxnLog(log), TxnLog(log'))
         /\ \A t \in Txns(log') \ Txns(log) : t \in Txn /\ outcome[t] \in Expected
<1>1. log' \in LogAfter /\ (log' = log \/ \E more \in Seq(FrameLine) : log' = log \o more)
  BY OrderStep, LogLonger DEF Complete
<1>2. log \in Seq(FrameLine) /\ log' \in Seq(FrameLine)
  BY DEF Complete, Sound, Stored
<1>3. IsPrefix(TxnLog(log), TxnLog(log'))
  <2> DEFINE l == TxnLog(log)
             m == TxnLog(log')
  <2>1. l \in Seq(Txn) /\ (m = l \/ \E more \in Seq(Txn) : m = l \o more)
    BY Zenon, <1>1, <1>2, TxnLogIs
  <2> HIDE DEF l, m
  <2>2. Len(l) <= Len(m) /\ SubSeq(l, 1, Len(l)) = SubSeq(m, 1, Len(l))
    BY <2>1
  <2>3. IsPrefix(l, m)
    BY <2>2 DEF IsPrefix
  <2> QED
    BY <2>3 DEF l, m
<1>4. ASSUME NEW t \in Txns(log') \ Txns(log) PROVE t \in Txn /\ outcome[t] \in Expected
  <2>1. PICK f \in ToSet(log') : f.txn = t
    BY DEF Txns
  <2>2. f \notin ToSet(log)
    BY <2>1 DEF Txns
  <2>3. f \in ToSet(Full(segments)) \/ f \in ToSet(own.frames)
    <3>1. own.frames \in Seq(FrameLine)
      BY AnsweringIs
    <3>2. ToSet(log \o own.frames) = ToSet(log) \cup ToSet(own.frames)
      BY <1>2, <3>1, TxnsJoined
    <3> QED
      BY Zenon, <1>1, <2>1, <2>2, <3>2 DEF LogAfter
  <2>4. f.txn \in Txn
    BY <2>3, AnsweringIs
  <2> QED
    BY <2>1, <2>2, <2>3, <2>4 DEF Answering, Posted, Doubtful, Expected
<1> QED
  BY <1>3, <1>4

\* A step of the ledger is one of InjectLog.
LEMMA AbstractStep ==
  ASSUME Complete, Complete', Distinct', Answering, ~MayTearCopy, [Next]_vars
  PROVE  Abstract!Next
<1> DEFINE A == [t \in Txn |-> TermOf(outcome[t])]
           B == [t \in Txn |-> TermOf(outcome'[t])]
<1>1. /\ ToSet(TxnLog(log)) = Txns(log) /\ ToSet(TxnLog(log')) = Txns(log')
      /\ IsInjective(TxnLog(log'))
  <2>1. log \in Seq(FrameLine) /\ log' \in Seq(FrameLine)
    BY DEF Complete, Sound, Stored
  <2>2. TxnLog(log)' = TxnLog(log')
    BY DEF TxnLog
  <2> QED
    BY <2>1, <2>2, TxnLogIs DEF Distinct
<1>2. outcome \in [Txn -> Told] /\ outcome' \in [Txn -> Told]
  BY DEF Complete, Sound, Answered
<1>3. B \in [Txn -> Abstract!Outcome]
  BY <1>2 DEF Told, Abstract!Outcome, TermOf
<1>4. \A t \in Txns(log') \ Txns(log) : A[t] \in {"pending", "unknown"}
  BY LogStep DEF Expected, TermOf
<1>5. \A t \in Txn : Tells(t)
  BY AnsweringStep
<1>6. IsPrefix(TxnLog(log), TxnLog(log'))
  BY LogStep
<1>7. TxnLog(log') = [k \in DOMAIN log' |-> log'[k].txn] /\ TxnLog(log) = [k \in DOMAIN log |-> log[k].txn]
  BY DEF TxnLog
<1>8. ASSUME NEW t \in Txn PROVE Abstract!Answer(t)
  <2> DEFINE a == TermOf(outcome[t])
             b == TermOf(outcome'[t])
  <2>1. A[t] = a /\ B[t] = b
    OBVIOUS
  <2>2. \/ b = a
        \/ a = "none" /\ b = "pending"
        \/ /\ a = "pending"
           /\ \/ b = "acked" /\ t \in Txns(log')
              \/ b \in {"duplicate", "nacked"} /\ t \notin Txns(log')
              \/ b = "unknown"
        \/ /\ a = "unknown"
           /\ \/ b = "committed" /\ t \in Txns(log')
              \/ b = "not_applied" /\ t \notin Txns(log')
        \/ a = "committed" /\ b = "not_applied"
    BY <1>5 DEF Tells, TermOf
  <2> HIDE DEF a, b
  <2>3. Abstract!Answer(t) <=>
          \/ B[t] = A[t]
          \/ A[t] = "none" /\ B[t] = "pending"
          \/ /\ A[t] = "pending"
             /\ \/ B[t] = "acked" /\ t \in ToSet(TxnLog(log'))
                \/ B[t] \in {"duplicate", "nacked"} /\ t \notin ToSet(TxnLog(log'))
                \/ B[t] = "unknown"
          \/ /\ A[t] = "unknown"
             /\ \/ B[t] = "committed" /\ t \in ToSet(TxnLog(log'))
                \/ B[t] = "not_applied" /\ t \notin ToSet(TxnLog(log'))
          \/ A[t] = "committed" /\ B[t] = "not_applied"
    BY Zenon DEF Abstract!Answer, Abstract!ToSet, ToSet, TermOf, TxnLog
  <2> HIDE DEF A, B
  <2> QED
    BY <1>1, <2>1, <2>2, <2>3
<1>9. \A t \in Txns(log') \ Txns(log) : Abstract!Undecided(t)
  BY <1>4 DEF Abstract!Undecided, TermOf
<1>10. Abstract!Next <=>
         /\ IsPrefix(TxnLog(log), TxnLog(log')) /\ IsInjective(TxnLog(log'))
         /\ \A t \in ToSet(TxnLog(log')) \ ToSet(TxnLog(log)) : Abstract!Undecided(t)
         /\ B \in [Txn -> Abstract!Outcome]
         /\ \A t \in Txn : Abstract!Answer(t)
  BY DEF Abstract!Next, Abstract!ToSet, ToSet, Abstract!IsPrefix, IsPrefix, Abstract!IsInjective, IsInjective, TermOf, TxnLog
<1> HIDE DEF B
<1> QED
  BY <1>1, <1>3, <1>6, <1>8, <1>9, <1>10

\* The owner and its client implement InjectLog: the log only grows, no transaction enters it twice or
\* after it was called not applied, redundant or refused, and an answer is of what is in it, except
\* that a committed transaction may be called not applied once its receipt has been trimmed
\* (flushGroup, noopVerdict, recover and resolve in ledger-owner.js, and sendResolve in
\* ledger-client.js), if a recovery is never cut within its copy of the last group.
THEOREM LedgerImplementsLog == ~MayTearCopy => (Spec => ImplementsLog)
<1> SUFFICES ASSUME ~MayTearCopy PROVE Spec => ImplementsLog
  OBVIOUS
<1>1. Init => Abstract!Init
  <2> SUFFICES ASSUME Init PROVE Abstract!Init
    OBVIOUS
  <2>1. log = <<>> /\ \A t \in Txn : outcome[t] = "none"
    BY DEF Init
  <2>2. [k \in DOMAIN log |-> log[k].txn] = <<>>
    BY <2>1
  <2>3. [t \in Txn |-> IF outcome[t] \in {"indeterminate", "lost"} THEN "unknown" ELSE outcome[t]]
          = [t \in Txn |-> "none"]
    BY <2>1
  <2> QED
    BY <2>2, <2>3 DEF Abstract!Init
<1>2. Init => Answering
  BY AnsweringInit
<1>3. Complete /\ Answering /\ [Next]_vars => Answering'
  BY AnsweringStep
<1>4. Complete /\ Complete' /\ Distinct' /\ Answering /\ [Next]_vars => Abstract!Next
  BY AbstractStep
<1>5. Complete => Distinct
  BY LogDistinct
<1>6. Spec => []Complete
  BY AlwaysComplete
<1> QED
  BY <1>1, <1>2, <1>3, <1>4, <1>5, <1>6, PTL DEF Spec, ImplementsLog, Abstract!Spec

=============================================================================
