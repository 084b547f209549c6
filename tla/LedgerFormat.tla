---------------------------- MODULE LedgerFormat ----------------------------
(***************************************************************************)
(* The format of the inject ledger (src/session-store/ledger-format.js) and*)
(* its replay (replaySegments in ledger-owner.js): frames, groups closed by*)
(* a commit frame, positions in the log, and what a frame does to the      *)
(* records.  Operators only.                                               *)
(***************************************************************************)
EXTENDS Naturals, Sequences, SequencesExt

CONSTANTS
  Txn,        \* transaction names, never used twice
  Id,         \* inject ids
  SessionOf,  \* SessionOf[i]: the session that i is sent to
  Op          \* the operations that clients submit: [kind, id, what]

\* A record: its tracking state, how many observations it has, and the last.
None == [st |-> "none", seq |-> 0, last |-> "none"]
Started == [st |-> "tracked", seq |-> 1, last |-> "tracking_started"]
Terminal == {"aborted", "superseded"}
Observed(r, what) == [r EXCEPT !.seq = @ + 1, !.last = what]

\* applyFrame refuses a state that is not terminal.
ASSUME OpAssumption ==
  \A o \in Op :
    /\ o.kind \in {"begin", "obs", "state", "reheat"}
    /\ o.id \in Id
    /\ (o.kind = "state" => o.what \in Terminal)

Observation == {"none", "tracking_started", "tracking_superseded"} \cup {o.what : o \in Op}
Record == [st : {"none", "tracked"} \cup Terminal, seq : Nat, last : Observation]
NoRecords == [i \in Id |-> None]

\* Positions are pairs of an epoch and a sequence number.
BeforeBySeq(p, q) == p[2] < q[2]    \* Mutant: the epoch is forgotten.
Before(p, q) == p[1] < q[1] \/ (p[1] = q[1] /\ p[2] < q[2])

\* A frame adds to its operation the transaction and the
\* position, the records that a begin supersedes, and a reheated record.
Frame(t, p, op, over, rec) ==
  [t |-> "frame", txn |-> t, pos |-> p, op |-> op, over |-> over, rec |-> rec]
Commit(n) == [t |-> "commit", n |-> n]
Torn == [t |-> "torn"]     \* a part of a line

\* The other tracked records of the session of i.
Superseded(view, i) ==
  {j \in Id \ {i} : SessionOf[j] = SessionOf[i] /\ view[j].st = "tracked"}

Applicable(view, f) ==
  CASE f.op.kind = "begin" -> view[f.op.id] = None
    [] f.op.kind = "obs" -> view[f.op.id] # None
    [] f.op.kind = "state" -> view[f.op.id].st = "tracked"
    [] f.op.kind = "reheat" -> TRUE

ApplyFrame(view, f) ==
  LET i == f.op.id
      over == {j \in f.over : view[j] # None}
  IN CASE f.op.kind = "begin" ->
            [j \in Id |->
               IF j = i THEN Started
               ELSE IF j \in over
                    THEN [Observed(view[j], "tracking_superseded") EXCEPT !.st = "superseded"]
                    ELSE view[j]]
       [] f.op.kind = "obs" -> [view EXCEPT ![i] = Observed(@, f.op.what)]
       [] f.op.kind = "state" ->
            [view EXCEPT ![i] = [Observed(@, f.op.what) EXCEPT !.st = f.op.what]]
       [] f.op.kind = "reheat" -> [view EXCEPT ![i] = f.rec]

\* FoldLeft and FlattenSeq as recursive functions over positions: TLC takes
\* one step for each element, where the library's walk sets of indices.
Along(step(_, _), start, s) ==
  LET upTo[k \in 0 .. Len(s)] == IF k = 0 THEN start ELSE step(upTo[k - 1], s[k])
  IN upTo[Len(s)]
Concat(ss) == Along(\o, <<>>, ss)

ApplyAll(view, frames) == Along(ApplyFrame, view, frames)

-----------------------------------------------------------------------------
(* Reading a segment.                                                      *)

TornAt(items) ==
  IF \A k \in DOMAIN items : items[k] # Torn THEN 0
  ELSE CHOOSE k \in DOMAIN items :
         items[k] = Torn /\ \A j \in 1 .. k - 1 : items[j] # Torn

\* The lines that decode: those before the first that does not.
Decoded(items) ==
  IF TornAt(items) = 0 THEN items ELSE SubSeq(items, 1, TornAt(items) - 1)

\* A torn line swallows the next write up to its first newline; if commit
\* frames follow, the file counts as corrupt, else its tail is a crash's.
Corrupt(items) ==
  LET k == TornAt(items)
  IN k # 0 /\ \E it \in ToSet(Decoded(SubSeq(items, k + 2, Len(items)))) : it.t = "commit"

\* Groups closed by a commit frame with the right count; frames after the
\* last, or from a wrong count on, are open: listed and never applied.
GroupStep(s, it) ==
  IF s.bad THEN s
  ELSE IF it.t = "frame" THEN [s EXCEPT !.open = Append(@, it)]
  ELSE IF it.n = Len(s.open)
       THEN [s EXCEPT !.groups = Append(@, s.open), !.open = <<>>]
       ELSE [s EXCEPT !.bad = TRUE]

GroupFrames(items) ==
  Along(GroupStep, [groups |-> <<>>, open |-> <<>>, bad |-> FALSE], Decoded(items))

-----------------------------------------------------------------------------
(* Replay of the segments over a checkpoint.                               *)

Txns(frames) == {f.txn : f \in ToSet(frames)}

\* A frame is skipped if it is a copy, or if the checkpoint has it; copies
\* that differ, and a frame that does not apply, make the store unreadable.
ReplayFrame(r, f) ==
  LET twins == {g \in r.seen : g.pos = f.pos \/ g.txn = f.txn}
  IN IF r.fault THEN r
     ELSE IF twins # {} THEN [r EXCEPT !.fault = twins # {f}]
     ELSE IF ~Before(r.from, f.pos) THEN [r EXCEPT !.seen = @ \cup {f}]
     ELSE IF ~Applicable(r.hot, f) THEN [r EXCEPT !.fault = TRUE]
     ELSE [r EXCEPT !.hot = ApplyFrame(@, f), !.seen = @ \cup {f}, !.fresh = @ \cup {f.txn}]

ReplaySegment(r, items) ==
  LET g == GroupFrames(items)
      s == Along(ReplayFrame, r, Concat(g.groups))
  IN IF r.fault \/ Corrupt(items) THEN [r EXCEPT !.fault = TRUE]
     ELSE [s EXCEPT !.unapplied = @ \cup Txns(g.open),
                    !.last = IF g.groups = <<>> THEN @ ELSE Last(g.groups)]

\* hot: the records; fresh: the transactions applied; unapplied: those with
\* open frames; last: the frames of the last group of all.
Replay(hot, from, segments) ==
  Along(ReplaySegment,
        [hot |-> hot, from |-> from, seen |-> {}, fresh |-> {},
         unapplied |-> {}, last |-> <<>>, fault |-> FALSE],
        segments)

-----------------------------------------------------------------------------
(* The log that a list of segments stands for: each committed frame once.  *)

LogOf(segments) ==
  LET all == Concat([k \in DOMAIN segments |-> Concat(GroupFrames(segments[k]).groups)])
  IN Along(LAMBDA l, f : IF Contains(l, f) THEN l ELSE Append(l, f), <<>>, all)
=============================================================================
