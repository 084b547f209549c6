---------------------------- MODULE SessionMutex ----------------------------
(***************************************************************************)
(* What the advisory lock of a session promises its contenders, with no    *)
(* word of tickets: one holder at a time, and a contender that has finished*)
(* arriving before another one begins is admitted first, unless it leaves. *)
(* The lock file protocol (MailboxLock) is shown to implement it.          *)
(***************************************************************************)
CONSTANT Contender

VARIABLES
  phase,   \* phase[p]: outside, arriving, queued, or inside the critical section
  before   \* before[p]: the contenders that were queued when p began to arrive

mutexVars == <<phase, before>>

Init ==
  /\ phase = [p \in Contender |-> "out"]
  /\ before = [p \in Contender |-> {}]

Arrive(p) ==
  /\ phase[p] = "out"
  /\ phase' = [phase EXCEPT ![p] = "arriving"]
  /\ before' = [before EXCEPT ![p] =
                  {q \in Contender : phase[q] \in {"queued", "in"}}]

Queue(p) ==
  /\ phase[p] = "arriving"
  /\ phase' = [phase EXCEPT ![p] = "queued"]
  /\ UNCHANGED before

Enter(p) ==
  /\ phase[p] = "queued"
  /\ before[p] = {}
  /\ \A q \in Contender : phase[q] # "in"
  /\ phase' = [phase EXCEPT ![p] = "in"]
  /\ UNCHANGED before

\* A release, a deadline, an error or the death of p.
Leave(p) ==
  /\ phase[p] # "out"
  /\ phase' = [phase EXCEPT ![p] = "out"]
  /\ before' = [q \in Contender |-> IF q = p THEN {} ELSE before[q] \ {p}]

Next == \E p \in Contender : Arrive(p) \/ Queue(p) \/ Enter(p) \/ Leave(p)

Spec == Init /\ [][Next]_mutexVars
=============================================================================
