------------------------ MODULE InjectPipelineProofs ------------------------
(***************************************************************************)
(* Proofs about InjectPipeline for any calls, records, sockets and names,  *)
(* whatever owners, records and the engine do between the awaits.          *)
(*                                                                         *)
(* A text is written when its message leaves the inbox, and only then: so  *)
(* it is written at most once (Queued, BodySent), and never after it was   *)
(* withdrawn (Truthful).  A message that is still to be delivered is bound *)
(* to its caller's target, unless the caller was told that the outcome is  *)
(* unknown (StillBound).  The return follows the socket that the waiter    *)
(* was told of, which has got the text (Owed), once (SubmitSent).          *)
(*                                                                         *)
(* Texts that owe returns are kept apart by the barrier (Follows), which   *)
(* is of the record that owns the socket (OneRecord): while one such text  *)
(* may still be written, no other call of the record is under way.         *)
(***************************************************************************)
EXTENDS InjectPipeline, SequenceTheorems, TLAPS

USE PipelineAssumption

OnceEach(q) == \A j, k \in DOMAIN q : q[j] = q[k] => j = k

-----------------------------------------------------------------------------
(* Sequences. *)

\* What a withdrawal leaves of an inbox in which each message is once: the others, once.
LEMMA RemoveFirstLemma ==
  ASSUME NEW S, NEW q \in Seq(S), NEW e, OnceEach(q)
  PROVE  /\ RemoveFirst(q, e) \in Seq(S) /\ OnceEach(RemoveFirst(q, e))
         /\ \A k \in DOMAIN RemoveFirst(q, e) :
              RemoveFirst(q, e)[k] # e /\ \E j \in DOMAIN q : RemoveFirst(q, e)[k] = q[j]
<1>1. CASE ~\E i \in 1 .. Len(q) : q[i] = e
  <2>1. RemoveFirst(q, e) = q
    BY <1>1 DEF RemoveFirst
  <2> QED
    BY <1>1, <2>1
<1>2. CASE \E i \in 1 .. Len(q) : q[i] = e
  <2>1. PICK p \in 1 .. Len(q) : q[p] = e
    BY <1>2
  <2>2. {i \in 1 .. Len(q) : q[i] = e} = {p}
    BY <2>1 DEF OnceEach
  <2>3. SelectInSeq(q, LAMBDA v : v = e) = p
    BY <2>2 DEF SelectInSeq, Min
  <2>4. RemoveFirst(q, e) = SubSeq(q, 1, p - 1) \o SubSeq(q, p + 1, Len(q))
    BY <1>2, <2>3 DEF RemoveFirst, RemoveAt
  <2> DEFINE a == SubSeq(q, 1, p - 1)
             b == SubSeq(q, p + 1, Len(q))
             r == a \o b
  <2>5. a \in Seq(S) /\ Len(a) = p - 1 /\ \A i \in 1 .. p - 1 : a[i] = q[i]
    BY SubSeqProperties
  <2>6. b \in Seq(S) /\ Len(b) = Len(q) - p /\ \A i \in 1 .. Len(q) - p : b[i] = q[p + i]
    BY SubSeqProperties
  <2> HIDE DEF a, b
  <2>7. /\ r \in Seq(S) /\ Len(r) = Len(a) + Len(b)
        /\ \A i \in 1 .. Len(a) + Len(b) : r[i] = IF i <= Len(a) THEN a[i] ELSE b[i - Len(a)]
    BY <2>5, <2>6, ConcatProperties, ZenonT(40)
  <2> HIDE DEF r
  <2>8. Len(q) \in Nat /\ DOMAIN q = 1 .. Len(q) /\ p \in 1 .. Len(q) /\ Len(r) = Len(q) - 1
    BY <2>5, <2>6, <2>7
  <2>9. DOMAIN r = 1 .. Len(q) - 1
    BY <2>7, <2>8, LenProperties
  <2> DEFINE at(k) == IF k < p THEN k ELSE k + 1
  <2>10. \A k \in DOMAIN r : r[k] = q[at(k)] /\ at(k) \in DOMAIN q /\ at(k) # p
    <3> SUFFICES ASSUME NEW k \in 1 .. Len(q) - 1 PROVE r[k] = q[at(k)] /\ at(k) \in DOMAIN q /\ at(k) # p
      BY <2>9
    <3>1. CASE k < p
      <4>1. k <= Len(a) /\ k \in 1 .. p - 1
        BY <2>5, <2>8, <3>1
      <4>2. r[k] = a[k]
        BY <2>7, <2>8, <4>1
      <4> QED
        BY <2>5, <2>8, <3>1, <4>1, <4>2
    <3>2. CASE ~(k < p)
      <4>1. ~(k <= Len(a)) /\ k - Len(a) \in 1 .. Len(q) - p /\ p + (k - Len(a)) = k + 1
        BY <2>5, <2>8, <3>2
      <4>2. r[k] = b[k - Len(a)]
        BY <2>7, <2>8, <4>1
      <4>3. b[k - Len(a)] = q[k + 1]
        BY <2>6, <4>1
      <4>4. at(k) = k + 1 /\ k + 1 \in 1 .. Len(q) /\ k + 1 # p
        BY <2>8, <3>2
      <4> QED
        BY <2>8, <4>2, <4>3, <4>4
    <3> QED
      BY <3>1, <3>2
  <2>11. \A j, k \in DOMAIN r : at(j) = at(k) => j = k
    BY <2>8, <2>9
  <2> HIDE DEF at
  <2>12. OnceEach(r)
    BY <2>10, <2>11 DEF OnceEach
  <2>13. \A k \in DOMAIN r : r[k] # e /\ \E j \in DOMAIN q : r[k] = q[j]
    BY <2>1, <2>8, <2>10 DEF OnceEach
  <2> QED
    BY <2>4, <2>7, <2>12, <2>13 DEF r, a, b
<1> QED
  BY <1>1, <1>2

\* An inbox that is appended to has its messages and the new one, each once.
LEMMA AppendLemma ==
  ASSUME NEW S, NEW q \in Seq(S), NEW e \in S, OnceEach(q), \A k \in DOMAIN q : q[k] # e
  PROVE  /\ Append(q, e) \in Seq(S) /\ OnceEach(Append(q, e))
         /\ \A k \in DOMAIN Append(q, e) :
              Append(q, e)[k] = e \/ \E j \in DOMAIN q : Append(q, e)[k] = q[j]
<1> DEFINE r == Append(q, e)
<1>1. /\ r \in Seq(S) /\ Len(r) = Len(q) + 1
      /\ \A i \in 1 .. Len(q) : r[i] = q[i]
      /\ r[Len(q) + 1] = e
  BY AppendProperties
<1> HIDE DEF r
<1>2. \A k \in 1 .. Len(r) : k = Len(q) + 1 \/ k \in 1 .. Len(q)
  BY <1>1
<1>3. OnceEach(r)
  BY <1>1, <1>2 DEF OnceEach
<1>4. \A k \in DOMAIN r : r[k] = e \/ \E j \in DOMAIN q : r[k] = q[j]
  BY <1>1, <1>2
<1> QED
  BY <1>1, <1>3, <1>4 DEF r

\* What leaves an inbox with its head is the head, and nothing else.
LEMMA TailLemma ==
  ASSUME NEW S, NEW q \in Seq(S), q # <<>>, OnceEach(q)
  PROVE  /\ Head(q) \in S /\ Tail(q) \in Seq(S) /\ OnceEach(Tail(q))
         /\ \E j \in DOMAIN q : q[j] = Head(q)
         /\ \A k \in DOMAIN Tail(q) :
              Tail(q)[k] # Head(q) /\ \E j \in DOMAIN q : Tail(q)[k] = q[j]
<1> DEFINE r == Tail(q)
<1>1. /\ Head(q) \in S /\ r \in Seq(S) /\ Len(r) = Len(q) - 1
      /\ \A i \in 1 .. Len(r) : r[i] = q[i + 1]
  BY HeadTailProperties
<1>2. Head(q) = q[1] /\ 1 \in 1 .. Len(q)
  BY EmptySeq
<1> HIDE DEF r
<1>3. DOMAIN r = 1 .. Len(q) - 1 /\ DOMAIN q = 1 .. Len(q) /\ Len(q) \in Nat
  BY <1>1
<1>4. \A k \in DOMAIN r : r[k] = q[k + 1] /\ k + 1 \in DOMAIN q /\ k + 1 # 1 /\ k \in Nat
  BY <1>1, <1>3
<1>5. OnceEach(r)
  <2> SUFFICES ASSUME NEW j \in DOMAIN r, NEW k \in DOMAIN r, r[j] = r[k] PROVE j = k
    BY DEF OnceEach
  <2>1. j + 1 = k + 1
    BY <1>4 DEF OnceEach
  <2> QED
    BY <1>4, <2>1
<1>6. \A k \in DOMAIN r : r[k] # Head(q) /\ \E j \in DOMAIN q : r[k] = q[j]
  BY <1>2, <1>3, <1>4 DEF OnceEach
<1> QED
  BY <1>1, <1>2, <1>3, <1>5, <1>6 DEF r

\* A frame that is sent is the last one on its socket; nothing else changes.
LEMMA SendLemma ==
  ASSUME wire \in [Socket -> Seq(Frame)], NEW w \in Socket, NEW i \in Inject, NEW part \in {"body", "submit"},
         Send(w, i, part)
  PROVE  /\ wire' \in [Socket -> Seq(Frame)]
         /\ \A v \in Socket \ {w} : wire'[v] = wire[v]
         /\ Len(wire'[w]) = Len(wire[w]) + 1
         /\ \A k \in 1 .. Len(wire[w]) : wire'[w][k] = wire[w][k]
         /\ wire'[w][Len(wire[w]) + 1] = [inject |-> i, part |-> part]
<1>1. [inject |-> i, part |-> part] \in Frame
  BY DEF Frame
<1> QED
  BY <1>1, AppendProperties DEF Send

\* What was sent after a write is what was sent before, and the new frame.
LEMMA SentLemma ==
  ASSUME wire \in [Socket -> Seq(Frame)], NEW w \in Socket, NEW i \in Inject, NEW part \in {"body", "submit"},
         Send(w, i, part)
  PROVE  \A v \in Socket, j \in Inject, x \in {"body", "submit"} :
           Sent(v, j, x)' <=> Sent(v, j, x) \/ (v = w /\ j = i /\ x = part)
<1>1. /\ wire' \in [Socket -> Seq(Frame)]
      /\ \A v \in Socket \ {w} : wire'[v] = wire[v]
      /\ Len(wire'[w]) = Len(wire[w]) + 1
      /\ \A k \in 1 .. Len(wire[w]) : wire'[w][k] = wire[w][k]
      /\ wire'[w][Len(wire[w]) + 1] = [inject |-> i, part |-> part]
  BY SendLemma
<1>2. /\ Len(wire[w]) \in Nat
      /\ DOMAIN wire[w] = 1 .. Len(wire[w]) /\ DOMAIN wire'[w] = 1 .. Len(wire[w]) + 1
  BY <1>1
<1>3. TAKE v \in Socket, j \in Inject, x \in {"body", "submit"}
<1>4. CASE v # w
  BY <1>1, <1>4 DEF Sent
<1>5. CASE v = w
  <2>1. \A k \in DOMAIN wire'[w] : k \in DOMAIN wire[w] \/ k = Len(wire[w]) + 1
    BY <1>2
  <2>2. Sent(v, j, x)' => Sent(v, j, x) \/ (j = i /\ x = part)
    BY <1>1, <1>2, <1>5, <2>1 DEF Sent
  <2>3. Sent(v, j, x) => Sent(v, j, x)'
    BY <1>1, <1>2, <1>5 DEF Sent
  <2>4. j = i /\ x = part => Sent(v, j, x)'
    <3>1. Len(wire[w]) + 1 \in DOMAIN wire'[w]
      BY <1>2
    <3> QED
      BY <1>1, <1>5, <3>1 DEF Sent
  <2> QED
    BY <1>5, <2>2, <2>3, <2>4
<1> QED
  BY <1>4, <1>5

-----------------------------------------------------------------------------
(* The invariant. *)

\* What the place of a call says of its capture, its message and its answer.
Shape ==
  \A i \in Inject :
    /\ pc[i] \in {"gate", "queue", "tick", "text", "submit"} => call[i] \in Call
    /\ mail[i] # "none" => call[i] \in Call /\ pc[i] \notin {"new", "gate", "queue"}
    /\ pc[i] \in {"new", "gate", "queue", "tick", "text"} => reply[i] = "none"
    /\ pc[i] = "submit" => reply[i] = "success"
    /\ mail[i] = "none" => attempt[i] = 0
    /\ mail[i] \in {"pending", "backoff"} => attempt[i] < MaxRetries
    /\ \A s \in Session : barrier[s] = i => call[i].enter

\* What waits in an inbox is pending, there once, and of that name.
Queued ==
  \A n \in Name :
    /\ OnceEach(inbox[n])
    /\ \A k \in DOMAIN inbox[n] : mail[inbox[n][k]] = "pending" /\ call[inbox[n][k]].name = n

StillBound ==
  \A i \in Inject : mail[i] \in {"pending", "backoff"} => i \in bound \/ reply[i] = "uncertain"

\* A message whose text was written is not delivered again, and is buried only with a doubt.
BodySent ==
  \A i \in Inject, w \in Socket : Sent(w, i, "body") =>
    mail[i] \in {"acked", "fenced", "purged"} \/ (mail[i] = "dead" /\ reply[i] = "uncertain")

SubmitSent == \A i \in Inject, w \in Socket : Sent(w, i, "submit") => pc[i] = "done"

Owed == \A i \in Inject : textOwner[i] # NoSocket => Sent(textOwner[i], i, "body")

\* A refused call is over, and its message, if there is one, is not to be delivered.
Truthful == \A i \in Inject : reply[i] = "refused" => pc[i] = "done" /\ mail[i] \in {"none", "dead", "purged"}

Inv ==
  /\ TypeOK /\ Shape /\ Queued /\ StillBound /\ BodySent /\ SubmitSent /\ Owed /\ Truthful
  /\ NoBareSubmit /\ RefusedNeverWritten /\ WrittenToEntryOwner

-----------------------------------------------------------------------------
(* Types. *)

\* A call before its text is enqueued, or after its end, holds no barrier.
LEMMA BarrierFree ==
  ASSUME TypeOK, NEW i \in Inject, pc[i] \notin {"tick", "text", "submit"}
  PROVE  \A s \in Session : barrier[s] # i
<1>1. \A s \in Session : barrier[s] # NoInject => pc[barrier[s]] \in {"tick", "text", "submit"}
  BY DEF TypeOK
<1> QED
  BY <1>1

\* A call that answers keeps the types of what it changes, and holds no barrier.
LEMMA AnswerTypes ==
  ASSUME TypeOK, NEW i \in Inject, NEW r \in {"success", "refused", "uncertain"}, Answer(i, r)
  PROVE  /\ pc' \in [Inject -> PCs] /\ reply' \in [Inject -> {"none", "success", "refused", "uncertain"}]
         /\ bound' \subseteq Inject /\ unsure' \subseteq Inject
         /\ barrier' \in [Session -> Inject \cup {NoInject}]
         /\ waiter' \in [Inject -> Waiters] /\ failure' \in [Inject -> {"none", "zero", "other"}]
         /\ textOwner' = textOwner
         /\ UNCHANGED call => \A s \in Session : barrier'[s] # NoInject =>
              pc'[barrier'[s]] \in {"tick", "text", "submit"} /\ call'[barrier'[s]].session = s
<1>1. \A s \in Session : barrier'[s] # NoInject => barrier'[s] = barrier[s] /\ barrier[s] # i
  BY DEF Answer, ReleaseBarrier
<1>2. pc' \in [Inject -> PCs] /\ reply' \in [Inject -> {"none", "success", "refused", "uncertain"}]
  BY DEF TypeOK, Answer, PCs
<1>3. barrier' \in [Session -> Inject \cup {NoInject}]
  BY DEF TypeOK, Answer, ReleaseBarrier
<1>4. waiter' \in [Inject -> Waiters] /\ failure' \in [Inject -> {"none", "zero", "other"}]
  BY DEF TypeOK, Answer, Forget, Waiters
<1>5. ASSUME UNCHANGED call, NEW s \in Session, barrier'[s] # NoInject
      PROVE  pc'[barrier'[s]] \in {"tick", "text", "submit"} /\ call'[barrier'[s]].session = s
  BY <1>1, <1>5 DEF TypeOK, Answer
<1> QED
  BY <1>2, <1>3, <1>4, <1>5 DEF TypeOK, Answer, Forget

\* Every step of the calls, of the engine and of owners and records keeps the types.
LEMMA TypeStep == ASSUME TypeOK, Shape, Queued, [Next]_vars PROVE TypeOK'
<1> USE DEF TypeOK
<1>1. ASSUME NEW i \in Inject, PassGate(i) PROVE TypeOK'
  <2>1. CASE Answer(i, "refused")
    BY <1>1, <2>1, AnswerTypes DEF PassGate, sessionVars, mailVars
  <2>2. CASE pc' = [pc EXCEPT ![i] = "queue"] /\ UNCHANGED answerVars
    <3>1. pc' \in [Inject -> PCs]
      BY <2>2 DEF PCs
    <3>2. pc[i] = "gate"
      BY <1>1 DEF PassGate
    <3>3. \A s \in Session : barrier[s] # i
      BY <3>2, BarrierFree
    <3>4. \A s \in Session : barrier[s] # NoInject =>
            pc'[barrier[s]] \in {"tick", "text", "submit"} /\ call[barrier[s]].session = s
      BY <2>2, <3>3
    <3> QED
      BY <1>1, <2>2, <3>1, <3>4 DEF PassGate, sessionVars, mailVars, answerVars, waitVars
  <2> QED
    BY <1>1, <2>1, <2>2 DEF PassGate
<1>2. ASSUME NEW i \in Inject, QueueTimeout(i) PROVE TypeOK'
  BY <1>2, AnswerTypes DEF QueueTimeout, sessionVars, mailVars
<1>3. ASSUME NEW i \in Inject, Admit(i) PROVE TypeOK'
  <2>1. CASE Answer(i, "refused") /\ UNCHANGED <<mail, inbox>>
    BY <1>3, <2>1, AnswerTypes DEF Admit, sessionVars
  <2>2. CASE Enqueued(i) /\ bound' = bound \cup {i}
             /\ barrier' = IF call[i].enter THEN [barrier EXCEPT ![call[i].session] = i] ELSE barrier
    <3>1. call[i] \in Call /\ pc[i] = "queue"
      BY <1>3 DEF Admit, Shape
    <3>2. inbox' \in [Name -> Seq(Inject)]
      BY <2>2, <3>1, AppendProperties DEF Enqueued, Call
    <3>3. barrier' \in [Session -> Inject \cup {NoInject}]
      BY <2>2, <3>1 DEF Call
    <3>4. ASSUME NEW s \in Session, barrier'[s] # NoInject
          PROVE  pc'[barrier'[s]] \in {"tick", "text", "submit"} /\ call'[barrier'[s]].session = s
      BY <1>3, <2>2, <3>1, <3>3, <3>4 DEF Admit, Enqueued, Call
    <3>5. pc' \in [Inject -> PCs] /\ mail' \in [Inject -> MailStates] /\ waiter' \in [Inject -> Waiters]
      BY <2>2 DEF Enqueued, PCs, MailStates, Waiters
    <3> QED
      BY <1>3, <2>2, <3>2, <3>3, <3>4, <3>5 DEF Admit, Enqueued, sessionVars
  <2> QED
    BY <1>3, <2>1, <2>2 DEF Admit
<1>4. ASSUME NEW i \in Inject, TickReturns(i) PROVE TypeOK'
  <2>1. CASE Answer(i, "uncertain")
    BY <1>4, <2>1, AnswerTypes DEF TickReturns, sessionVars, mailVars
  <2>2. CASE call[i].enter /\ pc' = [pc EXCEPT ![i] = "text"] /\ UNCHANGED answerVars
    BY <1>4, <2>2 DEF TickReturns, PCs, sessionVars, mailVars, answerVars, waitVars
  <2>3. CASE ~call[i].enter /\ pc' = [pc EXCEPT ![i] = "done"] /\ reply' = [reply EXCEPT ![i] = "success"]
             /\ UNCHANGED <<bound, barrier, waitVars>>
    <3>1. \A s \in Session : barrier[s] # i
      BY <2>3 DEF Shape
    <3> QED
      BY <1>4, <2>3, <3>1 DEF TickReturns, PCs, sessionVars, mailVars, waitVars
  <2> QED
    BY <1>4, <2>1, <2>2, <2>3 DEF TickReturns
<1>5. ASSUME NEW i \in Inject, WaiterTimeout(i) PROVE TypeOK'
  BY <1>5 DEF WaiterTimeout, Waiters, sessionVars, mailVars
<1>6. ASSUME NEW i \in Inject, TextWritten(i) PROVE TypeOK'
  BY <1>6 DEF TextWritten, Forget, PCs, Waiters, sessionVars, mailVars
<1>7. ASSUME NEW i \in Inject, TextUnsure(i) PROVE TypeOK'
  BY <1>7, AnswerTypes DEF TextUnsure, sessionVars, mailVars
<1>8. ASSUME NEW i \in Inject, TextLate(i) PROVE TypeOK'
  <2>1. PICK r \in {"refused", "uncertain"} : Answer(i, r)
    BY <1>8 DEF TextLate
  <2>2. faults' \in 0 .. MaxFaults
    BY <1>8 DEF TextLate, Fault
  <2>3. mail' \in [Inject -> MailStates] /\ inbox' \in [Name -> Seq(Inject)]
    <3>1. CASE Bury(i)
      <4>1. \A n \in Name : RemoveFirst(inbox[n], i) \in Seq(Inject)
        BY RemoveFirstLemma DEF Queued
      <4> QED
        BY <3>1, <4>1 DEF Bury, MailStates
    <3> QED
      BY <1>8, <3>1 DEF TextLate
  <2> QED
    BY <1>8, <2>1, <2>2, <2>3, AnswerTypes DEF TextLate, sessionVars
<1>9. ASSUME NEW i \in Inject, Submit(i) PROVE TypeOK'
  <2>1. wire' \in [Socket -> Seq(Frame)]
    BY <1>9, SendLemma DEF Submit, Deliverable
  <2>2. /\ pc' \in [Inject -> PCs] /\ textOwner' \in [Inject -> Socket \cup {NoSocket}]
        /\ barrier' \in [Session -> Inject \cup {NoInject}]
    BY <1>9 DEF Submit, SubmitEnds, ReleaseBarrier, PCs
  <2>3. \A s \in Session : barrier'[s] # NoInject => barrier'[s] = barrier[s] /\ barrier[s] # i
    BY <1>9 DEF Submit, SubmitEnds, ReleaseBarrier
  <2>4. \A s \in Session : barrier'[s] # NoInject =>
          pc'[barrier'[s]] \in {"tick", "text", "submit"} /\ call'[barrier'[s]].session = s
    BY <1>9, <2>3 DEF Submit, SubmitEnds
  <2> QED
    BY <1>9, <2>1, <2>2, <2>4 DEF Submit, sessionVars, mailVars
<1>10. ASSUME NEW i \in Inject, EnqueueRefused(i) PROVE TypeOK'
  BY <1>10, AnswerTypes DEF EnqueueRefused, Fault, sessionVars, mailVars
<1>11. ASSUME NEW i \in Inject, BackoffEnds(i) PROVE TypeOK'
  <2>1. call[i] \in Call
    BY <1>11 DEF BackoffEnds, Shape
  <2>2. inbox' \in [Name -> Seq(Inject)]
    BY <1>11, <2>1, AppendProperties DEF BackoffEnds, Call
  <2>3. mail' \in [Inject -> MailStates]
    BY <1>11 DEF BackoffEnds, Becomes, MailStates
  <2> QED
    BY <1>11, <2>2, <2>3 DEF BackoffEnds, sessionVars, waitVars
<1>12. ASSUME NEW i \in Inject, NEW n \in Name, Enter(i, n) PROVE TypeOK'
  <2>1. CASE Answer(i, "refused") /\ UNCHANGED call
    BY <1>12, <2>1, AnswerTypes DEF Enter, sessionVars, mailVars
  <2>2. CASE /\ Deliverable(registry[n])
             /\ \E e \in BOOLEAN :
                  call' = [call EXCEPT ![i] =
                    [name |-> n, session |-> registry[n], socket |-> owner[registry[n]], enter |-> e]]
             /\ pc' = [pc EXCEPT ![i] = "gate"] /\ UNCHANGED answerVars
    <3>1. registry[n] \in Session /\ owner[registry[n]] \in Socket
      BY <1>12, <2>2 DEF Enter, Deliverable
    <3>2. call' \in [Inject -> Call \cup {NoInject}] /\ pc' \in [Inject -> PCs]
      BY <2>2, <3>1 DEF Call, PCs
    <3>3. pc[i] = "new" /\ \A s \in Session : barrier[s] # i
      <4>1. pc[i] = "new"
        BY <1>12 DEF Enter
      <4> QED
        BY <4>1, BarrierFree
    <3>4. \A s \in Session : barrier'[s] # NoInject =>
            pc'[barrier'[s]] \in {"tick", "text", "submit"} /\ call'[barrier'[s]].session = s
      BY <2>2, <3>3 DEF answerVars
    <3> QED
      BY <1>12, <2>2, <3>2, <3>4 DEF Enter, answerVars, waitVars, sessionVars, mailVars
  <2> QED
    BY <1>12, <2>1, <2>2 DEF Enter
<1>13. ASSUME NEW n \in Name, Deliver(n) PROVE TypeOK'
  <2>1. PICK m \in Inject : /\ Dequeued(n, m) /\ Taken(n)
                            /\ DeliverGone(n, m) \/ DeliverText(n, m) \/ DeliverNothing(n, m)
    BY <1>13 DEF Deliver
  <2>2. inbox' \in [Name -> Seq(Inject)]
    BY <2>1, HeadTailProperties DEF Dequeued, Taken
  <2>3. waiter' \in [Inject -> Waiters] /\ failure' \in [Inject -> {"none", "zero", "other"}]
    <3>1. PICK state \in Waiters, why \in {"none", "zero", "other"} : Tell(m, state, why)
      BY <2>1 DEF DeliverGone, DeliverText, DeliverNothing, Waiters
    <3> QED
      BY <3>1 DEF Tell
  <2>4. mail' \in [Inject -> MailStates] /\ bound' \subseteq Inject /\ unsure' \subseteq Inject /\ faults' \in 0 .. MaxFaults
    <3>1. bound' \subseteq Inject
      BY <2>1 DEF DeliverGone, DeliverText, DeliverNothing
    <3>2. unsure' \subseteq Inject
      BY <2>1 DEF DeliverGone, DeliverText, DeliverNothing, TellTick
    <3>3. faults' \in 0 .. MaxFaults
      BY <2>1 DEF DeliverGone, DeliverText, DeliverNothing, Fault
    <3>4. PICK state \in {"dead", "fenced", "acked", "backoff"} : Becomes(m, state)
      BY <2>1 DEF DeliverGone, DeliverText, DeliverNothing
    <3>5. mail' \in [Inject -> MailStates]
      BY <3>4 DEF Becomes, MailStates
    <3> QED
      BY <3>1, <3>2, <3>3, <3>5
  <2>5. wire' \in [Socket -> Seq(Frame)] /\ textOwner' \in [Inject -> Socket \cup {NoSocket}]
    <3>1. CASE DeliverText(n, m)
      <4>1. owner[registry[n]] \in Socket
        BY <3>1 DEF DeliverText
      <4> QED
        BY <3>1, <4>1, SendLemma DEF DeliverText
    <3> QED
      BY <2>1, <3>1 DEF DeliverGone, DeliverNothing
  <2>6. attempt' \in [Inject -> 0 .. MaxRetries]
    <3>1. attempt[m] < MaxRetries
      <4>1. \E k \in DOMAIN inbox[n] : inbox[n][k] = m
        BY <2>1, HeadTailProperties DEF Dequeued
      <4> QED
        BY <4>1 DEF Queued, Shape
    <3> QED
      BY <2>1, <3>1 DEF DeliverGone, DeliverText, DeliverNothing
  <2> QED
    BY <1>13, <2>2, <2>3, <2>4, <2>5, <2>6 DEF Deliver, sessionVars
<1>14. ASSUME NEW n \in Name, ClaimOwner(n) PROVE TypeOK'
  BY <1>14 DEF ClaimOwner, NextOf, callVars, waitVars
<1>15. ASSUME NEW n \in Name, OwnerDisconnected(n) PROVE TypeOK'
  BY <1>15 DEF OwnerDisconnected, callVars, waitVars
<1>16. ASSUME NEW n \in Name, BeginClose(n) PROVE TypeOK'
  BY <1>16 DEF BeginClose, callVars, waitVars
<1>17. ASSUME NEW n \in Name, RemoveRecord(n) PROVE TypeOK'
  <2>1. mail' \in [Inject -> MailStates] /\ inbox' \in [Name -> Seq(Inject)] /\ faults' \in 0 .. MaxFaults
    <3>1. faults' \in 0 .. MaxFaults
      BY <1>17 DEF RemoveRecord, Fault
    <3>2. CASE UNCHANGED <<mail, inbox>>
      BY <3>1, <3>2
    <3>3. CASE /\ mail' = [i \in Inject |->
                             IF mail[i] # "none" /\ call[i].name = n THEN "purged" ELSE mail[i]]
               /\ inbox' = [inbox EXCEPT ![n] = <<>>]
      <4>1. mail' \in [Inject -> MailStates]
        BY <3>3 DEF MailStates
      <4>2. inbox' \in [Name -> Seq(Inject)]
        BY <3>3
      <4> QED
        BY <3>1, <4>1, <4>2
    <3> QED
      BY <1>17, <3>2, <3>3 DEF RemoveRecord
  <2>2. registry' \in [Name -> Session \cup {NoSession}] /\ closing' \subseteq Session /\ open' \subseteq Socket
    BY <1>17 DEF RemoveRecord
  <2> QED
    BY <1>17, <2>1, <2>2 DEF RemoveRecord, callVars, waitVars
<1>18. ASSUME NEW n \in Name, Register(n) PROVE TypeOK'
  BY <1>18 DEF Register, NextOf, callVars, waitVars
<1>19. ASSUME NEW n \in Name, NEW m \in Name, Rename(n, m) PROVE TypeOK'
  BY <1>19 DEF Rename, callVars, waitVars
<1>20. ASSUME NEW w \in Socket, SocketCloses(w) PROVE TypeOK'
  BY <1>20 DEF SocketCloses, callVars, waitVars
<1>21. CASE UNCHANGED vars
  BY <1>21 DEF vars
<1> QED
  BY <1>1, <1>2, <1>3, <1>4, <1>5, <1>6, <1>7, <1>8, <1>9, <1>10, <1>11, <1>12, <1>13,
     <1>14, <1>15, <1>16, <1>17, <1>18, <1>19, <1>20, <1>21 DEF Next, CallStep

-----------------------------------------------------------------------------
(* What a step does, call by call. *)

Same(j) == pc'[j] = pc[j] /\ reply'[j] = reply[j] /\ (j \in bound' <=> j \in bound)
Others(i) == \A j \in Inject \ {i} : Same(j) /\ mail'[j] = mail[j]

\* The call goes on or ends, and leaves its message alone.
Moves(i) ==
  /\ UNCHANGED <<call, mail, attempt, inbox, textOwner, wire>>
  /\ Others(i)
  /\ \A s \in Session : barrier'[s] \in {barrier[s], NoInject}
  /\ \/ Same(i)
     \/ /\ reply'[i] = reply[i] /\ (i \in bound' <=> i \in bound)
        /\ \/ pc[i] = "gate" /\ pc'[i] = "queue"
           \/ pc[i] = "tick" /\ pc'[i] = "text"
     \/ /\ reply'[i] = "success" /\ (i \in bound' <=> i \in bound)
        /\ \/ pc[i] = "tick" /\ pc'[i] = "done"
           \/ pc[i] = "text" /\ pc'[i] = "submit"
     \/ /\ pc'[i] = "done" /\ i \notin bound'
        /\ \/ pc[i] \in {"new", "gate", "queue"} /\ reply'[i] \in {"refused", "uncertain"}
           \/ pc[i] \in {"tick", "text"} /\ reply'[i] = "uncertain"

\* The call is let in, with what it captured.
LetIn(i) ==
  /\ UNCHANGED <<mail, attempt, inbox, textOwner, wire, barrier>>
  /\ Others(i)
  /\ pc[i] = "new" /\ pc'[i] = "gate" /\ reply'[i] = reply[i] /\ (i \in bound' <=> i \in bound)
  /\ call'[i] \in Call /\ \A j \in Inject \ {i} : call'[j] = call[j]
  /\ \A s \in Session : barrier[s] # i

Enqueues(i) ==
  /\ UNCHANGED <<call, attempt, textOwner, wire>>
  /\ Others(i)
  /\ pc[i] = "queue" /\ pc'[i] = "tick" /\ reply'[i] = reply[i] /\ i \in bound'
  /\ mail'[i] = "pending"
  /\ \A n \in Name : inbox'[n] = IF n = call[i].name THEN Append(inbox[n], i) ELSE inbox[n]
  /\ \A s \in Session : barrier'[s] = barrier[s] \/ (barrier'[s] = i /\ call[i].enter)

Lapses(i) ==
  /\ UNCHANGED <<call, attempt, textOwner, wire>>
  /\ Others(i)
  /\ pc[i] = "text" /\ pc'[i] = "done" /\ i \notin bound'
  /\ \A s \in Session : barrier'[s] \in {barrier[s], NoInject}
  /\ \/ /\ mail'[i] = "dead" /\ \A n \in Name : inbox'[n] = RemoveFirst(inbox[n], i)
        /\ \/ reply'[i] = "refused" /\ mail[i] \in {"pending", "backoff"}
           \/ reply'[i] = "uncertain" /\ mail[i] \in {"pending", "backoff", "fenced"}
     \/ /\ mail'[i] = mail[i] /\ UNCHANGED inbox
        /\ (reply'[i] = "refused" /\ mail[i] = "dead") \/ reply'[i] = "uncertain"

\* The engine takes message m of n: it fails, or its text goes to socket w, or it is put back.
Takes(n, m) ==
  /\ UNCHANGED <<call, pc, reply, barrier>>
  /\ Others(m)
  /\ \A j \in Inject \ {m} : attempt'[j] = attempt[j]
  /\ inbox[n] # <<>> /\ m = Head(inbox[n])
  /\ \A x \in Name : inbox'[x] = IF x = n THEN Tail(inbox[n]) ELSE inbox[x]
  /\ \/ mail'[m] \in {"dead", "fenced"} /\ UNCHANGED <<textOwner, wire>>
     \/ /\ mail'[m] = "backoff" /\ UNCHANGED <<textOwner, wire>>
        /\ attempt'[m] < MaxRetries /\ (m \in bound' <=> m \in bound)
     \/ /\ mail'[m] \in {"acked", "fenced"}
        /\ \E w \in Socket : /\ Send(w, m, "body") /\ (m \in bound => w = call[m].socket)
                             /\ textOwner'[m] \in {textOwner[m], w}
        /\ \A j \in Inject \ {m} : textOwner'[j] = textOwner[j]

Submits(i) ==
  /\ UNCHANGED <<call, reply, bound, mail, attempt, inbox>>
  /\ Others(i)
  /\ pc[i] = "submit" /\ pc'[i] = "done" /\ textOwner'[i] = NoSocket
  /\ \A j \in Inject \ {i} : textOwner'[j] = textOwner[j]
  /\ \A s \in Session : barrier'[s] \in {barrier[s], NoInject}
  /\ UNCHANGED wire \/ \E w \in Socket : w = textOwner[i] /\ Send(w, i, "submit")

Requeues(i) ==
  /\ UNCHANGED <<call, pc, reply, bound, attempt, barrier, textOwner, wire>>
  /\ mail[i] = "backoff" /\ mail'[i] = "pending"
  /\ \A j \in Inject \ {i} : mail'[j] = mail[j]
  /\ \A n \in Name : inbox'[n] = IF n = call[i].name THEN Append(inbox[n], i) ELSE inbox[n]

Purges(n) ==
  /\ UNCHANGED <<call, pc, reply, bound, attempt, barrier, textOwner, wire>>
  /\ \/ /\ \A i \in Inject :
             mail'[i] = IF mail[i] # "none" /\ call[i].name = n THEN "purged" ELSE mail[i]
        /\ \A x \in Name : inbox'[x] = IF x = n THEN <<>> ELSE inbox[x]
     \/ UNCHANGED <<mail, inbox>>

\* What the end of a call changes.
LEMMA AnswerEffect ==
  ASSUME TypeOK, NEW i \in Inject, NEW r \in {"success", "refused", "uncertain"}, Answer(i, r)
  PROVE  /\ pc'[i] = "done" /\ reply'[i] = r /\ i \notin bound' /\ UNCHANGED textOwner
         /\ \A j \in Inject \ {i} : Same(j)
         /\ \A s \in Session : barrier'[s] \in {barrier[s], NoInject}
BY DEF TypeOK, Answer, Forget, ReleaseBarrier, Same

\* The steps of a call that leave its message alone.
LEMMA MovesEffect ==
  ASSUME TypeOK, NEW i \in Inject,
         \/ PassGate(i) \/ QueueTimeout(i) \/ TickReturns(i) \/ WaiterTimeout(i)
         \/ TextWritten(i) \/ TextUnsure(i) \/ EnqueueRefused(i)
  PROVE  Moves(i)
<1> USE DEF Moves, Others, Same, sessionVars, mailVars, waitVars, answerVars
<1>1. CASE PassGate(i)
  <2>1. CASE Answer(i, "refused")
    BY <1>1, <2>1, AnswerEffect DEF PassGate
  <2>2. CASE pc' = [pc EXCEPT ![i] = "queue"] /\ UNCHANGED answerVars
    BY <1>1, <2>2 DEF PassGate, TypeOK
  <2> QED
    BY <1>1, <2>1, <2>2 DEF PassGate
<1>2. CASE QueueTimeout(i)
  BY <1>2, AnswerEffect DEF QueueTimeout
<1>3. CASE TickReturns(i)
  <2>1. CASE Answer(i, "uncertain")
    BY <1>3, <2>1, AnswerEffect DEF TickReturns
  <2>2. CASE pc' = [pc EXCEPT ![i] = "text"] /\ UNCHANGED answerVars
    BY <1>3, <2>2 DEF TickReturns, TypeOK
  <2>3. CASE /\ pc' = [pc EXCEPT ![i] = "done"] /\ reply' = [reply EXCEPT ![i] = "success"]
             /\ UNCHANGED <<bound, barrier, waitVars>>
    BY <1>3, <2>3 DEF TickReturns, TypeOK
  <2> QED
    BY <1>3, <2>1, <2>2, <2>3 DEF TickReturns
<1>4. CASE WaiterTimeout(i)
  BY <1>4 DEF WaiterTimeout
<1>5. CASE TextWritten(i)
  BY <1>5 DEF TextWritten, TypeOK
<1>6. CASE TextUnsure(i)
  BY <1>6, AnswerEffect DEF TextUnsure
<1>7. CASE EnqueueRefused(i)
  BY <1>7, AnswerEffect DEF EnqueueRefused
<1> QED
  BY <1>1, <1>2, <1>3, <1>4, <1>5, <1>6, <1>7

\* A call enters, or is refused at once.
LEMMA EnterEffect ==
  ASSUME TypeOK, NEW i \in Inject, NEW n \in Name, Enter(i, n)
  PROVE  Moves(i) \/ LetIn(i)
<1> USE DEF Others, Same, sessionVars, mailVars, waitVars, answerVars
<1>1. CASE Answer(i, "refused") /\ UNCHANGED call
  BY <1>1, AnswerEffect DEF Enter, Moves
<1>2. CASE /\ Deliverable(registry[n])
           /\ \E e \in BOOLEAN :
                call' = [call EXCEPT ![i] =
                  [name |-> n, session |-> registry[n], socket |-> owner[registry[n]], enter |-> e]]
           /\ pc' = [pc EXCEPT ![i] = "gate"] /\ UNCHANGED answerVars
  <2>1. pc[i] = "new" /\ \A s \in Session : barrier[s] # i
    <3>1. pc[i] = "new"
      BY DEF Enter
    <3> QED
      BY <3>1, BarrierFree
  <2>2. registry[n] \in Session /\ owner[registry[n]] \in Socket
    BY <1>2 DEF Enter, Deliverable, TypeOK
  <2>3. call'[i] \in Call /\ \A j \in Inject \ {i} : call'[j] = call[j]
    BY <1>2, <2>2 DEF TypeOK, Call
  <2>4. pc'[i] = "gate" /\ \A j \in Inject \ {i} : pc'[j] = pc[j]
    BY <1>2 DEF TypeOK
  <2> QED
    BY <1>2, <2>1, <2>3, <2>4 DEF Enter, LetIn
<1> QED
  BY <1>1, <1>2 DEF Enter

\* A call is admitted and enqueues its text, or is refused.
LEMMA AdmitEffect ==
  ASSUME TypeOK, NEW i \in Inject, Admit(i)
  PROVE  Moves(i) \/ Enqueues(i)
<1> USE DEF Others, Same, sessionVars
<1>1. CASE Answer(i, "refused") /\ UNCHANGED <<mail, inbox>>
  BY <1>1, AnswerEffect DEF Admit, Moves
<1>2. CASE /\ Enqueued(i) /\ bound' = bound \cup {i}
           /\ barrier' = IF call[i].enter THEN [barrier EXCEPT ![call[i].session] = i] ELSE barrier
  <2>1. pc'[i] = "tick" /\ \A j \in Inject \ {i} : pc'[j] = pc[j]
    BY <1>2 DEF Enqueued, TypeOK
  <2>2. mail'[i] = "pending" /\ \A j \in Inject \ {i} : mail'[j] = mail[j]
    BY <1>2 DEF Enqueued, TypeOK
  <2>3. \A n \in Name : inbox'[n] = IF n = call[i].name THEN Append(inbox[n], i) ELSE inbox[n]
    BY <1>2 DEF Enqueued, TypeOK
  <2>4. \A s \in Session : barrier'[s] = barrier[s] \/ (barrier'[s] = i /\ call[i].enter)
    BY <1>2 DEF TypeOK
  <2> QED
    BY <1>2, <2>1, <2>2, <2>3, <2>4 DEF Admit, Enqueued, Enqueues
<1> QED
  BY <1>1, <1>2 DEF Admit

\* A text that was not written in time.
LEMMA LateEffect ==
  ASSUME TypeOK, NEW i \in Inject, TextLate(i)
  PROVE  Lapses(i)
<1>1. PICK r \in {"refused", "uncertain"} :
        /\ Answer(i, r)
        /\ \/ r = "refused" /\ mail[i] \in {"pending", "backoff"} /\ Bury(i)
           \/ r = "uncertain" /\ mail[i] \in {"pending", "backoff", "fenced"} /\ Bury(i)
           \/ r = "refused" /\ mail[i] = "dead" /\ UNCHANGED <<mail, inbox>>
           \/ r = "uncertain" /\ UNCHANGED <<mail, inbox>>
  BY DEF TextLate, Withdrawable
<1>2. /\ pc'[i] = "done" /\ reply'[i] = r /\ i \notin bound' /\ UNCHANGED textOwner
      /\ \A j \in Inject \ {i} : Same(j)
      /\ \A s \in Session : barrier'[s] \in {barrier[s], NoInject}
  BY <1>1, AnswerEffect
<1>3. Bury(i) => /\ mail'[i] = "dead" /\ \A j \in Inject \ {i} : mail'[j] = mail[j]
                 /\ \A n \in Name : inbox'[n] = RemoveFirst(inbox[n], i)
  BY DEF Bury, TypeOK
<1> HIDE DEF Bury
<1>4. pc[i] = "text" /\ UNCHANGED <<call, attempt, wire>>
  BY DEF TextLate
<1> QED
  BY <1>1, <1>2, <1>3, <1>4 DEF Lapses, Others

\* A tick of the engine.
LEMMA DeliverEffect ==
  ASSUME TypeOK, NEW n \in Name, Deliver(n)
  PROVE  \E m \in Inject : Takes(n, m)
<1>1. PICK m \in Inject : /\ Dequeued(n, m) /\ Taken(n)
                          /\ DeliverGone(n, m) \/ DeliverText(n, m) \/ DeliverNothing(n, m)
  BY DEF Deliver
<1>2. \A x \in Name : inbox'[x] = IF x = n THEN Tail(inbox[n]) ELSE inbox[x]
  BY <1>1 DEF Taken, TypeOK
<1>3. \A j \in Inject \ {m} : mail'[j] = mail[j] /\ (j \in bound' <=> j \in bound)
  BY <1>1 DEF DeliverGone, DeliverText, DeliverNothing, Becomes, TypeOK
<1>4. \A j \in Inject \ {m} : attempt'[j] = attempt[j]
  BY <1>1 DEF DeliverGone, DeliverText, DeliverNothing, TypeOK
<1>5. /\ UNCHANGED <<call, pc, reply, barrier>> /\ Others(m)
      /\ inbox[n] # <<>> /\ m = Head(inbox[n])
  BY <1>1, <1>3 DEF Deliver, Dequeued, Others, Same
<1>6. CASE DeliverGone(n, m)
  <2>1. mail'[m] \in {"dead", "fenced"}
    BY <1>6 DEF DeliverGone, Becomes, TypeOK
  <2> QED
    BY <1>2, <1>4, <1>5, <1>6, <2>1 DEF DeliverGone, Takes
<1>7. CASE DeliverText(n, m)
  <2>1. owner[registry[n]] \in Socket
    BY <1>7 DEF DeliverText, TypeOK
  <2>2. mail'[m] \in {"acked", "fenced"}
    BY <1>7 DEF DeliverText, Becomes, TypeOK
  <2>3. /\ textOwner'[m] \in {textOwner[m], owner[registry[n]]}
        /\ \A j \in Inject \ {m} : textOwner'[j] = textOwner[j]
    BY <1>7 DEF DeliverText, TypeOK
  <2>4. Send(owner[registry[n]], m, "body") /\ (m \in bound => owner[registry[n]] = call[m].socket)
    BY <1>7 DEF DeliverText, Misdirected
  <2> QED
    BY <1>2, <1>4, <1>5, <2>1, <2>2, <2>3, <2>4 DEF Takes
<1>8. CASE DeliverNothing(n, m)
  <2>1. UNCHANGED <<textOwner, wire>>
    BY <1>8 DEF DeliverNothing
  <2>2. CASE Becomes(m, "dead") \/ Becomes(m, "fenced")
    <3>1. mail'[m] \in {"dead", "fenced"}
      BY <2>2 DEF Becomes, TypeOK
    <3> QED
      BY <1>2, <1>4, <1>5, <2>1, <3>1 DEF Takes
  <2>3. CASE /\ Becomes(m, "backoff") /\ UNCHANGED bound /\ ~(attempt[m] + 1 >= MaxRetries)
             /\ attempt' = [attempt EXCEPT ![m] = @ + 1]
    <3>1. mail'[m] = "backoff" /\ attempt'[m] < MaxRetries
      BY <2>3 DEF Becomes, TypeOK
    <3> QED
      BY <1>2, <1>4, <1>5, <2>1, <2>3, <3>1 DEF Takes
  <2> QED
    BY <1>8, <2>2, <2>3 DEF DeliverNothing
<1> QED
  BY <1>1, <1>6, <1>7, <1>8

\* What a submit timer, the end of a backoff and the removal of a record change.
LEMMA SubmitEffect ==
  ASSUME TypeOK, NEW i \in Inject, Submit(i)
  PROVE  Submits(i)
<1>1. pc'[i] = "done" /\ textOwner'[i] = NoSocket
      /\ \A j \in Inject \ {i} : pc'[j] = pc[j] /\ textOwner'[j] = textOwner[j]
  BY DEF Submit, SubmitEnds, TypeOK
<1>2. \A s \in Session : barrier'[s] \in {barrier[s], NoInject}
  BY DEF Submit, SubmitEnds, ReleaseBarrier, TypeOK
<1>3. UNCHANGED wire \/ \E w \in Socket : w = textOwner[i] /\ Send(w, i, "submit")
  BY DEF Submit, Deliverable, TypeOK
<1> QED
  BY <1>1, <1>2, <1>3 DEF Submit, mailVars, Submits, Others, Same

\* A message that waited out its backoff is back in the inbox of its name.
LEMMA BackoffEffect ==
  ASSUME TypeOK, NEW i \in Inject, BackoffEnds(i)
  PROVE  Requeues(i)
<1>1. mail'[i] = "pending" /\ \A j \in Inject \ {i} : mail'[j] = mail[j]
  BY DEF BackoffEnds, Becomes, TypeOK
<1>2. \A n \in Name : inbox'[n] = IF n = call[i].name THEN Append(inbox[n], i) ELSE inbox[n]
  BY DEF BackoffEnds, TypeOK
<1> QED
  BY <1>1, <1>2 DEF BackoffEnds, waitVars, Requeues

\* The messages of a removed record are purged, or stay.
LEMMA RemoveEffect ==
  ASSUME TypeOK, NEW n \in Name, RemoveRecord(n)
  PROVE  Purges(n)
<1>1. UNCHANGED <<call, pc, reply, bound, attempt, barrier, textOwner, wire>>
  BY DEF RemoveRecord, callVars, waitVars
<1>2. CASE UNCHANGED <<mail, inbox>>
  BY <1>1, <1>2 DEF Purges
<1>3. CASE /\ mail' = [i \in Inject |->
                         IF mail[i] # "none" /\ call[i].name = n THEN "purged" ELSE mail[i]]
           /\ inbox' = [inbox EXCEPT ![n] = <<>>]
  BY <1>1, <1>3 DEF Purges, TypeOK
<1> QED
  BY <1>2, <1>3 DEF RemoveRecord

\* A step is one of these, or leaves calls and messages alone.
LEMMA StepEffects ==
  ASSUME TypeOK, [Next]_vars
  PROVE  \/ \E i \in Inject : \/ Moves(i) \/ LetIn(i) \/ Enqueues(i) \/ Lapses(i)
                              \/ Submits(i) \/ Requeues(i)
         \/ \E n \in Name, m \in Inject : Takes(n, m)
         \/ \E n \in Name : Purges(n)
         \/ UNCHANGED <<callVars, mail, inbox>>
<1>1. ASSUME NEW i \in Inject, CallStep(i) \/ EnqueueRefused(i) \/ BackoffEnds(i)
      PROVE  Moves(i) \/ Enqueues(i) \/ Lapses(i) \/ Submits(i) \/ Requeues(i)
  BY <1>1, MovesEffect, AdmitEffect, LateEffect, SubmitEffect, BackoffEffect DEF CallStep
<1>2. ASSUME NEW n \in Name,
             \/ ClaimOwner(n) \/ OwnerDisconnected(n) \/ BeginClose(n) \/ Register(n)
             \/ \E m \in Name : Rename(n, m)
      PROVE  UNCHANGED <<callVars, mail, inbox>>
  BY <1>2 DEF ClaimOwner, OwnerDisconnected, BeginClose, Register, Rename
<1>3. ASSUME NEW w \in Socket, SocketCloses(w) PROVE UNCHANGED <<callVars, mail, inbox>>
  BY <1>3 DEF SocketCloses
<1>4. CASE UNCHANGED vars
  BY <1>4 DEF vars, callVars, waitVars
<1> QED
  BY <1>1, <1>2, <1>3, <1>4, EnterEffect, DeliverEffect, RemoveEffect DEF Next

-----------------------------------------------------------------------------
(* The other conjuncts of the invariant, a lemma each. *)

\* The message at the head of an inbox is pending, of that name, and not in any inbox afterwards.
LEMMA HeadLemma ==
  ASSUME TypeOK, Queued, NEW n \in Name, inbox[n] # <<>>
  PROVE  Head(inbox[n]) \in Inject /\ mail[Head(inbox[n])] = "pending" /\ call[Head(inbox[n])].name = n
BY TailLemma DEF TypeOK, Queued

\* A call, its message and its answer stay in step.
LEMMA ShapeStep ==
  ASSUME TypeOK, Shape, Queued, [Next]_vars
  PROVE  Shape'
<1> USE DEF Shape, Others, Same
<1>1. ASSUME NEW i \in Inject, Moves(i) PROVE Shape'
  BY <1>1 DEF Moves
<1>2. ASSUME NEW i \in Inject, LetIn(i) PROVE Shape'
  BY <1>2 DEF LetIn
<1>3. ASSUME NEW i \in Inject, Enqueues(i) PROVE Shape'
  BY <1>3 DEF Enqueues
<1>4. ASSUME NEW i \in Inject, Lapses(i) PROVE Shape'
  BY <1>4 DEF Lapses
<1>5. ASSUME NEW i \in Inject, Submits(i) PROVE Shape'
  BY <1>5 DEF Submits
<1>6. ASSUME NEW i \in Inject, Requeues(i) PROVE Shape'
  BY <1>6 DEF Requeues
<1>7. ASSUME NEW n \in Name, NEW m \in Inject, Takes(n, m) PROVE Shape'
  <2>1. /\ mail[m] = "pending" /\ \A j \in Inject \ {m} : mail'[j] = mail[j] /\ attempt'[j] = attempt[j]
        /\ UNCHANGED <<call, pc, reply, barrier>>
    BY <1>7, HeadLemma DEF Takes
  <2>2. mail'[m] \in {"dead", "fenced", "acked"} \/ (mail'[m] = "backoff" /\ attempt'[m] < MaxRetries)
    BY <1>7 DEF Takes
  <2> QED
    BY <2>1, <2>2
<1>8. ASSUME NEW n \in Name, Purges(n) PROVE Shape'
  BY <1>8 DEF Purges
<1>9. CASE UNCHANGED <<callVars, mail, inbox>>
  BY <1>9 DEF callVars, waitVars
<1> QED
  BY StepEffects, <1>1, <1>2, <1>3, <1>4, <1>5, <1>6, <1>7, <1>8, <1>9

\* A message to be delivered stays bound while its call does not end in doubt.
LEMMA BoundStep ==
  ASSUME TypeOK, Shape, Queued, StillBound, [Next]_vars
  PROVE  StillBound'
<1> USE DEF StillBound, Others, Same
<1>1. ASSUME NEW i \in Inject, Moves(i) PROVE StillBound'
  BY <1>1 DEF Moves, Shape
<1>2. ASSUME NEW i \in Inject, LetIn(i) PROVE StillBound'
  BY <1>2 DEF LetIn
<1>3. ASSUME NEW i \in Inject, Enqueues(i) PROVE StillBound'
  BY <1>3 DEF Enqueues
<1>4. ASSUME NEW i \in Inject, Lapses(i) PROVE StillBound'
  BY <1>4 DEF Lapses
<1>5. ASSUME NEW i \in Inject, Submits(i) PROVE StillBound'
  BY <1>5 DEF Submits
<1>6. ASSUME NEW i \in Inject, Requeues(i) PROVE StillBound'
  BY <1>6 DEF Requeues
<1>7. ASSUME NEW n \in Name, NEW m \in Inject, Takes(n, m) PROVE StillBound'
  <2>1. /\ mail[m] = "pending" /\ \A j \in Inject \ {m} : mail'[j] = mail[j] /\ (j \in bound' <=> j \in bound)
        /\ UNCHANGED reply
    BY <1>7, HeadLemma DEF Takes
  <2>2. mail'[m] \in {"dead", "fenced", "acked"} \/ (mail'[m] = "backoff" /\ (m \in bound' <=> m \in bound))
    BY <1>7 DEF Takes
  <2> QED
    BY <2>1, <2>2
<1>8. ASSUME NEW n \in Name, Purges(n) PROVE StillBound'
  BY <1>8 DEF Purges
<1>9. CASE UNCHANGED <<callVars, mail, inbox>>
  BY <1>9 DEF callVars, waitVars
<1> QED
  BY StepEffects, <1>1, <1>2, <1>3, <1>4, <1>5, <1>6, <1>7, <1>8, <1>9

\* A refused call stays over, and its message dead.
LEMMA TruthStep ==
  ASSUME TypeOK, Shape, Queued, Truthful, [Next]_vars
  PROVE  Truthful'
<1> USE DEF Truthful, Others, Same
<1>1. ASSUME NEW i \in Inject, Moves(i) PROVE Truthful'
  BY <1>1 DEF Moves, Shape
<1>2. ASSUME NEW i \in Inject, LetIn(i) PROVE Truthful'
  BY <1>2 DEF LetIn
<1>3. ASSUME NEW i \in Inject, Enqueues(i) PROVE Truthful'
  BY <1>3 DEF Enqueues
<1>4. ASSUME NEW i \in Inject, Lapses(i) PROVE Truthful'
  BY <1>4 DEF Lapses
<1>5. ASSUME NEW i \in Inject, Submits(i) PROVE Truthful'
  BY <1>5 DEF Submits
<1>6. ASSUME NEW i \in Inject, Requeues(i) PROVE Truthful'
  BY <1>6 DEF Requeues
<1>7. ASSUME NEW n \in Name, NEW m \in Inject, Takes(n, m) PROVE Truthful'
  <2>1. mail[m] = "pending" /\ UNCHANGED <<pc, reply>> /\ \A j \in Inject \ {m} : mail'[j] = mail[j]
    BY <1>7, HeadLemma DEF Takes
  <2> QED
    BY <2>1
<1>8. ASSUME NEW n \in Name, Purges(n) PROVE Truthful'
  BY <1>8 DEF Purges
<1>9. CASE UNCHANGED <<callVars, mail, inbox>>
  BY <1>9 DEF callVars, waitVars
<1> QED
  BY StepEffects, <1>1, <1>2, <1>3, <1>4, <1>5, <1>6, <1>7, <1>8, <1>9

\* An inbox holds the pending messages of its name, each once.
LEMMA QueueStep ==
  ASSUME TypeOK, Shape, Queued, [Next]_vars
  PROVE  Queued'
<1> USE DEF Queued, Others, Same
<1>0. \A n \in Name : inbox[n] \in Seq(Inject) /\ \A k \in DOMAIN inbox[n] : inbox[n][k] \in Inject
  BY DEF TypeOK
<1>1. ASSUME NEW i \in Inject, mail[i] # "pending", mail'[i] = "pending", UNCHANGED call,
             \A j \in Inject \ {i} : mail'[j] = mail[j],
             \A n \in Name : inbox'[n] = IF n = call[i].name THEN Append(inbox[n], i) ELSE inbox[n]
      PROVE  Queued'
  <2> SUFFICES ASSUME NEW n \in Name
               PROVE  /\ OnceEach(inbox'[n])
                      /\ \A k \in DOMAIN inbox'[n] :
                           mail'[inbox'[n][k]] = "pending" /\ call'[inbox'[n][k]].name = n
    OBVIOUS
  <2>1. \A k \in DOMAIN inbox[n] : inbox[n][k] # i
    BY <1>1
  <2>2. CASE n # call[i].name
    <3>1. inbox'[n] = inbox[n]
      BY <1>1, <2>2
    <3> QED
      BY <1>0, <1>1, <2>1, <3>1
  <2>3. CASE n = call[i].name
    <3>1. inbox'[n] = Append(inbox[n], i)
      BY <1>1, <2>3
    <3>2. /\ OnceEach(inbox'[n])
          /\ \A k \in DOMAIN inbox'[n] : inbox'[n][k] = i \/ \E j \in DOMAIN inbox[n] : inbox'[n][k] = inbox[n][j]
      BY <1>0, <2>1, <3>1, AppendLemma
    <3> QED
      BY <1>0, <1>1, <2>3, <3>2
  <2> QED
    BY <2>2, <2>3
<1>2. ASSUME NEW i \in Inject, Moves(i) PROVE Queued'
  BY <1>2 DEF Moves
<1>3. ASSUME NEW i \in Inject, LetIn(i) PROVE Queued'
  <2>1. UNCHANGED <<mail, inbox>> /\ pc[i] = "new" /\ \A j \in Inject \ {i} : call'[j] = call[j]
    BY <1>3 DEF LetIn
  <2>2. mail[i] = "none"
    BY <2>1 DEF Shape
  <2> QED
    BY <1>0, <2>1, <2>2
<1>4. ASSUME NEW i \in Inject, Enqueues(i) PROVE Queued'
  <2>1. /\ mail[i] = "none" /\ mail'[i] = "pending" /\ UNCHANGED call
        /\ \A j \in Inject \ {i} : mail'[j] = mail[j]
        /\ \A n \in Name : inbox'[n] = IF n = call[i].name THEN Append(inbox[n], i) ELSE inbox[n]
    BY <1>4 DEF Enqueues, Shape
  <2> QED
    BY <1>1, <2>1
<1>5. ASSUME NEW i \in Inject, Lapses(i) PROVE Queued'
  <2>1. CASE UNCHANGED <<inbox, call>> /\ \A j \in Inject : mail'[j] = mail[j]
    BY <1>0, <2>1
  <2>2. CASE /\ \A n \in Name : inbox'[n] = RemoveFirst(inbox[n], i)
             /\ UNCHANGED call /\ \A j \in Inject \ {i} : mail'[j] = mail[j]
    <3> SUFFICES ASSUME NEW n \in Name
                 PROVE  /\ OnceEach(inbox'[n])
                        /\ \A k \in DOMAIN inbox'[n] :
                             mail'[inbox'[n][k]] = "pending" /\ call'[inbox'[n][k]].name = n
      OBVIOUS
    <3>1. /\ OnceEach(inbox'[n])
          /\ \A k \in DOMAIN inbox'[n] : inbox'[n][k] # i /\ \E j \in DOMAIN inbox[n] : inbox'[n][k] = inbox[n][j]
      BY <1>0, <2>2, RemoveFirstLemma
    <3> QED
      BY <1>0, <2>2, <3>1
  <2> QED
    BY <1>5, <2>1, <2>2 DEF Lapses
<1>6. ASSUME NEW i \in Inject, Submits(i) PROVE Queued'
  BY <1>6 DEF Submits
<1>7. ASSUME NEW i \in Inject, Requeues(i) PROVE Queued'
  <2>1. /\ mail[i] = "backoff" /\ mail'[i] = "pending" /\ UNCHANGED call
        /\ \A j \in Inject \ {i} : mail'[j] = mail[j]
        /\ \A n \in Name : inbox'[n] = IF n = call[i].name THEN Append(inbox[n], i) ELSE inbox[n]
    BY <1>7 DEF Requeues
  <2> QED
    BY <1>1, <2>1
<1>8. ASSUME NEW n \in Name, NEW m \in Inject, Takes(n, m) PROVE Queued'
  <2>1. /\ mail[m] = "pending" /\ call[m].name = n /\ UNCHANGED call
        /\ \A j \in Inject \ {m} : mail'[j] = mail[j]
        /\ inbox[n] # <<>> /\ m = Head(inbox[n])
        /\ \A x \in Name : inbox'[x] = IF x = n THEN Tail(inbox[n]) ELSE inbox[x]
    BY <1>8, HeadLemma DEF Takes
  <2>2. ASSUME NEW x \in Name
        PROVE  /\ OnceEach(inbox'[x])
               /\ \A k \in DOMAIN inbox'[x] :
                    mail'[inbox'[x][k]] = "pending" /\ call'[inbox'[x][k]].name = x
    <3>1. CASE x = n
      <4>1. /\ OnceEach(Tail(inbox[n]))
            /\ \A k \in DOMAIN Tail(inbox[n]) :
                 Tail(inbox[n])[k] # m /\ \E j \in DOMAIN inbox[n] : Tail(inbox[n])[k] = inbox[n][j]
        <5>1. inbox[n] \in Seq(Inject) /\ inbox[n] # <<>> /\ OnceEach(inbox[n]) /\ m = Head(inbox[n])
          BY <1>0, <2>1
        <5> QED
          BY <5>1, TailLemma
      <4>2. inbox'[x] = Tail(inbox[n])
        BY <2>1, <3>1
      <4>3. ASSUME NEW k \in DOMAIN inbox'[x]
            PROVE  mail'[inbox'[x][k]] = "pending" /\ call'[inbox'[x][k]].name = x
        <5>1. PICK j \in DOMAIN inbox[n] : inbox'[x][k] = inbox[n][j] /\ inbox[n][j] # m
          BY <4>1, <4>2, <4>3
        <5>2. inbox[n][j] \in Inject /\ mail[inbox[n][j]] = "pending" /\ call[inbox[n][j]].name = n
          BY <1>0
        <5> QED
          BY <2>1, <3>1, <5>1, <5>2
      <4> QED
        BY <4>1, <4>2, <4>3
    <3>2. CASE x # n
      <4>1. inbox'[x] = inbox[x] /\ \A k \in DOMAIN inbox[x] : inbox[x][k] # m
        BY <2>1, <3>2
      <4> QED
        BY <1>0, <2>1, <4>1
    <3> QED
      BY <3>1, <3>2
  <2> QED
    BY <2>2
<1>9. ASSUME NEW n \in Name, Purges(n) PROVE Queued'
  <2>1. CASE UNCHANGED <<mail, inbox>>
    BY <1>9, <2>1 DEF Purges
  <2>2. CASE /\ \A i \in Inject :
                  mail'[i] = IF mail[i] # "none" /\ call[i].name = n THEN "purged" ELSE mail[i]
             /\ \A x \in Name : inbox'[x] = IF x = n THEN <<>> ELSE inbox[x]
    <3>1. OnceEach(<<>>) /\ DOMAIN <<>> = {}
      BY DEF OnceEach
    <3>2. UNCHANGED call
      BY <1>9 DEF Purges
    <3> QED
      BY <1>0, <2>2, <3>1, <3>2
  <2> QED
    BY <1>9, <2>1, <2>2 DEF Purges
<1>10. CASE UNCHANGED <<callVars, mail, inbox>>
  BY <1>10 DEF callVars, waitVars
<1> QED
  BY StepEffects, <1>2, <1>3, <1>4, <1>5, <1>6, <1>7, <1>8, <1>9, <1>10

\* What is sent while nothing is written is what was sent.
LEMMA SentSame ==
  ASSUME wire' = wire
  PROVE  \A w \in Socket, i \in Inject, x \in {"body", "submit"} : Sent(w, i, x)' <=> Sent(w, i, x)
BY DEF Sent

\* A message whose text was written is not delivered again.
LEMMA BodyStep ==
  ASSUME TypeOK, Shape, Queued, BodySent, [Next]_vars
  PROVE  BodySent'
<1> USE DEF BodySent, Others, Same
<1>1. ASSUME NEW i \in Inject, Moves(i) PROVE BodySent'
  BY <1>1, SentSame DEF Moves, Shape
<1>2. ASSUME NEW i \in Inject, LetIn(i) PROVE BodySent'
  BY <1>2, SentSame DEF LetIn
<1>3. ASSUME NEW i \in Inject, Enqueues(i) PROVE BodySent'
  BY <1>3, SentSame DEF Enqueues, Shape
<1>4. ASSUME NEW i \in Inject, Lapses(i) PROVE BodySent'
  BY <1>4, SentSame DEF Lapses, Shape
<1>5. ASSUME NEW i \in Inject, Submits(i) PROVE BodySent'
  <2>1. UNCHANGED <<mail, reply>>
    BY <1>5 DEF Submits
  <2>2. \A v \in Socket, j \in Inject : Sent(v, j, "body")' <=> Sent(v, j, "body")
    BY <1>5, SentLemma, SentSame DEF Submits, TypeOK
  <2> QED
    BY <2>1, <2>2
<1>6. ASSUME NEW i \in Inject, Requeues(i) PROVE BodySent'
  BY <1>6, SentSame DEF Requeues
<1>7. ASSUME NEW n \in Name, NEW m \in Inject, Takes(n, m) PROVE BodySent'
  <2>1. mail[m] = "pending" /\ UNCHANGED reply /\ \A j \in Inject \ {m} : mail'[j] = mail[j]
    BY <1>7, HeadLemma DEF Takes
  <2>2. \A w \in Socket : ~Sent(w, m, "body")
    BY <2>1
  <2>3. CASE UNCHANGED wire
    BY <2>1, <2>2, <2>3, SentSame
  <2>4. CASE mail'[m] \in {"acked", "fenced"} /\ \E w \in Socket : Send(w, m, "body")
    <3>1. PICK w \in Socket : Send(w, m, "body")
      BY <2>4
    <3>2. \A v \in Socket, j \in Inject : Sent(v, j, "body")' <=> Sent(v, j, "body") \/ (v = w /\ j = m)
      BY <3>1, SentLemma DEF TypeOK
    <3> QED
      BY <2>1, <2>2, <2>4, <3>2
  <2> QED
    BY <1>7, <2>3, <2>4 DEF Takes
<1>8. ASSUME NEW n \in Name, Purges(n) PROVE BodySent'
  BY <1>8, SentSame DEF Purges
<1>9. CASE UNCHANGED <<callVars, mail, inbox>>
  BY <1>9, SentSame DEF callVars
<1> QED
  BY StepEffects, <1>1, <1>2, <1>3, <1>4, <1>5, <1>6, <1>7, <1>8, <1>9

\* A call whose return was written is over.
LEMMA SubmitStep ==
  ASSUME TypeOK, Shape, Queued, SubmitSent, [Next]_vars
  PROVE  SubmitSent'
<1> USE DEF SubmitSent, Others, Same
<1>1. ASSUME NEW i \in Inject, Moves(i) PROVE SubmitSent'
  BY <1>1, SentSame DEF Moves
<1>2. ASSUME NEW i \in Inject, LetIn(i) PROVE SubmitSent'
  BY <1>2, SentSame DEF LetIn
<1>3. ASSUME NEW i \in Inject, Enqueues(i) PROVE SubmitSent'
  BY <1>3, SentSame DEF Enqueues
<1>4. ASSUME NEW i \in Inject, Lapses(i) PROVE SubmitSent'
  BY <1>4, SentSame DEF Lapses
<1>5. ASSUME NEW i \in Inject, Submits(i) PROVE SubmitSent'
  <2>1. pc'[i] = "done" /\ \A j \in Inject \ {i} : pc'[j] = pc[j]
    BY <1>5 DEF Submits
  <2>2. \A v \in Socket, j \in Inject \ {i} : Sent(v, j, "submit")' <=> Sent(v, j, "submit")
    BY <1>5, SentLemma, SentSame DEF Submits, TypeOK
  <2> QED
    BY <2>1, <2>2
<1>6. ASSUME NEW i \in Inject, Requeues(i) PROVE SubmitSent'
  BY <1>6, SentSame DEF Requeues
<1>7. ASSUME NEW n \in Name, NEW m \in Inject, Takes(n, m) PROVE SubmitSent'
  <2>1. UNCHANGED pc
    BY <1>7 DEF Takes
  <2>2. \A v \in Socket, j \in Inject : Sent(v, j, "submit")' <=> Sent(v, j, "submit")
    BY <1>7, SentLemma, SentSame DEF Takes, TypeOK
  <2> QED
    BY <2>1, <2>2
<1>8. ASSUME NEW n \in Name, Purges(n) PROVE SubmitSent'
  BY <1>8, SentSame DEF Purges
<1>9. CASE UNCHANGED <<callVars, mail, inbox>>
  BY <1>9, SentSame DEF callVars
<1> QED
  BY StepEffects, <1>1, <1>2, <1>3, <1>4, <1>5, <1>6, <1>7, <1>8, <1>9

\* The socket that a waiter was told of has got its text.
LEMMA OwedStep ==
  ASSUME TypeOK, Owed, [Next]_vars
  PROVE  Owed'
<1> USE DEF Owed, Others, Same
<1>1. ASSUME NEW i \in Inject, Moves(i) PROVE Owed'
  <2>1. UNCHANGED <<textOwner, wire>>
    BY <1>1 DEF Moves
  <2> QED
    BY <2>1, SentSame DEF TypeOK
<1>2. ASSUME NEW i \in Inject, LetIn(i) PROVE Owed'
  <2>1. UNCHANGED <<textOwner, wire>>
    BY <1>2 DEF LetIn
  <2> QED
    BY <2>1, SentSame DEF TypeOK
<1>3. ASSUME NEW i \in Inject, Enqueues(i) PROVE Owed'
  <2>1. UNCHANGED <<textOwner, wire>>
    BY <1>3 DEF Enqueues
  <2> QED
    BY <2>1, SentSame DEF TypeOK
<1>4. ASSUME NEW i \in Inject, Lapses(i) PROVE Owed'
  <2>1. UNCHANGED <<textOwner, wire>>
    BY <1>4 DEF Lapses
  <2> QED
    BY <2>1, SentSame DEF TypeOK
<1>5. ASSUME NEW i \in Inject, Submits(i) PROVE Owed'
  <2>1. textOwner'[i] = NoSocket /\ \A j \in Inject \ {i} : textOwner'[j] = textOwner[j]
    BY <1>5 DEF Submits
  <2>2. \A v \in Socket, j \in Inject : Sent(v, j, "body")' <=> Sent(v, j, "body")
    BY <1>5, SentLemma, SentSame DEF Submits, TypeOK
  <2>3. \A j \in Inject : textOwner[j] \in Socket \cup {NoSocket}
    BY DEF TypeOK
  <2> QED
    BY <2>1, <2>2, <2>3
<1>6. ASSUME NEW i \in Inject, Requeues(i) PROVE Owed'
  <2>1. UNCHANGED <<textOwner, wire>>
    BY <1>6 DEF Requeues
  <2> QED
    BY <2>1, SentSame DEF TypeOK
<1>7. ASSUME NEW n \in Name, NEW m \in Inject, Takes(n, m) PROVE Owed'
  <2>1. CASE UNCHANGED <<textOwner, wire>>
    BY <2>1, SentSame DEF TypeOK
  <2>2. CASE /\ \E w \in Socket : Send(w, m, "body") /\ textOwner'[m] \in {textOwner[m], w}
             /\ \A j \in Inject \ {m} : textOwner'[j] = textOwner[j]
    <3>1. PICK w \in Socket : Send(w, m, "body") /\ textOwner'[m] \in {textOwner[m], w}
      BY <2>2
    <3>2. \A v \in Socket, j \in Inject : Sent(v, j, "body")' <=> Sent(v, j, "body") \/ (v = w /\ j = m)
      BY <3>1, SentLemma DEF TypeOK
    <3>3. \A j \in Inject : textOwner[j] \in Socket \cup {NoSocket}
      BY DEF TypeOK
    <3> QED
      BY <2>2, <3>1, <3>2, <3>3
  <2> QED
    BY <1>7, <2>1, <2>2 DEF Takes
<1>8. ASSUME NEW n \in Name, Purges(n) PROVE Owed'
  <2>1. UNCHANGED <<textOwner, wire>>
    BY <1>8 DEF Purges
  <2> QED
    BY <2>1, SentSame DEF TypeOK
<1>9. CASE UNCHANGED <<callVars, mail, inbox>>
  <2>1. UNCHANGED <<textOwner, wire>>
    BY <1>9 DEF callVars, waitVars
  <2> QED
    BY <2>1, SentSame DEF TypeOK
<1> QED
  BY StepEffects, <1>1, <1>2, <1>3, <1>4, <1>5, <1>6, <1>7, <1>8, <1>9

\* What was refused was not written, and is not written later.
LEMMA RefusedStep ==
  ASSUME TypeOK, Shape, Queued, BodySent, Truthful, RefusedNeverWritten, [Next]_vars
  PROVE  RefusedNeverWritten'
<1> USE DEF RefusedNeverWritten, Others, Same
<1>1. ASSUME NEW i \in Inject, Moves(i) PROVE RefusedNeverWritten'
  BY <1>1, SentSame DEF Moves, Shape, BodySent
<1>2. ASSUME NEW i \in Inject, LetIn(i) PROVE RefusedNeverWritten'
  BY <1>2, SentSame DEF LetIn
<1>3. ASSUME NEW i \in Inject, Enqueues(i) PROVE RefusedNeverWritten'
  BY <1>3, SentSame DEF Enqueues
<1>4. ASSUME NEW i \in Inject, Lapses(i) PROVE RefusedNeverWritten'
  BY <1>4, SentSame DEF Lapses, Shape, BodySent
<1>5. ASSUME NEW i \in Inject, Submits(i) PROVE RefusedNeverWritten'
  <2>1. UNCHANGED reply
    BY <1>5 DEF Submits
  <2>2. \A v \in Socket, j \in Inject : Sent(v, j, "body")' <=> Sent(v, j, "body")
    BY <1>5, SentLemma, SentSame DEF Submits, TypeOK
  <2> QED
    BY <2>1, <2>2
<1>6. ASSUME NEW i \in Inject, Requeues(i) PROVE RefusedNeverWritten'
  BY <1>6, SentSame DEF Requeues
<1>7. ASSUME NEW n \in Name, NEW m \in Inject, Takes(n, m) PROVE RefusedNeverWritten'
  <2>1. mail[m] = "pending" /\ UNCHANGED reply
    BY <1>7, HeadLemma DEF Takes
  <2>2. \A v \in Socket, j \in Inject \ {m} : Sent(v, j, "body")' <=> Sent(v, j, "body")
    BY <1>7, SentLemma, SentSame DEF Takes, TypeOK
  <2>3. reply[m] # "refused"
    BY <2>1 DEF Truthful
  <2> QED
    BY <2>1, <2>2, <2>3
<1>8. ASSUME NEW n \in Name, Purges(n) PROVE RefusedNeverWritten'
  BY <1>8, SentSame DEF Purges
<1>9. CASE UNCHANGED <<callVars, mail, inbox>>
  BY <1>9, SentSame DEF callVars
<1> QED
  BY StepEffects, <1>1, <1>2, <1>3, <1>4, <1>5, <1>6, <1>7, <1>8, <1>9

\* A text is written to the socket its caller saw, or its outcome was said to be unknown.
LEMMA EntryStep ==
  ASSUME TypeOK, Shape, Queued, StillBound, BodySent, WrittenToEntryOwner, [Next]_vars
  PROVE  WrittenToEntryOwner'
<1> USE DEF WrittenToEntryOwner, Others, Same
<1>1. ASSUME NEW i \in Inject, Moves(i) PROVE WrittenToEntryOwner'
  BY <1>1, SentSame DEF Moves, Shape
<1>2. ASSUME NEW i \in Inject, LetIn(i) PROVE WrittenToEntryOwner'
  <2>1. mail[i] = "none"
    BY <1>2 DEF LetIn, Shape
  <2>2. \A w \in Socket : ~Sent(w, i, "body")
    BY <2>1 DEF BodySent
  <2> QED
    BY <1>2, <2>2, SentSame DEF LetIn
<1>3. ASSUME NEW i \in Inject, Enqueues(i) PROVE WrittenToEntryOwner'
  BY <1>3, SentSame DEF Enqueues
<1>4. ASSUME NEW i \in Inject, Lapses(i) PROVE WrittenToEntryOwner'
  BY <1>4, SentSame DEF Lapses, Shape
<1>5. ASSUME NEW i \in Inject, Submits(i) PROVE WrittenToEntryOwner'
  <2>1. UNCHANGED <<reply, call>>
    BY <1>5 DEF Submits
  <2>2. \A v \in Socket, j \in Inject : Sent(v, j, "body")' <=> Sent(v, j, "body")
    BY <1>5, SentLemma, SentSame DEF Submits, TypeOK
  <2> QED
    BY <2>1, <2>2
<1>6. ASSUME NEW i \in Inject, Requeues(i) PROVE WrittenToEntryOwner'
  BY <1>6, SentSame DEF Requeues
<1>7. ASSUME NEW n \in Name, NEW m \in Inject, Takes(n, m) PROVE WrittenToEntryOwner'
  <2>1. mail[m] = "pending" /\ UNCHANGED <<reply, call>>
    BY <1>7, HeadLemma DEF Takes
  <2>2. CASE UNCHANGED wire
    BY <2>1, <2>2, SentSame
  <2>3. CASE \E w \in Socket : Send(w, m, "body") /\ (m \in bound => w = call[m].socket)
    <3>1. PICK w \in Socket : Send(w, m, "body") /\ (m \in bound => w = call[m].socket)
      BY <2>3
    <3>2. \A v \in Socket, j \in Inject : Sent(v, j, "body")' <=> Sent(v, j, "body") \/ (v = w /\ j = m)
      BY <3>1, SentLemma DEF TypeOK
    <3>3. m \in bound \/ reply[m] = "uncertain"
      BY <2>1 DEF StillBound
    <3> QED
      BY <2>1, <3>1, <3>2, <3>3
  <2> QED
    BY <1>7, <2>2, <2>3 DEF Takes
<1>8. ASSUME NEW n \in Name, Purges(n) PROVE WrittenToEntryOwner'
  BY <1>8, SentSame DEF Purges
<1>9. CASE UNCHANGED <<callVars, mail, inbox>>
  BY <1>9, SentSame DEF callVars
<1> QED
  BY StepEffects, <1>1, <1>2, <1>3, <1>4, <1>5, <1>6, <1>7, <1>8, <1>9

\* A frame that was not sent before, a return after its text, keeps the frames in order.
LEMMA FramesLemma ==
  ASSUME wire \in [Socket -> Seq(Frame)], NoBareSubmit,
         NEW w \in Socket, NEW i \in Inject, NEW part \in {"body", "submit"}, Send(w, i, part),
         \A v \in Socket : ~Sent(v, i, part), part = "submit" => Sent(w, i, "body")
  PROVE  NoBareSubmit'
<1> DEFINE f == [inject |-> i, part |-> part]
           n == Len(wire[w]) + 1
<1>1. /\ \A v \in Socket \ {w} : wire'[v] = wire[v]
      /\ DOMAIN wire[w] = 1 .. n - 1 /\ DOMAIN wire'[w] = 1 .. n /\ n \in Nat \ {0}
      /\ \A k \in 1 .. n - 1 : wire'[w][k] = wire[w][k]
      /\ wire'[w][n] = f
  <2>1. /\ wire' \in [Socket -> Seq(Frame)]
        /\ \A v \in Socket \ {w} : wire'[v] = wire[v]
        /\ Len(wire'[w]) = Len(wire[w]) + 1
        /\ \A k \in 1 .. Len(wire[w]) : wire'[w][k] = wire[w][k]
        /\ wire'[w][Len(wire[w]) + 1] = f
    BY SendLemma
  <2>2. Len(wire[w]) \in Nat /\ DOMAIN wire[w] = 1 .. Len(wire[w]) /\ DOMAIN wire'[w] = 1 .. Len(wire'[w])
    BY <2>1
  <2> QED
    BY <2>1, <2>2
<1>2. \A v \in Socket : \A k \in DOMAIN wire[v] : wire[v][k] # f
  BY DEF Sent
<1>3. f.inject = i /\ f.part = part
  OBVIOUS
<1> HIDE DEF f, n
<1>4. \A u \in Socket : \A k \in DOMAIN wire[u] : wire[u][k].part = "submit" =>
        \E j \in 1 .. k - 1 : wire[u][j] = [inject |-> wire[u][k].inject, part |-> "body"]
  BY DEF NoBareSubmit
<1>5. \A v, u \in Socket : \A j \in DOMAIN wire[v], k \in DOMAIN wire[u] :
        wire[v][j] = wire[u][k] => v = u /\ j = k
  BY DEF NoBareSubmit
<1>6. ASSUME NEW u \in Socket, NEW k \in DOMAIN wire'[u], wire'[u][k].part = "submit"
      PROVE  \E j \in 1 .. k - 1 : wire'[u][j] = [inject |-> wire'[u][k].inject, part |-> "body"]
  <2>1. CASE u # w
    <3>1. wire'[u] = wire[u]
      BY <1>1, <2>1
    <3> QED
      BY <1>4, <1>6, <3>1
  <2>2. CASE u = w /\ k \in 1 .. n - 1
    <3>0. k \in DOMAIN wire[w] /\ wire[w][k].part = "submit"
      BY <1>1, <1>6, <2>2
    <3>1. PICK j \in 1 .. k - 1 : wire[w][j] = [inject |-> wire[w][k].inject, part |-> "body"]
      BY <1>4, <3>0
    <3>2. j \in 1 .. n - 1
      BY <1>1, <2>2
    <3> QED
      BY <1>1, <2>2, <3>1, <3>2
  <2>3. CASE u = w /\ k = n
    <3>1. Sent(w, i, "body")
      BY <1>1, <1>3, <1>6, <2>3
    <3>2. PICK j \in DOMAIN wire[w] : wire[w][j] = [inject |-> i, part |-> "body"]
      BY <3>1 DEF Sent
    <3> QED
      BY <1>1, <1>3, <2>3, <3>2
  <2> QED
    BY <1>1, <2>1, <2>2, <2>3
<1>7. ASSUME NEW u \in Socket, NEW v \in Socket, NEW k \in DOMAIN wire'[u], NEW j \in DOMAIN wire'[v],
             wire'[v][j] = wire'[u][k]
      PROVE  v = u /\ j = k
  <2>1. \/ u = w /\ k = n
        \/ k \in DOMAIN wire[u] /\ wire'[u][k] = wire[u][k] /\ wire[u][k] # f
    BY <1>1, <1>2
  <2>2. \/ v = w /\ j = n
        \/ j \in DOMAIN wire[v] /\ wire'[v][j] = wire[v][j] /\ wire[v][j] # f
    BY <1>1, <1>2
  <2>3. CASE k \in DOMAIN wire[u] /\ wire'[u][k] = wire[u][k] /\ wire[u][k] # f
    <3>1. j \in DOMAIN wire[v] /\ wire[v][j] = wire[u][k]
      BY <1>1, <1>7, <2>2, <2>3
    <3> QED
      BY <1>5, <2>3, <3>1
  <2>4. CASE u = w /\ k = n
    BY <1>1, <1>7, <2>2, <2>4
  <2> QED
    BY <2>1, <2>3, <2>4
<1>8. \A u \in Socket : \A k \in DOMAIN wire'[u] : wire'[u][k].part = "submit" =>
        \E j \in 1 .. k - 1 : wire'[u][j] = [inject |-> wire'[u][k].inject, part |-> "body"]
  BY <1>6
<1>9. \A v, u \in Socket : \A j \in DOMAIN wire'[v], k \in DOMAIN wire'[u] :
        wire'[v][j] = wire'[u][k] => v = u /\ j = k
  BY <1>7
<1> QED
  BY <1>8, <1>9 DEF NoBareSubmit

\* No step writes a return without its text, or a frame twice.
LEMMA FramesStep ==
  ASSUME TypeOK, Shape, Queued, BodySent, SubmitSent, Owed, NoBareSubmit, [Next]_vars
  PROVE  NoBareSubmit'
<1>1. CASE UNCHANGED wire
  BY <1>1 DEF NoBareSubmit
<1>2. ASSUME NEW i \in Inject, NEW w \in Socket, pc[i] = "submit", w = textOwner[i], Send(w, i, "submit")
      PROVE  NoBareSubmit'
  <2>1. \A v \in Socket : ~Sent(v, i, "submit")
    BY <1>2 DEF SubmitSent
  <2>2. Sent(w, i, "body")
    BY <1>2 DEF Owed
  <2> QED
    BY <1>2, <2>1, <2>2, FramesLemma DEF TypeOK
<1>3. ASSUME NEW n \in Name, NEW m \in Inject, Takes(n, m), NEW w \in Socket, Send(w, m, "body")
      PROVE  NoBareSubmit'
  <2>1. mail[m] = "pending"
    BY <1>3, HeadLemma DEF Takes
  <2>2. \A v \in Socket : ~Sent(v, m, "body")
    BY <2>1 DEF BodySent
  <2> QED
    BY <1>3, <2>2, FramesLemma DEF TypeOK
<1>4. \/ UNCHANGED wire
      \/ \E i \in Inject, w \in Socket : pc[i] = "submit" /\ w = textOwner[i] /\ Send(w, i, "submit")
      \/ \E n \in Name, m \in Inject, w \in Socket : Takes(n, m) /\ Send(w, m, "body")
  BY StepEffects DEF Moves, LetIn, Enqueues, Lapses, Submits, Requeues, Takes, Purges, callVars
<1> QED
  BY <1>1, <1>2, <1>3, <1>4

-----------------------------------------------------------------------------
(* Texts and returns in pairs. *)

\* A call that owes a return holds the barrier of its session until it ends; the waiter that
\* was told, and the caller that was told of success, have a text that was written; a call that
\* ended with success has sent its return, or has reported that it is missing.
Follows(i) ==
  /\ pc[i] \in {"tick", "text", "submit"} /\ call[i].enter => barrier[call[i].session] = i
  /\ pc[i] = "done" => reply[i] # "none"
  /\ waiter[i] = "settled" \/ pc[i] = "submit" \/ (pc[i] = "done" /\ reply[i] = "success" /\ call[i].enter) =>
       \E w \in Socket : Sent(w, i, "body")
  /\ pc[i] = "done" /\ reply[i] = "success" /\ call[i].enter =>
       i \in warned \/ \E w \in Socket : Sent(w, i, "submit")

\* A socket is the owner connection of one record, whoever looks at it and when: now, or when
\* a call that has entered captured its target.
Entered(i) == pc[i] \in {"gate", "queue", "tick", "text", "submit"} \/ mail[i] # "none"
OneRecord ==
  /\ \A s, t \in Session : owner[s] \in Socket /\ owner[s] = owner[t] => s = t
  /\ \A s \in Session : owner[s] \in Socket => owner[s] \notin unused
  /\ \A i \in Inject : Entered(i) =>
       /\ call[i].socket \notin unused
       /\ \A s \in Session : owner[s] = call[i].socket => s = call[i].session
       /\ \A j \in Inject : Entered(j) /\ call[j].socket = call[i].socket =>
            call[j].session = call[i].session

\* The second invariant: it is kept by steps that keep Inv.
Pairs == (\A i \in Inject : Follows(i)) /\ OneRecord /\ NoGluedText

\* What was sent stays sent.
LEMMA SentGrows ==
  ASSUME TypeOK, [Next]_vars
  PROVE  \A w \in Socket, i \in Inject, x \in {"body", "submit"} : Sent(w, i, x) => Sent(w, i, x)'
<1>1. ASSUME NEW v \in Socket, NEW j \in Inject, NEW y \in {"body", "submit"}, Send(v, j, y)
      PROVE  \A w \in Socket, i \in Inject, x \in {"body", "submit"} : Sent(w, i, x) => Sent(w, i, x)'
  BY <1>1, SentLemma DEF TypeOK
<1>2. \/ UNCHANGED wire
      \/ \E j \in Inject, v \in Socket, y \in {"body", "submit"} : Send(v, j, y)
  BY StepEffects DEF Moves, LetIn, Enqueues, Lapses, Submits, Requeues, Takes, Purges, callVars
<1> QED
  BY <1>1, <1>2, SentSame

\* A step of call i leaves the others where they are; what they hold, they keep.
Aside(i) ==
  /\ warned \subseteq warned'
  /\ \A j \in Inject \ {i} :
       /\ pc'[j] = pc[j] /\ call'[j] = call[j] /\ reply'[j] = reply[j]
       /\ waiter'[j] = "settled" => waiter[j] = "settled"
       /\ \A s \in Session : barrier[s] = j => barrier'[s] = j

\* So it is enough to look at call i.
LEMMA AsideFollow ==
  ASSUME TypeOK, Shape, \A j \in Inject : Follows(j), [Next]_vars, NEW i \in Inject, Aside(i), Follows(i)'
  PROVE  \A j \in Inject : Follows(j)'
<1> SUFFICES ASSUME NEW j \in Inject \ {i} PROVE Follows(j)'
  OBVIOUS
<1>1. \A w \in Socket, x \in {"body", "submit"} : Sent(w, j, x) => Sent(w, j, x)'
  BY SentGrows
<1>2. Follows(j)
  OBVIOUS
<1>3. pc[j] \in {"tick", "text", "submit"} => call[j].session \in Session
  BY DEF Shape, Call
<1> QED
  BY <1>1, <1>2, <1>3 DEF Follows, Aside

\* A call that answers is over, holds nothing, and was told.
LEMMA AnswerFollows ==
  ASSUME TypeOK, Shape, \A j \in Inject : Follows(j), [Next]_vars,
         NEW i \in Inject, NEW r \in {"refused", "uncertain"}, Answer(i, r), UNCHANGED <<call, warned>>
  PROVE  \A j \in Inject : Follows(j)'
<1>1. /\ pc'[i] = "done" /\ reply'[i] = r /\ waiter'[i] = "none"
      /\ \A j \in Inject \ {i} : pc'[j] = pc[j] /\ reply'[j] = reply[j] /\ waiter'[j] = waiter[j]
      /\ \A s \in Session, j \in Inject \ {i} : barrier[s] = j => barrier'[s] = j
  BY DEF Answer, Forget, ReleaseBarrier, TypeOK
<1>2. Aside(i)
  BY <1>1 DEF Aside
<1>3. Follows(i)'
  BY <1>1 DEF Follows
<1> QED
  BY <1>2, <1>3, AsideFollow

\* Each step of a call keeps what it holds and what it was told.
LEMMA FollowCall ==
  ASSUME TypeOK, Shape, \A j \in Inject : Follows(j), [Next]_vars,
         NEW i \in Inject, CallStep(i) \/ EnqueueRefused(i) \/ BackoffEnds(i)
  PROVE  \A j \in Inject : Follows(j)'
<1>0. /\ Follows(i) /\ \A w \in Socket, x \in {"body", "submit"} : Sent(w, i, x) => Sent(w, i, x)'
      /\ pc[i] \in {"gate", "queue", "tick", "text", "submit"} => call[i].session \in Session /\ call[i] \in Call
  BY SentGrows DEF Shape, Call
<1>1. CASE PassGate(i)
  <2>1. CASE Answer(i, "refused")
    BY <1>1, <2>1, AnswerFollows DEF PassGate
  <2>2. CASE pc' = [pc EXCEPT ![i] = "queue"] /\ UNCHANGED answerVars
    <3>1. /\ pc'[i] = "queue" /\ \A j \in Inject \ {i} : pc'[j] = pc[j]
          /\ UNCHANGED <<call, warned, reply, waiter, barrier>> /\ pc[i] = "gate"
      BY <1>1, <2>2 DEF PassGate, answerVars, waitVars, TypeOK
    <3>2. Aside(i)
      BY <3>1 DEF Aside
    <3>3. Follows(i)'
      BY <1>0, <3>1 DEF Follows
    <3> QED
      BY <3>2, <3>3, AsideFollow
  <2> QED
    BY <1>1, <2>1, <2>2 DEF PassGate
<1>2. CASE QueueTimeout(i)
  BY <1>2, AnswerFollows DEF QueueTimeout
<1>3. CASE Admit(i)
  <2>1. CASE Answer(i, "refused")
    BY <1>3, <2>1, AnswerFollows DEF Admit
  <2>2. CASE /\ Enqueued(i)
             /\ barrier' = IF call[i].enter THEN [barrier EXCEPT ![call[i].session] = i] ELSE barrier
    <3>1. /\ pc'[i] = "tick" /\ \A j \in Inject \ {i} : pc'[j] = pc[j] /\ waiter'[j] = waiter[j]
          /\ waiter'[i] \in {"waiting", "none"}
          /\ UNCHANGED <<call, warned, reply>> /\ pc[i] = "queue" /\ barrier[call[i].session] = NoInject
      BY <1>3, <2>2 DEF Admit, Enqueued, TypeOK
    <3>2. /\ call[i].enter => barrier'[call[i].session] = i
          /\ \A s \in Session, j \in Inject : barrier[s] = j => barrier'[s] = j
      BY <1>0, <2>2, <3>1 DEF TypeOK
    <3>3. Aside(i)
      BY <3>1, <3>2 DEF Aside
    <3>4. Follows(i)'
      BY <3>1, <3>2 DEF Follows
    <3> QED
      BY <3>3, <3>4, AsideFollow
  <2> QED
    BY <1>3, <2>1, <2>2 DEF Admit
<1>4. CASE TickReturns(i)
  <2>1. CASE Answer(i, "uncertain")
    BY <1>4, <2>1, AnswerFollows DEF TickReturns
  <2>2. CASE \/ call[i].enter /\ pc' = [pc EXCEPT ![i] = "text"] /\ UNCHANGED answerVars
             \/ /\ ~call[i].enter /\ pc' = [pc EXCEPT ![i] = "done"]
                /\ reply' = [reply EXCEPT ![i] = "success"] /\ UNCHANGED <<bound, barrier, waitVars>>
    <3>1. /\ \/ pc'[i] = "text" /\ reply'[i] = reply[i]
             \/ ~call[i].enter /\ pc'[i] = "done" /\ reply'[i] = "success"
          /\ \A j \in Inject \ {i} : pc'[j] = pc[j] /\ reply'[j] = reply[j]
          /\ UNCHANGED <<call, warned, waiter, barrier>> /\ pc[i] = "tick"
      BY <1>4, <2>2 DEF TickReturns, answerVars, waitVars, TypeOK
    <3>2. Aside(i)
      BY <3>1 DEF Aside
    <3>3. Follows(i)'
      BY <1>0, <3>1 DEF Follows
    <3> QED
      BY <3>2, <3>3, AsideFollow
  <2> QED
    BY <1>4, <2>1, <2>2 DEF TickReturns
<1>5. CASE WaiterTimeout(i)
  <2>1. /\ waiter'[i] = "lapsed" /\ \A j \in Inject \ {i} : waiter'[j] = waiter[j]
        /\ UNCHANGED <<pc, call, warned, reply, barrier>>
    BY <1>5 DEF WaiterTimeout, TypeOK
  <2>2. Aside(i)
    BY <2>1 DEF Aside
  <2>3. Follows(i)'
    BY <1>0, <2>1 DEF Follows
  <2> QED
    BY <2>2, <2>3, AsideFollow
<1>6. CASE TextWritten(i)
  <2>1. /\ pc[i] = "text" /\ waiter[i] = "settled" /\ pc'[i] = "submit" /\ waiter'[i] = "none"
        /\ reply'[i] = "success"
        /\ \A j \in Inject \ {i} : pc'[j] = pc[j] /\ reply'[j] = reply[j] /\ waiter'[j] = waiter[j]
        /\ UNCHANGED <<call, warned, barrier>>
    BY <1>6 DEF TextWritten, Forget, TypeOK
  <2>2. Aside(i)
    BY <2>1 DEF Aside
  <2>3. Follows(i)'
    BY <1>0, <2>1 DEF Follows
  <2> QED
    BY <2>2, <2>3, AsideFollow
<1>7. CASE TextUnsure(i)
  BY <1>7, AnswerFollows DEF TextUnsure
<1>8. CASE TextLate(i)
  <2>1. PICK r \in {"refused", "uncertain"} : Answer(i, r)
    BY <1>8 DEF TextLate
  <2> QED
    BY <1>8, <2>1, AnswerFollows DEF TextLate
<1>9. CASE Submit(i)
  <2>1. /\ pc[i] = "submit" /\ pc'[i] = "done"
        /\ \A j \in Inject \ {i} : pc'[j] = pc[j]
        /\ \A s \in Session, j \in Inject \ {i} : barrier[s] = j => barrier'[s] = j
        /\ UNCHANGED <<call, waiter, reply>>
    BY <1>9 DEF Submit, SubmitEnds, ReleaseBarrier, TypeOK
  <2>2. warned \subseteq warned' /\ (i \in warned' \/ \E w \in Socket : Sent(w, i, "submit")')
    <3>1. CASE warned' = warned \cup {i}
      BY <3>1
    <3>2. CASE \E w \in Socket : Send(w, i, "submit") /\ UNCHANGED warned
      BY <3>2, SentLemma DEF TypeOK
    <3> QED
      BY <1>0, <1>9, <2>1, <3>1, <3>2 DEF Submit, Deliverable, TypeOK
  <2>3. Aside(i)
    BY <2>1, <2>2 DEF Aside
  <2>4. reply[i] = "success"
    BY <2>1 DEF Shape
  <2>5. Follows(i)'
    BY <1>0, <2>1, <2>2, <2>4 DEF Follows
  <2> QED
    BY <2>3, <2>5, AsideFollow
<1>10. CASE EnqueueRefused(i)
  BY <1>10, AnswerFollows DEF EnqueueRefused
<1>11. CASE BackoffEnds(i)
  <2>1. UNCHANGED <<pc, call, warned, reply, barrier, waiter>>
    BY <1>11 DEF BackoffEnds, waitVars
  <2>2. Aside(i) /\ Follows(i)'
    BY <1>0, <2>1 DEF Aside, Follows
  <2> QED
    BY <2>2, AsideFollow
<1> QED
  BY <1>1, <1>2, <1>3, <1>4, <1>5, <1>6, <1>7, <1>8, <1>9, <1>10, <1>11 DEF CallStep

\* A call that enters holds nothing yet.
LEMMA FollowEnter ==
  ASSUME TypeOK, Shape, \A j \in Inject : Follows(j), [Next]_vars,
         NEW i \in Inject, NEW n \in Name, Enter(i, n)
  PROVE  \A j \in Inject : Follows(j)'
<1>1. CASE Answer(i, "refused") /\ UNCHANGED call
  BY <1>1, AnswerFollows DEF Enter
<1>2. CASE /\ \E e \in BOOLEAN :
                call' = [call EXCEPT ![i] =
                  [name |-> n, session |-> registry[n], socket |-> owner[registry[n]], enter |-> e]]
           /\ pc' = [pc EXCEPT ![i] = "gate"] /\ UNCHANGED answerVars
  <2>1. /\ pc[i] = "new" /\ pc'[i] = "gate"
        /\ \A j \in Inject \ {i} : pc'[j] = pc[j] /\ call'[j] = call[j]
        /\ UNCHANGED <<reply, waiter, barrier, warned>>
    BY <1>2 DEF Enter, answerVars, waitVars, TypeOK
  <2>2. Aside(i)
    BY <2>1 DEF Aside
  <2>3. waiter[i] = "settled" => \E w \in Socket : Sent(w, i, "body")'
    BY SentGrows DEF Follows
  <2>4. Follows(i)'
    BY <2>1, <2>3 DEF Follows
  <2> QED
    BY <2>2, <2>4, AsideFollow
<1> QED
  BY <1>1, <1>2 DEF Enter

\* A waiter is told of a text in the step that writes it.
LEMMA FollowDeliver ==
  ASSUME TypeOK, Shape, \A j \in Inject : Follows(j), [Next]_vars, NEW n \in Name, Deliver(n)
  PROVE  \A j \in Inject : Follows(j)'
<1>1. PICK m \in Inject : DeliverGone(n, m) \/ DeliverText(n, m) \/ DeliverNothing(n, m)
  BY DEF Deliver
<1>2. UNCHANGED <<pc, call, reply, warned, barrier>>
  BY DEF Deliver
<1>3. \A j \in Inject \ {m} : waiter'[j] = waiter[j]
  BY <1>1 DEF DeliverGone, DeliverText, DeliverNothing, Tell, TypeOK
<1>4. waiter'[m] = "settled" => waiter[m] = "settled" \/ \E w \in Socket : Sent(w, m, "body")'
  <2>1. CASE DeliverText(n, m)
    BY <2>1, SentLemma DEF DeliverText, TypeOK
  <2>2. CASE DeliverGone(n, m) \/ DeliverNothing(n, m)
    BY <2>2 DEF DeliverGone, DeliverNothing, Tell, TypeOK
  <2> QED
    BY <1>1, <2>1, <2>2
<1>5. Aside(m)
  BY <1>2, <1>3 DEF Aside
<1>6. \A w \in Socket, x \in {"body", "submit"} : Sent(w, m, x) => Sent(w, m, x)'
  BY SentGrows
<1>7. Follows(m)'
  BY <1>2, <1>4, <1>6 DEF Follows
<1> QED
  BY <1>5, <1>7, AsideFollow

\* No step of owners, records, calls or the engine breaks what the calls hold and were told.
LEMMA FollowStep ==
  ASSUME TypeOK, Shape, \A j \in Inject : Follows(j), [Next]_vars
  PROVE  \A j \in Inject : Follows(j)'
<1>1. CASE UNCHANGED callVars
  <2> SUFFICES ASSUME NEW j \in Inject PROVE Follows(j)'
    OBVIOUS
  <2>1. UNCHANGED <<pc, call, reply, warned, barrier, waiter, wire>>
    BY <1>1 DEF callVars, waitVars
  <2> QED
    BY <2>1, SentSame DEF Follows
<1>2. ASSUME NEW n \in Name, NEW m \in Name,
             \/ ClaimOwner(n) \/ OwnerDisconnected(n) \/ BeginClose(n) \/ RemoveRecord(n)
             \/ Register(n) \/ Rename(n, m)
      PROVE  UNCHANGED callVars
  BY <1>2 DEF ClaimOwner, OwnerDisconnected, BeginClose, RemoveRecord, Register, Rename
<1>3. ASSUME NEW w \in Socket, SocketCloses(w) PROVE UNCHANGED callVars
  BY <1>3 DEF SocketCloses
<1>4. UNCHANGED vars => UNCHANGED callVars
  BY DEF vars, callVars, waitVars
<1>5. CASE \E i \in Inject : CallStep(i) \/ EnqueueRefused(i) \/ BackoffEnds(i)
  BY <1>5, FollowCall
<1>6. CASE \E i \in Inject, n \in Name : Enter(i, n)
  BY <1>6, FollowEnter
<1>7. CASE \E n \in Name : Deliver(n)
  BY <1>7, FollowDeliver
<1> QED
  BY <1>1, <1>2, <1>3, <1>4, <1>5, <1>6, <1>7 DEF Next

\* Only by entering a call comes to have a target and a message.
LEMMA EnteredBefore ==
  ASSUME TypeOK, Shape, Queued, [Next]_vars, ~\E i \in Inject, n \in Name : Enter(i, n)
  PROVE  \A i \in Inject : Entered(i)' => Entered(i)
<1> USE DEF Entered, Others, Same
<1>1. ASSUME NEW j \in Inject, CallStep(j) \/ EnqueueRefused(j) \/ BackoffEnds(j)
      PROVE  \A i \in Inject : Entered(i)' => Entered(i)
  <2>1. Moves(j) \/ Enqueues(j) \/ Lapses(j) \/ Submits(j) \/ Requeues(j)
    BY <1>1, MovesEffect, AdmitEffect, LateEffect, SubmitEffect, BackoffEffect DEF CallStep
  <2> QED
    BY <2>1 DEF Moves, Enqueues, Lapses, Submits, Requeues
<1>2. ASSUME NEW n \in Name, Deliver(n)
      PROVE  \A i \in Inject : Entered(i)' => Entered(i)
  <2>1. PICK m \in Inject : Takes(n, m)
    BY <1>2, DeliverEffect
  <2>2. mail[m] = "pending" /\ UNCHANGED pc /\ \A i \in Inject \ {m} : mail'[i] = mail[i]
    BY <2>1, HeadLemma DEF Takes
  <2> QED
    BY <2>2
<1>3. ASSUME NEW n \in Name, RemoveRecord(n)
      PROVE  \A i \in Inject : Entered(i)' => Entered(i)
  BY <1>3, RemoveEffect DEF Purges
<1>4. ASSUME NEW n \in Name, NEW m \in Name,
             ClaimOwner(n) \/ OwnerDisconnected(n) \/ BeginClose(n) \/ Register(n) \/ Rename(n, m)
      PROVE  UNCHANGED <<pc, mail>>
  BY <1>4 DEF ClaimOwner, OwnerDisconnected, BeginClose, Register, Rename, callVars
<1>5. ASSUME NEW w \in Socket, SocketCloses(w) PROVE UNCHANGED <<pc, mail>>
  BY <1>5 DEF SocketCloses, callVars
<1>6. UNCHANGED vars => UNCHANGED <<pc, mail>>
  BY DEF vars
<1>7. UNCHANGED <<pc, mail>> => \A i \in Inject : Entered(i)' => Entered(i)
  OBVIOUS
<1> QED
  BY <1>1, <1>2, <1>3, <1>4, <1>5, <1>6, <1>7 DEF Next

\* A socket is given to one record, and a call sees it there.
LEMMA RecordStep ==
  ASSUME TypeOK, Shape, Queued, OneRecord, [Next]_vars
  PROVE  OneRecord'
<1> USE DEF OneRecord
<1>0. \A i \in Inject : Entered(i) => call[i] \in Call
  BY DEF Entered, Shape
<1>1. ASSUME UNCHANGED <<owner, call>>, unused' \subseteq unused,
             \A i \in Inject : Entered(i)' => Entered(i)
      PROVE  OneRecord'
  BY <1>1
<1>2. ASSUME NEW n \in Name, ClaimOwner(n) PROVE OneRecord'
  <2> DEFINE s == registry[n]
             w == NextOf(unused \cap Socket)
  <2>1. s \in Session /\ w \in unused /\ w \in Socket
    BY <1>2 DEF ClaimOwner, NextOf, TypeOK
  <2>2. /\ owner'[s] = w /\ \A t \in Session \ {s} : owner'[t] = owner[t]
        /\ unused' = unused \ {w} /\ UNCHANGED call /\ \A i \in Inject : Entered(i)' <=> Entered(i)
    BY <1>2, <2>1 DEF ClaimOwner, callVars, TypeOK, Entered
  <2> HIDE DEF s, w
  <2>3. \A x, y \in Session : owner'[x] \in Socket /\ owner'[x] = owner'[y] => x = y
    BY <2>1, <2>2
  <2>4. \A x \in Session : owner'[x] \in Socket => owner'[x] \notin unused'
    BY <2>1, <2>2
  <2>5. ASSUME NEW i \in Inject, Entered(i)
        PROVE  /\ call[i].socket \notin unused'
               /\ \A x \in Session : owner'[x] = call[i].socket => x = call[i].session
    BY <2>1, <2>2, <2>5
  <2> QED
    BY <2>2, <2>3, <2>4, <2>5
<1>3. ASSUME NEW n \in Name, OwnerDisconnected(n) PROVE OneRecord'
  <2>1. /\ registry[n] \in Session /\ owner' = [owner EXCEPT ![registry[n]] = NoSocket]
        /\ UNCHANGED <<call, unused>> /\ \A i \in Inject : Entered(i)' <=> Entered(i)
    BY <1>3 DEF OwnerDisconnected, callVars, TypeOK, Entered
  <2>2. \A x \in Session : owner'[x] = owner[x] \/ owner'[x] = NoSocket
    BY <2>1 DEF TypeOK
  <2>3. \A i \in Inject : Entered(i) => call[i].socket # NoSocket
    BY <1>0 DEF Call
  <2> QED
    BY <2>1, <2>2, <2>3
<1>4. ASSUME NEW i \in Inject, NEW n \in Name, Enter(i, n), Entered(i)', ~Entered(i) PROVE OneRecord'
  <2> DEFINE s == registry[n]
  <2>1. pc[i] = "new" /\ pc'[i] # "done" /\ UNCHANGED <<owner, unused, mail>>
    <3>1. pc[i] = "new" /\ UNCHANGED <<owner, unused, mail>>
      BY <1>4 DEF Enter, sessionVars, mailVars
    <3> QED
      BY <1>4, <3>1 DEF Entered
  <2>2. /\ s \in Session /\ owner[s] \in Socket
        /\ pc' = [pc EXCEPT ![i] = "gate"]
        /\ \E e \in BOOLEAN :
             call' = [call EXCEPT ![i] = [name |-> n, session |-> s, socket |-> owner[s], enter |-> e]]
    <3>1. ~Answer(i, "refused")
      BY <2>1 DEF Answer, TypeOK
    <3> QED
      BY <1>4, <3>1 DEF Enter, Deliverable, TypeOK
  <2>3. /\ call'[i].session = s /\ call'[i].socket = owner[s]
        /\ \A j \in Inject \ {i} : call'[j] = call[j] /\ (Entered(j)' <=> Entered(j))
    BY <2>1, <2>2 DEF TypeOK, Entered
  <2> HIDE DEF s
  <2>4. ASSUME NEW j \in Inject, Entered(j)'
        PROVE  /\ call'[j].socket \notin unused
               /\ \A t \in Session : owner[t] = call'[j].socket => t = call'[j].session
    BY <2>2, <2>3, <2>4
  <2>5. ASSUME NEW j \in Inject, NEW k \in Inject, Entered(j)', Entered(k)',
               call'[k].socket = call'[j].socket
        PROVE  call'[k].session = call'[j].session
    BY <2>2, <2>3, <2>5
  <2> QED
    BY <2>1, <2>4, <2>5
<1>5. ASSUME NEW i \in Inject, NEW n \in Name, Enter(i, n), Entered(i)' => Entered(i) PROVE OneRecord'
  <2>1. /\ UNCHANGED <<owner, unused, mail>> /\ pc[i] = "new"
        /\ \A j \in Inject \ {i} : call'[j] = call[j] /\ pc'[j] = pc[j]
    BY <1>5 DEF Enter, Answer, sessionVars, mailVars, TypeOK
  <2>2. mail[i] # "none" => FALSE
    BY <2>1 DEF Shape
  <2>3. \A j \in Inject : Entered(j)' => j # i /\ Entered(j)
    BY <1>5, <2>1, <2>2 DEF Entered
  <2> QED
    BY <2>1, <2>3
<1>6. ASSUME ~\E i \in Inject, n \in Name : Enter(i, n),
             ~\E n \in Name : ClaimOwner(n) \/ OwnerDisconnected(n)
      PROVE  OneRecord'
  <2>1. ASSUME NEW n \in Name, NEW m \in Name,
               \/ BeginClose(n) \/ RemoveRecord(n) \/ Register(n) \/ Rename(n, m) \/ Deliver(n)
        PROVE  UNCHANGED <<owner, call>> /\ unused' \subseteq unused
    BY <2>1 DEF BeginClose, RemoveRecord, Register, Rename, Deliver, callVars, sessionVars
  <2>2. ASSUME NEW i \in Inject, CallStep(i) \/ EnqueueRefused(i) \/ BackoffEnds(i)
        PROVE  UNCHANGED <<owner, call>> /\ unused' \subseteq unused
    BY <2>2 DEF CallStep, PassGate, QueueTimeout, Admit, TickReturns, WaiterTimeout, TextWritten, TextUnsure,
         TextLate, Submit, EnqueueRefused, BackoffEnds, sessionVars
  <2>3. ASSUME NEW w \in Socket, SocketCloses(w)
        PROVE  UNCHANGED <<owner, call>> /\ unused' \subseteq unused
    BY <2>3 DEF SocketCloses, callVars
  <2>4. UNCHANGED vars => UNCHANGED <<owner, call>> /\ unused' \subseteq unused
    BY DEF vars
  <2>5. UNCHANGED <<owner, call>> /\ unused' \subseteq unused
    BY <1>6, <2>1, <2>2, <2>3, <2>4 DEF Next
  <2> QED
    BY <1>1, <1>6, <2>5, EnteredBefore
<1> QED
  BY <1>2, <1>3, <1>4, <1>5, <1>6

\* While the text of a call that owes a return may still be written to socket w, an earlier text
\* on w has been followed by its return, or it was said that this is missing or unknown.
LEMMA ReturnFirst ==
  ASSUME Inv, \A j \in Inject : Follows(j), OneRecord,
         NEW w \in Socket, NEW m \in Inject, mail[m] = "pending", m \in bound => w = call[m].socket,
         call[m].enter, reply[m] # "uncertain",
         NEW a \in Inject, Sent(w, a, "body"), call[a].enter, reply[a] # "uncertain", a \notin warned
  PROVE  Sent(w, a, "submit")
<1>1. w = call[m].socket /\ \A v \in Socket : ~Sent(v, m, "body")
  BY DEF Inv, StillBound, BodySent
<1>2. a # m
  BY <1>1
<1>3. /\ mail[a] # "none" /\ call[a] \in Call /\ pc[a] \notin {"new", "gate", "queue"}
      /\ call[m] \in Call /\ pc[m] \notin {"new", "gate", "queue"}
  BY DEF Inv, BodySent, Shape
<1>4. call[a].socket = w
  BY DEF Inv, WrittenToEntryOwner
<1>5. call[a].session = call[m].session
  BY <1>1, <1>3, <1>4 DEF OneRecord, Entered
<1>6. pc[m] \in {"tick", "text"}
  <2>1. pc[m] # "submit" /\ ~(pc[m] = "done" /\ reply[m] = "success")
    BY <1>1 DEF Follows
  <2>2. reply[m] # "refused"
    BY DEF Inv, Truthful
  <2>3. pc[m] = "done" => reply[m] # "none"
    BY DEF Follows
  <2>4. pc[m] \in PCs /\ reply[m] \in {"none", "success", "refused", "uncertain"}
    BY DEF Inv, TypeOK
  <2> QED
    BY <1>3, <2>1, <2>2, <2>3, <2>4 DEF PCs
<1>7. barrier[call[m].session] = m
  BY <1>6 DEF Follows
<1>8. pc[a] = "done"
  <2>1. pc[a] \notin {"tick", "text", "submit"}
    BY <1>2, <1>5, <1>7 DEF Follows
  <2>2. pc[a] \in PCs
    BY DEF Inv, TypeOK
  <2> QED
    BY <1>3, <2>1, <2>2 DEF PCs
<1>9. reply[a] = "success"
  <2>1. reply[a] # "refused"
    BY DEF Inv, RefusedNeverWritten
  <2>2. reply[a] # "none"
    BY <1>8 DEF Follows
  <2>3. reply[a] \in {"none", "success", "refused", "uncertain"}
    BY DEF Inv, TypeOK
  <2> QED
    BY <2>1, <2>2, <2>3
<1>10. PICK v \in Socket : Sent(v, a, "submit")
  BY <1>8, <1>9 DEF Follows
<1>11. PICK k \in DOMAIN wire[v] : wire[v][k] = [inject |-> a, part |-> "submit"]
  BY <1>10 DEF Sent
<1>12. PICK j \in DOMAIN wire[w] : wire[w][j] = [inject |-> a, part |-> "body"]
  BY DEF Sent
<1>13. PICK l \in 1 .. k - 1 : wire[v][l] = [inject |-> a, part |-> "body"]
  BY <1>11 DEF Inv, NoBareSubmit
<1>14. l \in DOMAIN wire[v]
  BY <1>11, <1>13 DEF Inv, TypeOK
<1>15. v = w
  BY <1>12, <1>13, <1>14 DEF Inv, NoBareSubmit
<1> QED
  BY <1>10, <1>15

\* What was captured, reported and said to be unknown stays so.
LEMMA SaidStays ==
  ASSUME TypeOK, Shape, Queued, [Next]_vars
  PROVE  /\ warned \subseteq warned'
         /\ \A i \in Inject : mail[i] # "none" => call'[i] = call[i]
         /\ \A i \in Inject : reply[i] = "uncertain" => reply'[i] = "uncertain"
<1>1. warned \subseteq warned'
  BY DEF Next, vars, CallStep, PassGate, QueueTimeout, Admit, TickReturns, WaiterTimeout, TextWritten, TextUnsure,
       TextLate, Submit, EnqueueRefused, BackoffEnds, Enter, Deliver, ClaimOwner, OwnerDisconnected, BeginClose,
       RemoveRecord, Register, Rename, SocketCloses, callVars
<1>2. \A i \in Inject : mail[i] # "none" => pc[i] # "new"
  BY DEF Shape
<1>3. ASSUME NEW i \in Inject, reply[i] = "uncertain" PROVE pc[i] = "done"
  <2>1. pc[i] \in PCs
    BY DEF TypeOK
  <2>2. pc[i] \notin {"new", "gate", "queue", "tick", "text"} /\ pc[i] # "submit"
    BY <1>3 DEF Shape
  <2> QED
    BY <2>1, <2>2 DEF PCs
<1> QED
  BY <1>1, <1>2, <1>3, StepEffects
     DEF Moves, LetIn, Enqueues, Lapses, Submits, Requeues, Takes, Purges, callVars, Others, Same

\* Two texts on a socket that owe returns, in this order, and what must lie between them.
Texts(w, j, k) ==
  /\ j < k /\ wire[w][j].part = "body" /\ wire[w][k].part = "body"
  /\ call[wire[w][j].inject].enter /\ call[wire[w][k].inject].enter
Apart(w, j, k) ==
  LET a == wire[w][j].inject
      b == wire[w][k].inject
  IN \/ \E l \in j + 1 .. k - 1 : wire[w][l] = [inject |-> a, part |-> "submit"]
     \/ a \in warned \/ reply[a] = "uncertain" \/ reply[b] = "uncertain"

\* Texts that were written are not glued by what comes after them.
LEMMA ApartStays ==
  ASSUME Inv, NoGluedText, [Next]_vars,
         NEW w \in Socket, NEW j \in DOMAIN wire[w], NEW k \in DOMAIN wire[w],
         \A l \in DOMAIN wire[w] : wire'[w][l] = wire[w][l],
         Texts(w, j, k)'
  PROVE  Apart(w, j, k)'
<1> DEFINE a == wire[w][j].inject
           b == wire[w][k].inject
<1>1. wire'[w][j] = wire[w][j] /\ wire'[w][k] = wire[w][k]
  OBVIOUS
<1>2. wire[w][j] \in Frame /\ wire[w][k] \in Frame
  BY DEF Inv, TypeOK
<1>3. wire[w][j].part = "body" /\ wire[w][k].part = "body" /\ j < k /\ call'[a].enter /\ call'[b].enter
  BY <1>1 DEF Texts
<1>4. a \in Inject /\ b \in Inject /\ Sent(w, a, "body") /\ Sent(w, b, "body")
  BY <1>2, <1>3 DEF Frame, Sent
<1>5. mail[a] # "none" /\ mail[b] # "none"
  BY <1>4 DEF Inv, BodySent
<1>6. /\ warned \subseteq warned' /\ call'[a] = call[a] /\ call'[b] = call[b]
      /\ reply[a] = "uncertain" => reply'[a] = "uncertain"
      /\ reply[b] = "uncertain" => reply'[b] = "uncertain"
  BY <1>4, <1>5, SaidStays DEF Inv
<1>7. Apart(w, j, k)
  BY <1>3, <1>6 DEF NoGluedText, Apart
<1>8. \A l \in j + 1 .. k - 1 : wire'[w][l] = wire[w][l]
  BY DEF Inv, TypeOK
<1>9. wire'[w][j].inject = a /\ wire'[w][k].inject = b
  BY <1>1
<1> QED
  BY <1>6, <1>7, <1>8, <1>9 DEF Apart

\* The text that is written now comes after the returns it must come after.
LEMMA ApartNew ==
  ASSUME Inv, \A i \in Inject : Follows(i), OneRecord, [Next]_vars,
         NEW w \in Socket, NEW m \in Inject, Send(w, m, "body"), mail[m] = "pending",
         m \in bound => w = call[m].socket,
         NEW j \in DOMAIN wire[w], NEW n, n = Len(wire[w]) + 1, Texts(w, j, n)'
  PROVE  Apart(w, j, n)'
<1> DEFINE a == wire[w][j].inject
<1>1. /\ wire'[w][n] = [inject |-> m, part |-> "body"]
      /\ \A k \in 1 .. n - 1 : wire'[w][k] = wire[w][k]
      /\ n \in Nat /\ DOMAIN wire[w] = 1 .. n - 1
  <2>1. wire \in [Socket -> Seq(Frame)]
    BY DEF Inv, TypeOK
  <2>2. wire[w] \in Seq(Frame) /\ Len(wire[w]) \in Nat /\ DOMAIN wire[w] = 1 .. Len(wire[w])
    BY <2>1
  <2>3. /\ \A k \in 1 .. Len(wire[w]) : wire'[w][k] = wire[w][k]
        /\ wire'[w][Len(wire[w]) + 1] = [inject |-> m, part |-> "body"]
    BY <2>1, SendLemma
  <2> QED
    BY <2>2, <2>3
<1>2. wire[w][j] \in Frame /\ wire'[w][j] = wire[w][j]
  BY <1>1 DEF Inv, TypeOK
<1>3. wire[w][j].part = "body" /\ call'[a].enter /\ call'[m].enter
  BY <1>1, <1>2 DEF Texts
<1>4. a \in Inject /\ wire[w][j] = [inject |-> a, part |-> "body"] /\ Sent(w, a, "body")
  BY <1>2, <1>3 DEF Frame, Sent
<1>5. mail[a] # "none"
  BY <1>4 DEF Inv, BodySent
<1>6. /\ warned \subseteq warned' /\ call'[a] = call[a] /\ call'[m] = call[m]
      /\ reply[a] = "uncertain" => reply'[a] = "uncertain"
      /\ reply[m] = "uncertain" => reply'[m] = "uncertain"
  BY <1>4, <1>5, SaidStays DEF Inv
<1>7. wire'[w][j].inject = a /\ wire'[w][n].inject = m
  BY <1>1, <1>2
<1>8. CASE a \in warned \/ reply[a] = "uncertain" \/ reply[m] = "uncertain"
  BY <1>6, <1>7, <1>8 DEF Apart
<1>9. CASE a \notin warned /\ reply[a] # "uncertain" /\ reply[m] # "uncertain"
  <2>1. Sent(w, a, "submit")
    BY <1>3, <1>4, <1>6, <1>9, ReturnFirst
  <2>2. PICK l \in 1 .. n - 1 : wire[w][l] = [inject |-> a, part |-> "submit"]
    BY <1>1, <2>1 DEF Sent
  <2>3. PICK i \in 1 .. l - 1 : wire[w][i] = [inject |-> a, part |-> "body"]
    BY <1>1, <2>2 DEF Inv, NoBareSubmit
  <2>4. i \in 1 .. n - 1
    BY <1>1, <2>2, <2>3
  <2>5. i = j
    BY <1>1, <1>4, <2>3, <2>4 DEF Inv, NoBareSubmit
  <2>6. l \in j + 1 .. n - 1
    BY <1>1, <2>2, <2>3, <2>5
  <2>7. wire'[w][l] = [inject |-> a, part |-> "submit"]
    BY <1>1, <2>2
  <2> QED
    BY <1>7, <2>6, <2>7 DEF Apart
<1> QED
  BY <1>8, <1>9

\* A text that is written keeps its distance, and a return comes between texts or after them.
LEMMA ApartStep ==
  ASSUME Inv, \A i \in Inject : Follows(i), OneRecord, NoGluedText, [Next]_vars
  PROVE  NoGluedText'
<1>1. CASE UNCHANGED wire
  <2> SUFFICES ASSUME NEW w \in Socket, NEW j \in DOMAIN wire[w], NEW k \in DOMAIN wire[w], Texts(w, j, k)'
               PROVE  Apart(w, j, k)'
    BY <1>1 DEF NoGluedText, Texts, Apart
  <2> QED
    BY <1>1, ApartStays
<1>2. ASSUME NEW v \in Socket, NEW m \in Inject, NEW part \in {"body", "submit"}, Send(v, m, part),
             part = "body" => mail[m] = "pending" /\ (m \in bound => v = call[m].socket)
      PROVE  NoGluedText'
  <2> DEFINE n == Len(wire[v]) + 1
  <2>1. /\ \A w \in Socket \ {v} : wire'[w] = wire[w]
        /\ DOMAIN wire[v] = 1 .. n - 1 /\ DOMAIN wire'[v] = 1 .. n /\ n \in Nat \ {0}
        /\ \A k \in 1 .. n - 1 : wire'[v][k] = wire[v][k]
        /\ wire'[v][n] = [inject |-> m, part |-> part]
    <3>1. /\ wire' \in [Socket -> Seq(Frame)]
          /\ \A w \in Socket \ {v} : wire'[w] = wire[w]
          /\ Len(wire'[v]) = Len(wire[v]) + 1
          /\ \A k \in 1 .. Len(wire[v]) : wire'[v][k] = wire[v][k]
          /\ wire'[v][Len(wire[v]) + 1] = [inject |-> m, part |-> part]
      <4>1. wire \in [Socket -> Seq(Frame)]
        BY DEF Inv, TypeOK
      <4> QED
        BY <1>2, <4>1, SendLemma
    <3>2. wire[v] \in Seq(Frame) /\ wire'[v] \in Seq(Frame)
      BY <3>1 DEF Inv, TypeOK
    <3>3. /\ Len(wire[v]) \in Nat /\ DOMAIN wire[v] = 1 .. Len(wire[v])
          /\ DOMAIN wire'[v] = 1 .. Len(wire'[v])
      BY <3>2
    <3> QED
      BY <3>1, <3>3
  <2> SUFFICES ASSUME NEW w \in Socket, NEW j \in DOMAIN wire'[w], NEW k \in DOMAIN wire'[w], Texts(w, j, k)'
               PROVE  Apart(w, j, k)'
    BY DEF NoGluedText, Texts, Apart
  <2>2. \A l \in DOMAIN wire[w] : wire'[w][l] = wire[w][l]
    BY <2>1
  <2>3. CASE j \in DOMAIN wire[w] /\ k \in DOMAIN wire[w]
    BY <2>2, <2>3, ApartStays
  <2>4. CASE ~(j \in DOMAIN wire[w] /\ k \in DOMAIN wire[w])
    <3>1. w = v /\ (j = n \/ k = n) /\ j < k /\ wire'[w][j].part = "body" /\ wire'[w][k].part = "body"
      BY <2>1, <2>4 DEF Texts
    <3> HIDE DEF n
    <3>2. k = n /\ j \in DOMAIN wire[v] /\ part = "body"
      BY <2>1, <3>1
    <3> QED
      BY <1>2, <3>1, <3>2, ApartNew DEF n
  <2> QED
    BY <2>3, <2>4
<1>3. ASSUME NEW x \in Name, NEW m \in Inject, Takes(x, m), wire' # wire PROVE NoGluedText'
  <2>1. mail[m] = "pending"
    BY <1>3, HeadLemma DEF Takes, Inv
  <2>2. PICK w \in Socket : Send(w, m, "body") /\ (m \in bound => w = call[m].socket)
    BY <1>3 DEF Takes
  <2> QED
    BY <1>2, <2>1, <2>2
<1>4. ASSUME NEW i \in Inject, Submits(i), wire' # wire PROVE NoGluedText'
  <2>1. PICK w \in Socket : Send(w, i, "submit")
    BY <1>4 DEF Submits
  <2> QED
    BY <1>2, <2>1
<1>5. \/ UNCHANGED wire
      \/ \E i \in Inject : Submits(i) /\ wire' # wire
      \/ \E x \in Name, m \in Inject : Takes(x, m) /\ wire' # wire
  BY StepEffects DEF Inv, Moves, LetIn, Enqueues, Lapses, Requeues, Purges, callVars
<1> QED
  BY <1>1, <1>3, <1>4, <1>5

-----------------------------------------------------------------------------
(* Theorems. *)

\* A daemon with one session, no calls and empty inboxes starts in order.
LEMMA InitInv == Init => Inv
<1> SUFFICES ASSUME Init PROVE Inv
  OBVIOUS
<1>1. /\ registry \in [Name -> Session \cup {NoSession}]
      /\ owner \in [Session -> Socket \cup {NoSocket}]
      /\ open \subseteq Socket
      /\ unused \subseteq Session \cup Socket
  BY DEF Init
<1>2. /\ closing = {} /\ bound = {} /\ unsure = {} /\ warned = {} /\ faults = 0
      /\ barrier = [x \in Session |-> NoInject]
      /\ pc = [i \in Inject |-> "new"] /\ call = [i \in Inject |-> NoInject]
      /\ mail = [i \in Inject |-> "none"] /\ attempt = [i \in Inject |-> 0]
      /\ inbox = [x \in Name |-> <<>>] /\ wire = [x \in Socket |-> <<>>]
      /\ waiter = [i \in Inject |-> "none"] /\ failure = [i \in Inject |-> "none"]
      /\ textOwner = [i \in Inject |-> NoSocket] /\ reply = [i \in Inject |-> "none"]
  BY DEF Init
<1>3. TypeOK
  BY <1>1, <1>2 DEF TypeOK, PCs, MailStates, Waiters
<1>4. Shape /\ Queued
  BY <1>2 DEF Shape, Queued, OnceEach
<1>5. \A v \in Socket, i \in Inject, x \in {"body", "submit"} : ~Sent(v, i, x)
  BY <1>2 DEF Sent
<1>6. StillBound /\ BodySent /\ SubmitSent /\ Owed /\ Truthful
  BY <1>2, <1>5 DEF StillBound, BodySent, SubmitSent, Owed, Truthful
<1>7. NoBareSubmit
  BY <1>2 DEF NoBareSubmit
<1>8. RefusedNeverWritten /\ WrittenToEntryOwner
  BY <1>5 DEF RefusedNeverWritten, WrittenToEntryOwner
<1> QED
  BY <1>3, <1>4, <1>6, <1>7, <1>8 DEF Inv

\* One session, no calls: nothing is held, owed or written.
LEMMA InitPairs == Init => Pairs
<1> SUFFICES ASSUME Init PROVE Pairs
  OBVIOUS
<1>1. /\ pc = [i \in Inject |-> "new"] /\ call = [i \in Inject |-> NoInject]
      /\ waiter = [i \in Inject |-> "none"] /\ wire = [x \in Socket |-> <<>>]
      /\ mail = [i \in Inject |-> "none"]
  BY DEF Init
<1>2. PICK s \in Session, w \in Socket :
        owner = [x \in Session |-> IF x = s THEN w ELSE NoSocket] /\ unused = (Session \cup Socket) \ {s, w}
  BY DEF Init
<1>3. \A i \in Inject : Follows(i)
  BY <1>1 DEF Follows
<1>4. \A i \in Inject : ~Entered(i)
  BY <1>1 DEF Entered
<1>5. OneRecord
  <2>1. \A x \in Session : owner[x] \in Socket => x = s /\ owner[x] = w
    BY <1>2
  <2> QED
    BY <1>2, <1>4, <2>1 DEF OneRecord
<1>6. NoGluedText
  BY <1>1 DEF NoGluedText
<1> QED
  BY <1>3, <1>5, <1>6 DEF Pairs

\* The invariant, of every behaviour of the daemon.
THEOREM Invariance == Spec => []Inv
<1>1. Inv /\ [Next]_vars => Inv'
  BY TypeStep, ShapeStep, QueueStep, BoundStep, BodyStep, SubmitStep, OwedStep, TruthStep,
     FramesStep, RefusedStep, EntryStep DEF Inv
<1> QED
  BY <1>1, InitInv, PTL DEF Spec

\* The state has its types, and a barrier is held by a live call on its own session:
\* the claim and the releases of pendingSubmit in deliverInjectionToSession.
THEOREM TypeCorrect == Spec => []TypeOK
BY Invariance, PTL DEF Inv

\* A return is written only to the socket that has got its text, and no frame twice:
\* the deferred submit is fenced by the owner that the waiter was told of.
THEOREM NoBareSubmitHolds == Spec => []NoBareSubmit
BY Invariance, PTL DEF Inv

\* A caller who was told that nothing was written is never belied: the text is
\* withdrawn from the mailbox before the refusal is returned.
THEOREM RefusedNeverWrittenHolds == Spec => []RefusedNeverWritten
BY Invariance, PTL DEF Inv

\* A text is written to the owner socket that its caller saw, or the outcome was said
\* to be unknown: the binding in injectionTargets is checked before the write.
THEOREM WrittenToEntryOwnerHolds == Spec => []WrittenToEntryOwner
BY Invariance, PTL DEF Inv

\* Before a text that owes a return is written, the return of an earlier one was written behind
\* it, or its absence was reported: pendingSubmit is held from the enqueue to the submit timer.
THEOREM NoGluedTextHolds == Spec => []NoGluedText
<1>1. Inv /\ Inv' /\ Pairs /\ [Next]_vars => Pairs'
  BY FollowStep, RecordStep, ApartStep DEF Pairs, Inv
<1> QED
  BY <1>1, InitPairs, Invariance, PTL DEF Spec, Pairs
=============================================================================
