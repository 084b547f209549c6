--------------------------- MODULE InjectPipeline ---------------------------
(***************************************************************************)
(* Text injected into wrapped sessions (src/mailbox/session-delivery.js):  *)
(* the text goes through the mailbox and the delivery engine, the carriage *)
(* return that submits it follows 500 ms later, and both must reach the    *)
(* owner socket that the caller was looking at.                            *)
(*                                                                         *)
(* An action is what the daemon does between two awaits.  Meanwhile owners *)
(* reconnect and replace each other (src/transport/websocket.js), sessions *)
(* are closed, removed, renamed and registered again (src/routes), the     *)
(* engine is busy with other sessions, and locks are refused.  Submits go  *)
(* to sockets: what a bridge does with the bytes is outside this module.   *)
(***************************************************************************)
EXTENDS Naturals, FiniteSets, Sequences, SequencesExt

CONSTANTS
  Inject,      \* inject calls
  Session,     \* session records, one per registration of a name
  Socket,      \* owner connections
  Name,        \* session ids
  NoInject, NoSession, NoSocket,
  MaxRetries,  \* refused delivery attempts before a message is a dead letter
  MaxFaults    \* bound on the refused mailbox locks of a behaviour

ASSUME PipelineAssumption ==
  /\ NoInject \notin Inject /\ NoSession \notin Session /\ NoSocket \notin Socket
  /\ MaxRetries \in Nat \ {0} /\ MaxFaults \in Nat

VARIABLES
  registry,  \* registry[n]: the record that sessions[n] is
  closing,   \* the records with isClosing
  owner,     \* owner[s]: the record's ownerWs
  open,      \* the sockets with readyState OPEN
  unused,    \* the records and sockets still to come
  barrier,   \* barrier[s]: the inject whose promise is s.pendingSubmit
  pc,        \* pc[i]: what the call awaits
  call,      \* call[i]: what the call captured when it entered
  bound,     \* the injects with an entry in injectionTargets
  mail,      \* mail[i]: the state of i's message
  attempt,   \* attempt[i]: how often it was nacked
  inbox,     \* inbox[n]: the pending messages of n that may be dequeued, in order
  waiter,    \* waiter[i]: what became of awaitMailboxText
  failure,   \* failure[i]: the waiter's lastFailure, by what it says of bytes
  textOwner, \* textOwner[i]: the socket that the waiter was told of
  unsure,    \* the injects whose immediate attempt had an unknown outcome
  reply,     \* reply[i]: what the caller was told
  warned,    \* the injects with an inject_failed event for their submit
  wire,      \* wire[w]: the frames sent on w
  faults     \* refused locks so far

vars == <<registry, closing, owner, open, unused, barrier, pc, call, bound,
          mail, attempt, inbox, waiter, failure, textOwner, unsure, reply, warned,
          wire, faults>>
sessionVars == <<registry, closing, owner, open, unused>>
mailVars == <<mail, attempt, inbox>>
waitVars == <<waiter, failure, textOwner, unsure>>
answerVars == <<reply, bound, barrier, waitVars>>

PCs == {"new", "gate", "queue", "tick", "text", "submit", "done"}
MailStates == {"none", "pending", "backoff", "fenced", "acked", "dead", "purged"}
Waiters == {"none", "waiting", "settled", "unsure", "lapsed"}
Frame == [inject : Inject, part : {"body", "submit"}]
Call == [name : Name, session : Session, socket : Socket, enter : BOOLEAN]

TypeOK ==
  /\ registry \in [Name -> Session \cup {NoSession}]
  /\ closing \subseteq Session
  /\ owner \in [Session -> Socket \cup {NoSocket}]
  /\ open \subseteq Socket
  /\ unused \subseteq Session \cup Socket
  /\ barrier \in [Session -> Inject \cup {NoInject}]
  /\ pc \in [Inject -> PCs]
  /\ call \in [Inject -> Call \cup {NoInject}]
  /\ bound \subseteq Inject
  /\ mail \in [Inject -> MailStates]
  /\ attempt \in [Inject -> 0 .. MaxRetries]
  /\ inbox \in [Name -> Seq(Inject)]
  /\ waiter \in [Inject -> Waiters]
  /\ failure \in [Inject -> {"none", "zero", "other"}]
  /\ textOwner \in [Inject -> Socket \cup {NoSocket}]
  /\ unsure \subseteq Inject
  /\ reply \in [Inject -> {"none", "success", "refused", "uncertain"}]
  /\ warned \subseteq Inject
  /\ wire \in [Socket -> Seq(Frame)]
  /\ faults \in 0 .. MaxFaults
  /\ \A s \in Session : barrier[s] # NoInject =>
       /\ pc[barrier[s]] \in {"tick", "text", "submit"}
       /\ call[barrier[s]].session = s

\* One session under one name, with an owner; the rest is still to come.
Init ==
  \E n \in Name, s \in Session, w \in Socket :
    /\ n = (CHOOSE x \in Name : TRUE)
    /\ s = (CHOOSE x \in Session : TRUE)
    /\ w = (CHOOSE x \in Socket : TRUE)
    /\ registry = [x \in Name |-> IF x = n THEN s ELSE NoSession]
    /\ closing = {}
    /\ owner = [x \in Session |-> IF x = s THEN w ELSE NoSocket]
    /\ open = {w}
    /\ unused = (Session \cup Socket) \ {s, w}
    /\ barrier = [x \in Session |-> NoInject]
    /\ pc = [i \in Inject |-> "new"]
    /\ call = [i \in Inject |-> NoInject]
    /\ bound = {}
    /\ mail = [i \in Inject |-> "none"]
    /\ attempt = [i \in Inject |-> 0]
    /\ inbox = [x \in Name |-> <<>>]
    /\ waiter = [i \in Inject |-> "none"]
    /\ failure = [i \in Inject |-> "none"]
    /\ textOwner = [i \in Inject |-> NoSocket]
    /\ unsure = {}
    /\ reply = [i \in Inject |-> "none"]
    /\ warned = {}
    /\ wire = [x \in Socket |-> <<>>]
    /\ faults = 0

Fault == faults < MaxFaults /\ faults' = faults + 1

Registered(s) == \E n \in Name : registry[n] = s

\* isSameSessionInstance, and the owner socket the caller saw; the epoch
\* changes only together with the socket.
SameTarget(i) ==
  LET c == call[i] IN
  /\ registry[c.name] = c.session
  /\ c.session \notin closing
  /\ owner[c.session] = c.socket

\* getInjectFailure finds nothing wrong.
Deliverable(s) == s \notin closing /\ owner[s] \in open

ReleaseBarrier(i) ==
  barrier' = [s \in Session |-> IF barrier[s] = i THEN NoInject ELSE barrier[s]]

\* Nobody looks at the waiter of a call that has ended.
Forget(i) ==
  /\ waiter' = [waiter EXCEPT ![i] = "none"]
  /\ failure' = [failure EXCEPT ![i] = "none"]
  /\ unsure' = unsure \ {i}

\* The call returns: it holds no barrier, and later deliveries find no binding.
Answer(i, r) ==
  /\ pc' = [pc EXCEPT ![i] = "done"]
  /\ reply' = [reply EXCEPT ![i] = r]
  /\ bound' = bound \ {i}
  /\ ReleaseBarrier(i)
  /\ Forget(i) /\ UNCHANGED textOwner

-----------------------------------------------------------------------------
(* A call, from deliverInjectionToSession to the deferred submit.          *)

Enter(i, n) ==
  /\ pc[i] = "new" /\ registry[n] # NoSession
  /\ LET s == registry[n] IN
     IF Deliverable(s)
     THEN /\ \E e \in BOOLEAN :
               call' = [call EXCEPT ![i] =
                          [name |-> n, session |-> s, socket |-> owner[s], enter |-> e]]
          /\ pc' = [pc EXCEPT ![i] = "gate"]
          /\ UNCHANGED answerVars
     ELSE Answer(i, "refused") /\ UNCHANGED call
  /\ UNCHANGED <<sessionVars, mailVars, warned, wire, faults>>

\* The modal gate answered: the surface is clear, or the call is refused.
PassGate(i) ==
  /\ pc[i] = "gate"
  /\ \/ /\ SameTarget(i) /\ Deliverable(call[i].session)
        /\ pc' = [pc EXCEPT ![i] = "queue"]
        /\ UNCHANGED answerVars
     \/ Answer(i, "refused")
  /\ UNCHANGED <<sessionVars, call, mailVars, warned, wire, faults>>

QueueTimeout(i) ==
  /\ pc[i] = "queue"
  /\ Answer(i, "refused")
  /\ UNCHANGED <<sessionVars, call, mailVars, warned, wire, faults>>

\* The text goes into the mailbox and, if it owes a return, gets a waiter.
Enqueued(i) ==
  LET c == call[i] IN
  /\ pc' = [pc EXCEPT ![i] = "tick"]
  /\ mail' = [mail EXCEPT ![i] = "pending"]
  /\ inbox' = [inbox EXCEPT ![c.name] = Append(@, i)]
  /\ waiter' = [waiter EXCEPT ![i] = IF c.enter THEN "waiting" ELSE "none"]
  /\ UNCHANGED <<reply, failure, textOwner, unsure>>

\* Mutant: the barrier is not waited for.
AdmitThroughBarrier(i) ==
  LET c == call[i] IN
  /\ pc[i] = "queue"
  /\ IF SameTarget(i) /\ Deliverable(c.session)
     THEN /\ Enqueued(i)
          /\ bound' = bound \cup {i}
          /\ barrier' = IF c.enter THEN [barrier EXCEPT ![c.session] = i] ELSE barrier
     ELSE Answer(i, "refused") /\ UNCHANGED <<mail, inbox>>
  /\ UNCHANGED <<sessionVars, call, attempt, warned, wire, faults>>

\* The barrier is free: check the target again, claim the barrier, enqueue the
\* text and bind it to the instance and the socket.
Admit(i) ==
  LET c == call[i] IN
  /\ pc[i] = "queue" /\ barrier[c.session] = NoInject
  /\ IF SameTarget(i) /\ Deliverable(c.session)
     THEN /\ Enqueued(i)
          /\ bound' = bound \cup {i}
          /\ barrier' = IF c.enter THEN [barrier EXCEPT ![c.session] = i] ELSE barrier
     ELSE Answer(i, "refused") /\ UNCHANGED <<mail, inbox>>
  /\ UNCHANGED <<sessionVars, call, attempt, warned, wire, faults>>

\* Enqueue threw, and the withdrawal that follows changes nothing.
EnqueueRefused(i) ==
  LET c == call[i] IN
  /\ pc[i] = "queue" /\ barrier[c.session] = NoInject
  /\ SameTarget(i) /\ Deliverable(c.session)
  /\ Answer(i, "uncertain") /\ Fault
  /\ UNCHANGED <<sessionVars, call, mailVars, warned, wire>>

\* The immediate tick is over, whether or not it delivered this text.  A call
\* without a return ends here, its text written or still bound.
TickReturns(i) ==
  /\ pc[i] = "tick"
  /\ \/ i \in unsure /\ Answer(i, "uncertain")
     \/ /\ i \notin unsure /\ call[i].enter
        /\ pc' = [pc EXCEPT ![i] = "text"]
        /\ UNCHANGED answerVars
     \/ /\ i \notin unsure /\ ~call[i].enter
        /\ pc' = [pc EXCEPT ![i] = "done"]
        /\ reply' = [reply EXCEPT ![i] = "success"]
        /\ UNCHANGED <<bound, barrier, waitVars>>
  /\ UNCHANGED <<sessionVars, call, mailVars, warned, wire, faults>>

WaiterTimeout(i) ==
  /\ waiter[i] = "waiting"
  /\ waiter' = [waiter EXCEPT ![i] = "lapsed"]
  /\ UNCHANGED <<sessionVars, barrier, pc, call, bound, mailVars, failure, textOwner,
                 unsure, reply, warned, wire, faults>>

\* The text was written: the caller is answered and the submit timer is set.
TextWritten(i) ==
  /\ pc[i] = "text" /\ waiter[i] = "settled"
  /\ pc' = [pc EXCEPT ![i] = "submit"]
  /\ reply' = [reply EXCEPT ![i] = "success"]
  /\ Forget(i)
  /\ UNCHANGED <<sessionVars, barrier, call, bound, mailVars, textOwner, warned, wire, faults>>

TextUnsure(i) ==
  /\ pc[i] = "text" /\ waiter[i] = "unsure"
  /\ Answer(i, "uncertain")
  /\ UNCHANGED <<sessionVars, call, mailVars, warned, wire, faults>>

\* The message leaves the inbox of its session, dead.
Bury(i) ==
  /\ mail' = [mail EXCEPT ![i] = "dead"]
  /\ inbox' = [n \in Name |-> RemoveFirst(inbox[n], i)]

Withdrawable(i) == mail[i] \in {"pending", "backoff"}

\* Mutant: what was not written in time is left in the mailbox.
TextLateLeft(i) ==
  /\ pc[i] = "text" /\ waiter[i] = "lapsed"
  /\ Answer(i, IF Withdrawable(i) THEN "refused" ELSE "uncertain")
  /\ UNCHANGED <<sessionVars, call, mailVars, warned, wire, faults>>

\* The text was not written in time: withdraw it if nobody holds it, else say
\* so, and mark it so that no retry can write it.
TextLate(i) ==
  /\ pc[i] = "text" /\ waiter[i] = "lapsed"
  /\ \/ Withdrawable(i) /\ Answer(i, "refused") /\ Bury(i) /\ UNCHANGED faults
     \/ /\ mail[i] = "dead" /\ failure[i] = "zero"
        /\ Answer(i, "refused") /\ UNCHANGED <<mail, inbox, faults>>
     \/ /\ mail[i] = "fenced"
        /\ Answer(i, "uncertain") /\ Bury(i) /\ UNCHANGED faults
     \/ /\ mail[i] \in {"acked", "purged"} \/ (mail[i] = "dead" /\ failure[i] # "zero")
        /\ Answer(i, "uncertain") /\ UNCHANGED <<mail, inbox, faults>>
     \/ /\ mail[i] \in {"pending", "backoff", "fenced"}
        /\ Answer(i, "uncertain") /\ Fault
        /\ Bury(i) \/ UNCHANGED <<mail, inbox>>
  /\ UNCHANGED <<sessionVars, call, attempt, warned, wire>>

Send(w, i, part) == wire' = [wire EXCEPT ![w] = Append(@, [inject |-> i, part |-> part])]

\* The submit timer ends in any case, and lets the next call in.
SubmitEnds(i) ==
  /\ pc' = [pc EXCEPT ![i] = "done"]
  /\ textOwner' = [textOwner EXCEPT ![i] = NoSocket]
  /\ ReleaseBarrier(i)

\* Mutant: a submit that was not written keeps the barrier.
SubmitKeepingBarrier(i) ==
  LET s == call[i].session IN
  /\ pc[i] = "submit"
  /\ \/ /\ Registered(s) /\ owner[s] = textOwner[i] /\ Deliverable(s)
        /\ Send(owner[s], i, "submit") /\ SubmitEnds(i) /\ UNCHANGED warned
     \/ /\ warned' = warned \cup {i}
        /\ pc' = [pc EXCEPT ![i] = "done"] /\ UNCHANGED <<wire, barrier, textOwner>>
  /\ UNCHANGED <<sessionVars, call, bound, mailVars, waiter, failure, unsure, reply, faults>>

\* Mutant: the return goes to whoever owns the session now.
SubmitToCurrentOwner(i) ==
  LET s == call[i].session IN
  /\ pc[i] = "submit" /\ SubmitEnds(i)
  /\ \/ /\ Registered(s) /\ Deliverable(s)
        /\ Send(owner[s], i, "submit") /\ UNCHANGED warned
     \/ warned' = warned \cup {i} /\ UNCHANGED wire
  /\ UNCHANGED <<sessionVars, call, bound, mailVars, waiter, failure, unsure, reply, faults>>

\* The return goes to the socket that got the text, if the instance is still
\* live under any name; it is reported when it is not written, which a held
\* interaction can cause too.
Submit(i) ==
  LET s == call[i].session IN
  /\ pc[i] = "submit" /\ SubmitEnds(i)
  /\ \/ /\ Registered(s) /\ owner[s] = textOwner[i] /\ Deliverable(s)
        /\ Send(owner[s], i, "submit") /\ UNCHANGED warned
     \/ warned' = warned \cup {i} /\ UNCHANGED wire
  /\ UNCHANGED <<sessionVars, call, bound, mailVars, waiter, failure, unsure, reply, faults>>

-----------------------------------------------------------------------------
(* The delivery engine: one message of a session per tick.                 *)

\* A waiter that is still there learns what became of its text.
Tell(m, state, why) ==
  /\ waiter' = IF waiter[m] = "waiting" THEN [waiter EXCEPT ![m] = state] ELSE waiter
  /\ failure' = IF waiter[m] = "waiting" /\ why # "none"
                THEN [failure EXCEPT ![m] = why] ELSE failure

\* The call is told if it still awaits its immediate tick.
TellTick(m) == unsure' = IF pc[m] = "tick" THEN unsure \cup {m} ELSE unsure

Dequeued(n, m) == inbox[n] # <<>> /\ m = Head(inbox[n])
Taken(n) == inbox' = [inbox EXCEPT ![n] = Tail(@)]
Becomes(m, state) == mail' = [mail EXCEPT ![m] = state]

\* Mutant: only the instance is compared, not the owner socket.
MisdirectedByInstance(s, m) == m \in bound /\ call[m].session # s

\* The text is bound to another instance or to another owner socket.
Misdirected(s, m) ==
  m \in bound /\ (call[m].session # s \/ owner[s] # call[m].socket)

\* The bound target is gone: the text is withdrawn, or stays fenced when the
\* withdrawal gets no lock.
DeliverGone(n, m) ==
  LET s == registry[n] IN
  /\ Misdirected(s, m)
  /\ bound' = bound \ {m}
  /\ \/ Becomes(m, "dead") /\ Tell(m, "waiting", "zero") /\ UNCHANGED <<unsure, faults>>
     \/ /\ Becomes(m, "dead") \/ Becomes(m, "fenced")
        /\ Tell(m, "unsure", "other") /\ TellTick(m) /\ Fault
  /\ UNCHANGED <<attempt, textOwner, wire>>

\* The text is written; its acknowledgement may be refused.
DeliverText(n, m) ==
  LET s == registry[n] IN
  /\ ~Misdirected(s, m) /\ owner[s] \in open
  /\ Send(owner[s], m, "body")
  /\ Tell(m, "settled", "none")
  /\ textOwner' = IF waiter[m] = "waiting" THEN [textOwner EXCEPT ![m] = owner[s]]
                  ELSE textOwner
  /\ bound' = bound \ {m}
  /\ \/ Becomes(m, "acked") /\ UNCHANGED <<unsure, faults>>
     \/ Becomes(m, "fenced") /\ TellTick(m) /\ Fault
  /\ UNCHANGED attempt

\* Nothing is written: the interaction is held, or the socket is not open.
DeliverNothing(n, m) ==
  LET s == registry[n] IN
  /\ ~Misdirected(s, m)
  /\ Tell(m, "waiting", IF owner[s] \in open THEN "zero" ELSE "other")
  /\ \/ /\ attempt' = [attempt EXCEPT ![m] = @ + 1]
        /\ IF attempt[m] + 1 >= MaxRetries
           THEN Becomes(m, "dead") /\ bound' = bound \ {m}
           ELSE Becomes(m, "backoff") /\ UNCHANGED bound
        /\ UNCHANGED faults
     \/ Becomes(m, "fenced") /\ UNCHANGED <<attempt, bound>> /\ Fault
  /\ UNCHANGED <<textOwner, unsure, wire>>

Deliver(n) ==
  /\ registry[n] # NoSession /\ registry[n] \notin closing
  /\ \E m \in Inject :
       /\ Dequeued(n, m) /\ Taken(n)
       /\ DeliverGone(n, m) \/ DeliverText(n, m) \/ DeliverNothing(n, m)
  /\ UNCHANGED <<sessionVars, barrier, pc, call, reply, warned>>

BackoffEnds(i) ==
  /\ mail[i] = "backoff"
  /\ Becomes(i, "pending")
  /\ inbox' = [inbox EXCEPT ![call[i].name] = Append(@, i)]
  /\ UNCHANGED <<sessionVars, barrier, pc, call, bound, attempt, waitVars, reply, warned,
                 wire, faults>>

-----------------------------------------------------------------------------
(* Owners and records.                                                     *)

NextOf(S) == CHOOSE x \in S : TRUE
callVars == <<barrier, pc, call, bound, attempt, waitVars, reply, warned, wire>>

\* A new owner connection displaces the one there is (close code 4001).
ClaimOwner(n) ==
  LET s == registry[n] IN
  /\ s # NoSession /\ s \notin closing /\ unused \cap Socket # {}
  /\ LET w == NextOf(unused \cap Socket) IN
     /\ owner' = [owner EXCEPT ![s] = w]
     /\ open' = (open \ {owner[s]}) \cup {w}
     /\ unused' = unused \ {w}
  /\ UNCHANGED <<registry, closing, callVars, mail, inbox, faults>>

SocketCloses(w) ==
  /\ w \in open
  /\ open' = open \ {w}
  /\ UNCHANGED <<registry, closing, owner, unused, callVars, mail, inbox, faults>>

\* The close handler of the owner socket clears the slot.
OwnerDisconnected(n) ==
  LET s == registry[n] IN
  /\ s # NoSession /\ owner[s] \in Socket \ open
  /\ owner' = [owner EXCEPT ![s] = NoSocket]
  /\ UNCHANGED <<registry, closing, open, unused, callVars, mail, inbox, faults>>

\* A teardown marks the record and awaits the kill of its process.
BeginClose(n) ==
  LET s == registry[n] IN
  /\ s # NoSession /\ s \notin closing
  /\ closing' = closing \cup {s}
  /\ UNCHANGED <<registry, owner, open, unused, callVars, mail, inbox, faults>>

\* The record and its mailbox go, after a teardown or at once by DELETE; a purge
\* that gets no lock is forgotten.
RemoveRecord(n) ==
  LET s == registry[n] IN
  /\ s # NoSession
  /\ registry' = [registry EXCEPT ![n] = NoSession]
  /\ closing' = closing \cup {s}
  /\ open' = open \ {owner[s]}
  /\ \/ /\ mail' = [i \in Inject |->
                      IF mail[i] # "none" /\ call[i].name = n THEN "purged" ELSE mail[i]]
        /\ inbox' = [inbox EXCEPT ![n] = <<>>]
        /\ UNCHANGED faults
     \/ UNCHANGED <<mail, inbox>> /\ Fault
  /\ UNCHANGED <<owner, unused, callVars>>

\* The name is registered again: another record, with a fresh owner slot.
Register(n) ==
  /\ registry[n] = NoSession /\ unused \cap Session # {}
  /\ LET s == NextOf(unused \cap Session) IN
     registry' = [registry EXCEPT ![n] = s] /\ unused' = unused \ {s}
  /\ UNCHANGED <<closing, owner, open, callVars, mail, inbox, faults>>

\* A rename moves the live record; its pending messages stay under the old name.
Rename(n, m) ==
  LET s == registry[n] IN
  /\ s # NoSession /\ s \notin closing /\ registry[m] = NoSession
  /\ registry' = [registry EXCEPT ![n] = NoSession, ![m] = s]
  /\ UNCHANGED <<closing, owner, open, unused, callVars, mail, inbox, faults>>

\* What a call does by itself: an await is over, or one of its timers fires.
CallStep(i) ==
  \/ PassGate(i) \/ QueueTimeout(i) \/ Admit(i) \/ TickReturns(i) \/ WaiterTimeout(i)
  \/ TextWritten(i) \/ TextUnsure(i) \/ TextLate(i) \/ Submit(i)

Next ==
  \/ \E i \in Inject : CallStep(i) \/ EnqueueRefused(i) \/ BackoffEnds(i)
  \/ \E i \in Inject, n \in Name : Enter(i, n)
  \/ \E n \in Name :
       \/ Deliver(n) \/ ClaimOwner(n) \/ OwnerDisconnected(n) \/ BeginClose(n)
       \/ RemoveRecord(n) \/ Register(n)
  \/ \E n, m \in Name : Rename(n, m)
  \/ \E w \in Socket : SocketCloses(w)

Spec == Init /\ [][Next]_vars

\* Timers fire and promises settle; nothing is asked of the engine or of owners.
FairSpec == Spec /\ \A i \in Inject : WF_vars(CallStep(i))

-----------------------------------------------------------------------------
(* Properties.                                                             *)

Sent(w, i, part) == \E k \in DOMAIN wire[w] : wire[w][k] = [inject |-> i, part |-> part]

\* A return never reaches a socket that has not got the text it submits, and
\* no frame is sent twice, whoever owned the session in between.
NoBareSubmit ==
  /\ \A w \in Socket : \A k \in DOMAIN wire[w] : wire[w][k].part = "submit" =>
       \E j \in 1 .. k - 1 : wire[w][j] = [inject |-> wire[w][k].inject, part |-> "body"]
  /\ \A v, w \in Socket : \A j \in DOMAIN wire[v], k \in DOMAIN wire[w] :
       wire[v][j] = wire[w][k] => v = w /\ j = k

\* The frames of an answered pair are never interleaved: before the text of
\* another call that owes a return, the return of the earlier text was sent,
\* or its absence was reported.
NoGluedText ==
  \A w \in Socket : \A j, k \in DOMAIN wire[w] :
    LET a == wire[w][j].inject
        b == wire[w][k].inject
    IN /\ j < k /\ wire[w][j].part = "body" /\ wire[w][k].part = "body"
       /\ call[a].enter /\ call[b].enter
       => \/ \E l \in j + 1 .. k - 1 : wire[w][l] = [inject |-> a, part |-> "submit"]
          \/ a \in warned \/ reply[a] = "uncertain" \/ reply[b] = "uncertain"

\* Whoever was told that nothing was written was told the truth, for ever.
RefusedNeverWritten ==
  \A i \in Inject, w \in Socket : reply[i] = "refused" => ~Sent(w, i, "body")

\* Text reaches the owner that its caller saw, or the caller was told that the
\* outcome is unknown.
WrittenToEntryOwner ==
  \A i \in Inject, w \in Socket :
    Sent(w, i, "body") => w = call[i].socket \/ reply[i] = "uncertain"

\* The submit barrier of a session is always released: a call that claimed it
\* ends by itself, whatever the engine, the owner and the record do.
EveryBarrierReleased ==
  \A s \in Session, i \in Inject : barrier[s] = i ~> barrier[s] # i
=============================================================================
