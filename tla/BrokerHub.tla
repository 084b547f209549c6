------------------------------ MODULE BrokerHub ------------------------------
(* The broker: a hub that keeps one durable receipt per operation, forwards    *)
(* the operation once over the event stream of its target node and waits for   *)
(* the node's result; the node hands it to its local daemon, which keeps a      *)
(* receipt of its own and answers with an HTTP status, which the node reads as   *)
(* accepted, failed or unknown.  Hub, nodes and daemons stop at any time, streams *)
(* break, results come late or never, and a write of the receipt store may fail *)
(* before or after it took effect.                                             *)
(*                                                                             *)
(* A retry of the sender with the same key only reads a receipt (Shown), so it  *)
(* changes nothing here.  Signatures, audiences and the request window are out. *)
EXTENDS Integers, Sequences, FiniteSets

CONSTANTS
  Ops,          \* operations: an idempotency key and what it asks for
  Nodes,        \* the enrolled nodes
  Target,       \* the node each operation goes to
  Broadcasts,   \* the broadcasts to choose from: operations in the order of their targets
  SshSubmits,   \* operations whose text and return are two writes to a remote shell
  MaxPending,   \* max_pending of the sending node
  MaxFaults,    \* bound: failed writes and torn records, hub and daemons together
  MaxCrashes,   \* bound: crashes of the hub
  MaxConnects   \* bound: streams opened

ASSUME TargetAssumption == Target \in [Ops -> Nodes]
ASSUME BroadcastAssumption ==
  /\ Broadcasts \subseteq Seq(Ops)
  /\ \A b \in Broadcasts : \A i, j \in 1..Len(b) : b[i] = b[j] => i = j
ASSUME SshAssumption == SshSubmits \subseteq Ops
ASSUME BoundsAssumption ==
  /\ MaxPending \in Nat /\ MaxFaults \in Nat /\ MaxCrashes \in Nat /\ MaxConnects \in Nat

VARIABLES
  broadcast,    \* the one broadcast of a behaviour; other operations are injects
  hub,          \* the hub process runs
  state,        \* receipts of the hub: record.state, "none" without a record,
                \* "torn" for a file cut short by a failed first write
  result,       \* record.result_fingerprint: the result a node reported
  group,        \* the record of the broadcast
  active,       \* ledger.active: receipts this process waits for
  timers,       \* operations with an armed timeout
  toReserve,    \* the request in hand: operations still to reserve ...
  toSend,       \* ... and to dispatch
  streams,      \* nodes with an entry in the hub's streams
  wire,         \* frames a node has not read yet
  node,         \* what the node process does, and for which operation
  posted,       \* results on their way to the hub
  request,      \* the request of a node to its daemon, or the answer to it
  inbound,      \* receipts of the daemons
  injected,     \* how often the daemon took the text of the operation
  faults, crashes, connects

requestVars == <<toReserve, toSend>>
recordVars == <<state, result, group>>
streamVars == <<streams, wire>>
daemonVars == <<request, inbound, injected>>
vars == <<broadcast, hub, recordVars, active, timers, requestVars, streamVars, node, posted,
          daemonVars, faults, crashes, connects>>

None == "none"
Results == {"accepted", "failed", "outcome_unknown"}
States == {None, "torn", "pending"} \cup Results

(* The answers of a daemon: 200; a refusal with a status below 500; a text of    *)
(* uncertain delivery whose mailbox is gone, which is 410 with                  *)
(* delivery_uncertain; or a status (202, 5xx) or failed call that says nothing. *)
Answers == {"accepted", "refused", "gone", "unsure"}
Receipts == {None, "torn", "pending"} \cup Answers
Replies == {None, "sent", "running"} \cup Answers
Places == {"off", "reading", "local", "posting"}

(* A write of a receipt: done, failed with nothing written, or failed after    *)
(* the rename (a directory that could not be synced).  The first write of a     *)
(* record goes to the file itself and may also leave a part of it.              *)
Saves == {"done", "before", "after"}
FirstSaves == Saves \cup {"torn"}

Meet(save) ==
  /\ faults' = faults + (IF save = "done" THEN 0 ELSE 1)
  /\ faults' <= MaxFaults

Rewritten(save, old, new) == IF save = "before" THEN old ELSE new
FirstWritten(save) ==
  CASE save = "torn" -> "torn" [] save = "before" -> None [] OTHER -> "pending"

(* How a node reads an answer: by its status and two codes; it does not look at  *)
(* delivery_uncertain.  No answer is none it could read.                       *)
Classified(answer) ==
  CASE answer = "accepted" -> "accepted"
    [] answer \in {"refused", "gone"} -> "failed"
    [] OTHER -> "outcome_unknown"

(* all() throws on a record it cannot read: nothing new is admitted then.      *)
Corrupt == group = "torn" \/ \E o \in Ops : state[o] = "torn"

(* What the hub answers about a receipt.                                       *)
Shown(o) == IF state[o] = "pending" /\ o \notin active THEN "outcome_unknown" ELSE state[o]

(* The reader at the other end of the hub's entry is there: a node connects     *)
(* again only when that entry is gone.                                         *)
Connected(n) == n \in streams /\ node[n].at # "off"

(* The hub is one thread: no handler runs inside another one.                  *)
Idle == hub /\ toReserve = <<>> /\ toSend = <<>>

Init ==
  /\ broadcast \in Broadcasts
  /\ hub = TRUE
  /\ state = [o \in Ops |-> None] /\ result = [o \in Ops |-> None] /\ group = None
  /\ active = {} /\ timers = {} /\ toReserve = <<>> /\ toSend = <<>>
  /\ streams = {} /\ wire = [n \in Nodes |-> <<>>]
  /\ node = [n \in Nodes |-> [at |-> "off", op |-> None]]
  /\ posted = [o \in Ops |-> None]
  /\ request = [o \in Ops |-> None] /\ inbound = [o \in Ops |-> None]
  /\ injected = [o \in Ops |-> 0]
  /\ faults = 0 /\ crashes = 0 /\ connects = 0

-----------------------------------------------------------------------------
(* Requests of the sender                                                      *)

Admitted(count) == ~Corrupt /\ Cardinality(active) + count <= MaxPending

(* A fresh inject that dispatch.admit lets through.                            *)
Inject(o) ==
  /\ Idle /\ state[o] = None /\ Admitted(1)
  /\ \A i \in DOMAIN broadcast : broadcast[i] # o
  /\ toReserve' = <<o>> /\ toSend' = <<o>>
  /\ UNCHANGED <<broadcast, hub, recordVars, active, timers, streamVars, node, posted, daemonVars,
                 faults, crashes, connects>>

(* A broadcast: its own record first; a record that exists is never replayed.  *)
BroadcastAll ==
  /\ Idle /\ group = None /\ broadcast # <<>> /\ Admitted(Len(broadcast))
  /\ \E save \in FirstSaves :
       /\ Meet(save)
       /\ group' = FirstWritten(save)
       /\ toReserve' = IF save = "done" THEN broadcast ELSE <<>>
       /\ toSend' = IF save = "done" THEN broadcast ELSE <<>>
  /\ UNCHANGED <<broadcast, hub, state, result, active, timers, streamVars, node, posted, daemonVars,
                 crashes, connects>>

(* reserve: every intent of the request is durable before anything is sent.    *)
(* A throw ends the request.                                                   *)
Reserve ==
  /\ hub /\ toReserve # <<>> /\ state[Head(toReserve)] = None
  /\ \E save \in FirstSaves :
       /\ Meet(save)
       /\ state' = [state EXCEPT ![Head(toReserve)] = FirstWritten(save)]
       /\ toReserve' = IF save = "done" THEN Tail(toReserve) ELSE <<>>
       /\ toSend' = IF save = "done" THEN toSend ELSE <<>>
  /\ UNCHANGED <<broadcast, hub, result, group, active, timers, streamVars, node, posted, daemonVars,
                 crashes, connects>>

(* The node is offline or the stream's buffer is full: the receipt fails.      *)
Refuse(o) ==
  /\ ~Connected(Target[o]) \/ wire[Target[o]] # <<>>
  /\ \E save \in Saves :
       /\ Meet(save)
       /\ state' = [state EXCEPT ![o] = Rewritten(save, @, "failed")]
       /\ toSend' = IF save = "done" THEN Tail(toSend) ELSE <<>>
  /\ UNCHANGED <<active, timers, wire>>

(* The frame reaches the node only while its reader is there; a frame written   *)
(* to a stream that has ended is lost as one is that the node leaves unread.   *)
FrameWritten(o) ==
  wire' = IF Connected(Target[o]) THEN [wire EXCEPT ![Target[o]] = Append(@, o)] ELSE wire

Send(o) ==
  /\ Target[o] \in streams
  /\ FrameWritten(o)
  /\ active' = active \cup {o} /\ timers' = timers \cup {o}
  /\ toSend' = Tail(toSend)
  /\ UNCHANGED <<state, faults>>

(* write, or the audit after it, throws: outcome unknown, and no timer.  When   *)
(* that cannot be saved either, the receipt stays active without a timer.      *)
SendThrows(o) ==
  /\ Target[o] \in streams
  /\ FrameWritten(o) \/ wire' = wire
  /\ \E save \in Saves :
       /\ faults' = faults + (IF save = "done" THEN 1 ELSE 2) /\ faults' <= MaxFaults
       /\ state' = [state EXCEPT ![o] = Rewritten(save, @, "outcome_unknown")]
       /\ active' = IF save = "done" THEN active ELSE active \cup {o}
       /\ toSend' = IF save = "done" THEN Tail(toSend) ELSE <<>>
  /\ UNCHANGED timers

(* dispatch of the next operation of the request.                              *)
Dispatch ==
  /\ hub /\ toReserve = <<>> /\ toSend # <<>>
  /\ \E o \in {Head(toSend)} : Refuse(o) \/ Send(o) \/ SendThrows(o)
  /\ UNCHANGED <<broadcast, hub, result, group, toReserve, streams, node, posted, daemonVars,
                 crashes, connects>>

-----------------------------------------------------------------------------
(* How a receipt settles at the hub                                            *)

\* Mutant: an operation without a result in time counts as failed.
TimeoutFails(o) ==
  /\ Idle /\ o \in timers
  /\ timers' = timers \ {o} /\ active' = active \ {o}
  /\ state' = [state EXCEPT ![o] = IF @ = "pending" THEN "failed" ELSE @]
  /\ UNCHANGED <<broadcast, hub, result, group, requestVars, streamVars, node, posted,
                 daemonVars, faults, crashes, connects>>

(* No result in time.  finish is tried once; if it throws, the receipt is only *)
(* taken off the active ones.  A receipt that is not pending is left alone.    *)
Timeout(o) ==
  /\ Idle /\ o \in timers
  /\ timers' = timers \ {o}
  /\ IF state[o] = "pending"
     THEN \E save \in Saves :
            /\ Meet(save)
            /\ state' = [state EXCEPT ![o] = Rewritten(save, @, "outcome_unknown")]
            /\ active' = active \ {o}
     ELSE UNCHANGED <<state, active, faults>>
  /\ UNCHANGED <<broadcast, hub, result, group, requestVars, streamVars, node, posted, daemonVars,
                 crashes, connects>>

(* The close event of a node's stream: what is active for it becomes unknown,  *)
(* each receipt by itself.  If the records cannot be listed, nothing happens.  *)
\* Mutant: only receipts that are still pending.
WaitingPending(n) == {o \in active : Target[o] = n /\ state[o] = "pending"}
Waiting(n) == {o \in active : Target[o] = n}
StreamLost(n) ==
  /\ Idle /\ n \in streams
  /\ streams' = streams \ {n}
  /\ \/ /\ Corrupt
        /\ UNCHANGED <<state, active, timers, faults>>
     \/ /\ ~Corrupt
        /\ \E save \in Saves, bad \in Ops :
             /\ Meet(save)
             /\ save # "done" => bad \in Waiting(n)
             /\ state' = [o \in Ops |->
                  IF o \notin Waiting(n) \/ (o = bad /\ save = "before")
                  THEN state[o] ELSE "outcome_unknown"]
             /\ active' = active \ Waiting(n)
             /\ timers' = timers \ {o \in Waiting(n) : o # bad \/ save = "done"}
  /\ UNCHANGED <<broadcast, hub, result, group, requestVars, wire, node, posted, daemonVars,
                 crashes, connects>>

(* The result a node has posted.  The first one that is saved counts, also     *)
(* after a timeout; a second one changes nothing.  The answer may be lost.     *)
Result(o) ==
  /\ Idle /\ posted[o] # None /\ state[o] \notin {None, "torn"}
  /\ posted' = [posted EXCEPT ![o] = None]
  /\ \E save \in Saves :
       /\ Meet(save)
       /\ result[o] # None => save = "done"
       /\ IF result[o] # None THEN UNCHANGED <<state, result, active, timers>>
          ELSE /\ state' = [state EXCEPT ![o] = Rewritten(save, @, posted[o])]
               /\ result' = [result EXCEPT ![o] = Rewritten(save, @, posted[o])]
               /\ active' = IF save = "done" THEN active \ {o} ELSE active
               /\ timers' = IF save = "done" THEN timers \ {o} ELSE timers
       /\ \/ UNCHANGED node
          \/ /\ save = "done" /\ node[Target[o]] = [at |-> "posting", op |-> o]
             /\ node' = [node EXCEPT ![Target[o]] = [at |-> "reading", op |-> None]]
  /\ UNCHANGED <<broadcast, hub, group, requestVars, streamVars, daemonVars, crashes, connects>>

(* The hub is killed: records stay, everything in memory and every connection  *)
(* is gone, a request in hand with them.                                       *)
Crash ==
  /\ hub /\ crashes < MaxCrashes
  /\ hub' = FALSE /\ crashes' = crashes + 1
  /\ active' = {} /\ timers' = {} /\ toReserve' = <<>> /\ toSend' = <<>>
  /\ streams' = {}
  /\ posted' = [o \in Ops |-> None]
  /\ UNCHANGED <<broadcast, recordVars, wire, node, daemonVars, faults, connects>>

Restart ==
  /\ ~hub /\ hub' = TRUE
  /\ UNCHANGED <<broadcast, recordVars, active, timers, requestVars, streamVars, node, posted,
                 daemonVars, faults, crashes, connects>>

-----------------------------------------------------------------------------
(* The nodes                                                                   *)

(* A node connects, with a new challenge; a node the hub still has an entry     *)
(* for is refused.                                                             *)
Connect(n) ==
  /\ Idle /\ node[n].at = "off" /\ n \notin streams /\ connects < MaxConnects
  /\ connects' = connects + 1
  /\ streams' = streams \cup {n}
  /\ wire' = [wire EXCEPT ![n] = <<>>]
  /\ node' = [node EXCEPT ![n] = [at |-> "reading", op |-> None]]
  /\ UNCHANGED <<broadcast, hub, recordVars, active, timers, requestVars, posted, daemonVars,
                 faults, crashes>>

(* The node loses its stream, gives up a result it could not post, or dies.    *)
Leave(n) ==
  /\ node[n].at # "off"
  /\ node' = [node EXCEPT ![n] = [at |-> "off", op |-> None]]
  /\ wire' = [wire EXCEPT ![n] = <<>>]
  /\ request' = [o \in Ops |->
       IF o = node[n].op /\ request[o] \in Answers THEN None ELSE request[o]]
  /\ UNCHANGED <<broadcast, hub, recordVars, active, timers, requestVars, streams, posted, inbound,
                 injected, faults, crashes, connects>>

(* Frames are handled one at a time, in order.                                 *)
Read(n) ==
  /\ node[n].at = "reading" /\ wire[n] # <<>>
  /\ node' = [node EXCEPT ![n] = [at |-> "local", op |-> Head(wire[n])]]
  /\ wire' = [wire EXCEPT ![n] = Tail(@)]
  /\ request' = [request EXCEPT ![Head(wire[n])] = "sent"]
  /\ UNCHANGED <<broadcast, hub, recordVars, active, timers, requestVars, streams, posted,
                 inbound, injected, faults, crashes, connects>>

(* The daemon's answer, or none within local_timeout_ms, and the one POST of   *)
(* the result that follows.                                                    *)
Post(n) ==
  /\ node[n].at = "local"
  /\ \E o \in {node[n].op} :
       /\ posted' = [posted EXCEPT ![o] = Classified(request[o])]
       /\ request' = [request EXCEPT ![o] = IF @ \in Answers THEN None ELSE @]
       /\ node' = [node EXCEPT ![n] = [at |-> "posting", op |-> o]]
  /\ UNCHANGED <<broadcast, hub, recordVars, active, timers, requestVars, streamVars, inbound, injected,
                 faults, crashes, connects>>

-----------------------------------------------------------------------------
(* The daemons                                                                 *)

(* An answer reaches the node that still waits for it, or nobody.              *)
Answer(o, reply) ==
  request' = [request EXCEPT ![o] =
    IF node[Target[o]] = [at |-> "local", op |-> o] THEN reply ELSE None]

(* The forwarded route: a session that is gone or has another epoch refuses, a  *)
(* store that cannot be read is no answer; otherwise the daemon's own receipt is *)
(* reserved before anything is injected.  A receipt that exists is answered with *)
(* the status it was filed with.                                               *)
Forwarded(o) ==
  /\ request[o] = "sent"
  /\ \/ /\ Answer(o, "refused") \/ Answer(o, "unsure")
        /\ UNCHANGED <<inbound, faults>>
     \/ /\ inbound[o] # None
        /\ Answer(o, IF inbound[o] \in Answers THEN inbound[o] ELSE "unsure")
        /\ UNCHANGED <<inbound, faults>>
     \/ /\ inbound[o] = None
        /\ \E save \in FirstSaves :
             /\ Meet(save)
             /\ inbound' = [inbound EXCEPT ![o] = FirstWritten(save)]
             /\ IF save = "done" THEN request' = [request EXCEPT ![o] = "running"]
                ELSE Answer(o, "unsure")
  /\ UNCHANGED <<broadcast, hub, recordVars, active, timers, requestVars, streamVars, node, posted,
                 injected, crashes, connects>>

(* The inject of the daemon.  An accepted text is taken.  A refused one is not,  *)
(* unless it went to a remote shell: there the text may be written and only its *)
(* return refused.  Of any other nobody knows.  What is answered is filed first; *)
(* if that fails, the answer is 503.                                           *)
Delivered(o) ==
  /\ request[o] = "running"
  /\ \E answer \in Answers, hit \in {0, 1}, save \in Saves :
       /\ answer = "accepted" => hit = 1
       /\ answer = "refused" => hit = 0 \/ o \in SshSubmits
       /\ Meet(save)
       /\ injected' = [injected EXCEPT ![o] = @ + hit]
       /\ inbound' = [inbound EXCEPT ![o] = Rewritten(save, @, answer)]
       /\ Answer(o, IF save = "done" THEN answer ELSE "unsure")
  /\ UNCHANGED <<broadcast, hub, recordVars, active, timers, requestVars, streamVars, node, posted,
                 crashes, connects>>

(* The daemon dies over a request, with or without having injected.            *)
DaemonDies(o) ==
  /\ request[o] \in {"sent", "running"}
  /\ \E hit \in IF request[o] = "running" THEN {0, 1} ELSE {0} :
       injected' = [injected EXCEPT ![o] = @ + hit]
  /\ Answer(o, "unsure")
  /\ UNCHANGED <<broadcast, hub, recordVars, active, timers, requestVars, streamVars, node, posted,
                 inbound, faults, crashes, connects>>

-----------------------------------------------------------------------------
Next ==
  \/ BroadcastAll \/ Reserve \/ Dispatch \/ Crash \/ Restart
  \/ \E o \in Ops : Inject(o) \/ Timeout(o) \/ Result(o)
  \/ \E o \in Ops : Forwarded(o) \/ Delivered(o) \/ DaemonDies(o)
  \/ \E n \in Nodes : StreamLost(n) \/ Connect(n) \/ Leave(n) \/ Read(n) \/ Post(n)

(* A handler runs to its end, an armed timer fires, and a stream is closed at   *)
(* the latest when stream_ms is over.  Nodes and daemons owe nothing.          *)
Fairness ==
  /\ WF_vars(Reserve) /\ WF_vars(Dispatch)
  /\ \A o \in Ops : WF_vars(Timeout(o))
  /\ \A n \in Nodes : WF_vars(StreamLost(n))

Spec == Init /\ [][Next]_vars /\ Fairness

-----------------------------------------------------------------------------
(* Properties                                                                  *)

(* Every variable has its type, only a running hub waits for anything, and what *)
(* it waits for has a record.                                                  *)
TypeOK ==
  /\ broadcast \in Broadcasts
  /\ hub \in BOOLEAN /\ state \in [Ops -> States]
  /\ result \in [Ops -> {None} \cup Results] /\ group \in {None, "torn", "pending"}
  /\ active \subseteq Ops /\ timers \subseteq Ops
  /\ toReserve \in Seq(Ops) /\ toSend \in Seq(Ops)
  /\ streams \subseteq Nodes /\ wire \in [Nodes -> Seq(Ops)]
  /\ node \in [Nodes -> [at : Places, op : Ops \cup {None}]]
  /\ \A n \in Nodes : node[n].at \in {"local", "posting"} => node[n].op \in Ops
  /\ posted \in [Ops -> {None} \cup Results] /\ request \in [Ops -> Replies]
  /\ inbound \in [Ops -> Receipts] /\ injected \in [Ops -> Nat]
  /\ faults \in 0..MaxFaults /\ crashes \in 0..MaxCrashes /\ connects \in 0..MaxConnects
  /\ ~hub => active = {} /\ timers = {} /\ streams = {} /\ toSend = <<>>
  /\ \A o \in active : state[o] \notin {None, "torn"}

(* What a node reads as failed though the text may have been taken: a 410 of     *)
(* uncertain delivery, and a refused return behind a text a remote shell took.  *)
Misread(o) == inbound[o] = "gone" \/ o \in SshSubmits

(* An operation is injected at most once, whatever is retried, restarted or    *)
(* lost, and the receipt says what happened: accepted only of a text the       *)
(* daemon took, failed only of one that it never took, but for the two answers *)
(* the node misreads (dispatch.js:35-45, node.js:128-139,                      *)
(* peer-forwarding.js:245-268, session-delivery.js:640-650, 716-720).           *)
ReceiptTruthful ==
  \A o \in Ops :
    /\ injected[o] <= 1
    /\ Shown(o) = "accepted" => injected[o] = 1
    /\ Shown(o) = "failed" => injected[o] = 0 \/ Misread(o)

(* A receipt the hub waits for is waited for no longer some day, so that the   *)
(* places under max_pending come back (dispatch.js:25, 50-53; hub.js:96-106),  *)
(* unless a torn record has shut the store.                                    *)
PlacesComeBack == \A o \in Ops : o \in active ~> (o \notin active \/ Corrupt)
=============================================================================
