-------------------------- MODULE MailboxLockProofs --------------------------
(***************************************************************************)
(* Proofs about MailboxLock for any processes, tickets and listing limit.  *)
(*                                                                         *)
(* The inductive invariant says, beside the types, where each loop of a    *)
(* process may be (Shape), that a current ticket is the process's own and  *)
(* in place (Current), that unused names are unknown (Fresh), that no      *)
(* reaper holds a current ticket (Reapers), that nobody counts a choosing  *)
(* ticket as numbered (Ahead, Irreflexive), and the bakery order (Order):  *)
(* a contender that has got past a ticket, or was numbered before it was   *)
(* made, precedes it or is sure to.  Leaving, added to it for the last     *)
(* theorem, follows a release from file to file.                           *)
(***************************************************************************)
EXTENDS MailboxLock, TLAPS

USE LockAssumption

\* q is removing the ticket of another, or an old one of its own.
Reaping(q) == pc[q] \in Removing /\ mode[q] # "release"

\* Where the loops of p may be, and that it reaps only what it listed.
ShapeOf(p) ==
  /\ pc[p] # "dead" => alive[p]
  /\ pc[p] = "publish" => mode[p] = "doorway" /\ todo[p] = {}
  /\ pc[p] = "held" => mode[p] = "admission"
  /\ pc[p] = "blocked" => mode[p] \in {"doorway", "admission"}
  /\ mode[p] = "release" => pc[p] \in Removing /\ peer[p] = cur[p]
  /\ pc[p] \in {"read", "recheck"} \/ Reaping(p) => peer[p] \in todo[p]
  /\ cur[p] \notin todo[p]

Shape == \A p \in Proc : ShapeOf(p)

\* A current ticket is its owner's, in place, and numbered once published.
Current ==
  \A p \in Proc :
    /\ cur[p] \in Ticket => owner[cur[p]] = p
    /\ Acquiring(p) => cur[p] \in dir /\ ~marker[cur[p]]
    /\ mode[p] = "doorway" => number[cur[p]] = 0
    /\ mode[p] = "admission" => number[cur[p]] > 0

\* A name that was never used names no file and is known to no process.
Fresh ==
  \A t \in Ticket : owner[t] = NoProc =>
    /\ t \notin dir /\ number[t] = 0 /\ ~marker[t]
    /\ \A p \in Proc : t \notin todo[p] /\ peer[p] # t
    /\ \A u \in Ticket : t \notin ahead[u]

\* Reapers keep away from current tickets, also from one being released.
Reapers == \A p, q \in Proc : Reaping(q) => peer[q] # cur[p]

\* Nobody counts a ticket whose owner is still choosing as numbered.
Ahead == \A p \in Proc, t \in Ticket : mode[p] = "doorway" => cur[p] \notin ahead[t]

\* A ticket was not there when it was made.
Irreflexive == \A t \in Ticket : t \notin ahead[t]

\* p's admission scan needs no more of q's ticket.
Passed(p, q) ==
  \/ pc[p] = "held"
  \/ pc[p] \in Scanning \cup Removing /\ cur[q] \notin todo[p]

\* p has been or will be let in without waiting for q.
Before(p, q) == Passed(p, q) \/ cur[p] \in ahead[cur[q]]

\* q's number is, or will be, after p's.
After(q, p) ==
  \/ /\ mode[q] = "doorway"
     /\ \/ pc[q] \in {"list", "blocked"}
        \/ cur[p] \in todo[q] /\ ~(pc[q] = "recheck" /\ peer[q] = cur[p])
        \/ highest[q] >= number[cur[p]]
  \/ mode[q] = "admission" /\ Precedes(cur[p], cur[q])

\* The bakery order between an admitted-to-be p and any other acquisition.
Order ==
  \A p, q \in Proc :
    p # q /\ mode[p] = "admission" /\ Acquiring(q) /\ Before(p, q) => After(q, p)

\* A disjunct of Next: some step of p.
Moves(p) ==
  Mkdir(p) \/ StartSweep(p) \/ Step(p) \/ Timeout(p) \/ Crash(p) \/ ReusePid(p)

\* The loop variables of q are left alone.
Stays(q) ==
  /\ pc'[q] = pc[q] /\ mode'[q] = mode[q] /\ cur'[q] = cur[q]
  /\ todo'[q] = todo[q] /\ peer'[q] = peer[q] /\ highest'[q] = highest[q]

\* The ticket t, its files and its history are left alone.
Kept(t) ==
  /\ owner'[t] = owner[t] /\ ahead'[t] = ahead[t] /\ (t \in dir' <=> t \in dir)
  /\ number'[t] = number[t] /\ (marker'[t] <=> marker[t])

\* The one existing ticket whose files the next step of p may change.
Touches(p, t) ==
  \/ pc[p] = "publish" /\ t = cur[p]
  \/ pc[p] \in Removing /\ t = peer[p]

\* The inductive invariant.
IInv ==
  /\ TypeOK /\ Shape /\ Current /\ Fresh /\ Reapers /\ Ahead /\ Irreflexive /\ Order
-----------------------------------------------------------------------------
\* The empty directory and idle processes satisfy the inductive invariant.
THEOREM Initially == Init => IInv
  BY DEF Init, IInv, TypeOK, Shape, ShapeOf, Current, Fresh, Reapers, Ahead, Irreflexive,
         Order, Acquiring, Reaping, PCs, Modes, Removing, Scanning

\* The control part of the types: what the loops of a process read and write.
ControlOK ==
  /\ pc \in [Proc -> PCs]
  /\ mode \in [Proc -> Modes]
  /\ cur \in [Proc -> Ticket \cup {NoTicket}]
  /\ todo \in [Proc -> SUBSET Ticket]
  /\ peer \in [Proc -> Ticket \cup {NoTicket}]
  /\ \A p \in Proc :
       /\ cur[p] \in Ticket <=> mode[p] \in {"doorway", "admission", "release"}
       /\ peer[p] \in Ticket <=> pc[p] \in {"read", "recheck"} \cup Removing
       /\ mode[p] = "none" <=> pc[p] \in {"idle", "dead"}

\* The end of removeTicket keeps the types of the control variables.
LEMMA ReturnControl ==
  ASSUME ControlOK, NEW p \in Proc, pc[p] \in Removing, Return(p)
  PROVE  ControlOK'
<1> USE DEF ControlOK, PCs, Modes, Removing, Scanning
<1>1. CASE mode[p] = "release"
  BY <1>1 DEF Return, Goto
<1>2. CASE mode[p] # "release"
  <2>1. /\ pc' = [pc EXCEPT ![p] = "scan"] /\ peer' = [peer EXCEPT ![p] = NoTicket]
        /\ todo' = [todo EXCEPT ![p] = @ \ {peer[p]}] /\ UNCHANGED <<cur, mode>>
    BY <1>2 DEF Return, NextPeer, Goto
  <2>2. mode[p] # "none"
    OBVIOUS
  <2> QED
    BY <2>1, <2>2
<1> QED
  BY <1>1, <1>2

\* So does giving up, which leaves the loops of the other processes alone.
LEMMA AbandonControl ==
  ASSUME ControlOK, NEW p \in Proc, pc[p] \in {"list"} \cup Removing, Abandon(p)
  PROVE  /\ ControlOK'
         /\ \A q \in Proc \ {p} :
              /\ pc'[q] = pc[q] /\ mode'[q] = mode[q] /\ cur'[q] = cur[q]
              /\ todo'[q] = todo[q] /\ peer'[q] = peer[q]
<1> USE DEF ControlOK, PCs, Modes, Removing, Scanning
<1>1. CASE mode[p] \in {"doorway", "admission"}
  <2>1. /\ pc' = [pc EXCEPT ![p] = "rm_list"] /\ mode' = [mode EXCEPT ![p] = "release"]
        /\ peer' = [peer EXCEPT ![p] = cur[p]] /\ todo' = [todo EXCEPT ![p] = {}]
        /\ cur' = cur
    BY <1>1 DEF Abandon, BeginOwnRemoval, Goto
  <2>2. cur[p] \in Ticket
    BY <1>1
  <2> QED
    BY <2>1, <2>2
<1>2. CASE mode[p] \notin {"doorway", "admission"}
  <2>1. /\ pc' = [pc EXCEPT ![p] = "idle"] /\ mode' = [mode EXCEPT ![p] = "none"]
        /\ peer' = [peer EXCEPT ![p] = NoTicket] /\ todo' = [todo EXCEPT ![p] = {}]
        /\ cur' = [cur EXCEPT ![p] = NoTicket]
    BY <1>2 DEF Abandon, Goto
  <2> QED
    BY <2>1
<1> QED
  BY <1>1, <1>2

\* The types are an invariant of every step.
LEMMA TypeStep ==
  ASSUME TypeOK, Shape, NEW p \in Proc,
         Moves(p)
  PROVE  TypeOK'
<1> USE DEF TypeOK, Shape, ShapeOf, files, PCs, Modes, Removing, Scanning, Reaping
<1>1. CASE Mkdir(p)
  <2>1. PICK t \in Ticket :
          /\ owner' = [owner EXCEPT ![t] = p]
          /\ dir' = dir \cup {t}
          /\ cur' = [cur EXCEPT ![p] = t]
          /\ ahead' = [ahead EXCEPT ![t] = {u \in dir : number[u] > 0 /\ ~marker[u]}]
    BY <1>1 DEF Mkdir
  <2>2. ahead' \in [Ticket -> SUBSET Ticket] /\ dir' \in SUBSET Ticket
    BY <2>1
  <2>3. ControlOK'
    BY <1>1, <2>1 DEF Mkdir, Goto, ControlOK
  <2> QED
    BY <1>1, <2>1, <2>2, <2>3 DEF Mkdir, ControlOK
<1>2. CASE StartSweep(p)
  BY <1>2 DEF StartSweep, Goto
<1>3. CASE ListPeers(p)
  <2>1. todo' \in [Proc -> SUBSET Ticket] /\ UNCHANGED <<mode, cur, peer>>
    BY <1>3 DEF ListPeers
  <2>2. /\ pc[p] = "list" /\ pc' = [pc EXCEPT ![p] = "scan"]
        /\ peer[p] \notin Ticket /\ mode[p] # "none"
    BY <1>3 DEF ListPeers, Goto
  <2>3. ControlOK'
    BY <2>1, <2>2 DEF ControlOK
  <2>4. highest' \in [Proc -> Nat] /\ UNCHANGED <<alive, owner, files, ahead>>
    BY <1>3 DEF ListPeers
  <2> QED
    BY <2>3, <2>4 DEF ControlOK
<1>4. CASE ListRefused(p)
  <2>1. ControlOK'
    BY <1>4, AbandonControl DEF ListRefused, ControlOK
  <2>2. UNCHANGED <<alive, owner, files, highest, ahead>>
    BY <1>4 DEF ListRefused
  <2> HIDE DEF Shape, ShapeOf, PCs, Modes, Removing, Scanning, Reaping
  <2> QED
    BY <2>1, <2>2 DEF ControlOK
<1>5. CASE ReadTicketDir(p)
  <2>1. ControlOK'
    BY <1>5 DEF ReadTicketDir, NextPeer, Retry, Inspect, Goto, ControlOK
  <2>2. UNCHANGED <<alive, owner, files, highest, ahead>>
    BY <1>5 DEF ReadTicketDir
  <2> QED
    BY <2>1, <2>2 DEF ControlOK
<1>6. CASE ReadNumber(p)
  <2>0. peer[p] \in Ticket /\ number[peer[p]] \in Nat
    BY <1>6 DEF ReadNumber
  <2>1. highest' \in [Proc -> Nat]
    BY <1>6, <2>0 DEF ReadNumber
  <2>2. ControlOK'
    BY <1>6 DEF ReadNumber, NextPeer, Retry, Inspect, Goto, ControlOK
  <2> QED
    BY <1>6, <2>1, <2>2 DEF ReadNumber, ControlOK
<1>7. CASE RecheckDeparted(p)
  BY <1>7 DEF RecheckDeparted, NextPeer, Retry, Goto
<1>8. CASE ScanDone(p)
  BY <1>8 DEF ScanDone, Goto
<1>9. CASE Publish(p)
  BY <1>9 DEF Publish, Goto
<1>10. CASE Rescan(p)
  BY <1>10 DEF Rescan, Goto
<1>11. CASE Release(p)
  BY <1>11 DEF Release, BeginOwnRemoval, Goto
<1>12. CASE RemoveList(p)
  <2>1. Return(p) => ControlOK'
    BY <1>12, ReturnControl DEF RemoveList, ControlOK
  <2>2. ~Return(p) => ControlOK'
    BY <1>12 DEF RemoveList, Continue, Goto, ControlOK
  <2> QED
    BY <1>12, <2>1, <2>2 DEF RemoveList, ControlOK
<1>13. CASE RemoveMark(p)
  <2>1. Return(p) => ControlOK'
    BY <1>13, ReturnControl DEF RemoveMark, ControlOK
  <2>2. ~Return(p) => ControlOK'
    BY <1>13 DEF RemoveMark, Continue, Goto, ControlOK
  <2>3. marker' = [marker EXCEPT ![peer[p]] = TRUE] \/ marker' = marker
    BY <1>13 DEF RemoveMark
  <2>4. ControlOK'
    BY <2>1, <2>2
  <2>5. UNCHANGED <<alive, owner, dir, number, highest, ahead>>
    BY <1>13 DEF RemoveMark
  <2> HIDE DEF Shape, ShapeOf, PCs, Modes, Removing, Scanning, Reaping
  <2>6. marker' \in [Ticket -> BOOLEAN]
    BY <2>3
  <2> QED
    BY <2>4, <2>5, <2>6 DEF ControlOK
<1>14. CASE RemoveUnlink(p)
  BY <1>14 DEF RemoveUnlink, Continue, Goto
<1>15. CASE RemoveRelist(p)
  <2>1. Return(p) => ControlOK'
    BY <1>15, ReturnControl DEF RemoveRelist, ControlOK
  <2>2. ~Return(p) => ControlOK'
    BY <1>15 DEF RemoveRelist, Continue, Goto, ControlOK
  <2> QED
    BY <1>15, <2>1, <2>2 DEF RemoveRelist, ControlOK
<1>16. CASE RemoveUnmark(p)
  <2>1. Return(p) => ControlOK'
    BY <1>16, ReturnControl DEF RemoveUnmark, ControlOK
  <2>2. ~Return(p) => ControlOK'
    BY <1>16 DEF RemoveUnmark, Continue, Goto, ControlOK
  <2>3. marker' = [marker EXCEPT ![peer[p]] = FALSE] \/ marker' = marker
    BY <1>16 DEF RemoveUnmark
  <2>4. ControlOK'
    BY <2>1, <2>2
  <2>5. UNCHANGED <<alive, owner, dir, number, highest, ahead>>
    BY <1>16 DEF RemoveUnmark
  <2> HIDE DEF Shape, ShapeOf, PCs, Modes, Removing, Scanning, Reaping
  <2>6. marker' \in [Ticket -> BOOLEAN]
    BY <2>3
  <2> QED
    BY <2>4, <2>5, <2>6 DEF ControlOK
<1>17. CASE RemoveRmdir(p)
  <2>1. ControlOK'
    BY <1>17, ReturnControl DEF RemoveRmdir, ControlOK
  <2> QED
    BY <1>17, <2>1 DEF RemoveRmdir, ControlOK
<1>18. CASE RmdirFails(p)
  <2>1. ControlOK'
    BY <1>18, AbandonControl DEF RmdirFails, ControlOK
  <2>2. UNCHANGED <<alive, owner, files, highest, ahead>>
    BY <1>18 DEF RmdirFails
  <2> HIDE DEF Shape, ShapeOf, PCs, Modes, Removing, Scanning, Reaping
  <2> QED
    BY <2>1, <2>2 DEF ControlOK
<1>19. CASE Timeout(p)
  BY <1>19 DEF Timeout, BeginOwnRemoval, Goto
<1>20. CASE Crash(p)
  BY <1>20 DEF Crash, Goto
<1>21. CASE ReusePid(p)
  BY <1>21 DEF ReusePid, Goto
<1> QED
  BY <1>1, <1>2, <1>3, <1>4, <1>5, <1>6, <1>7, <1>8, <1>9, <1>10, <1>11, <1>12, <1>13, <1>14, <1>15, <1>16, <1>17, <1>18, <1>19, <1>20, <1>21 DEF Moves, Step, Remove

\* A step of p leaves the loops of every other process alone.
LEMMA OthersStay ==
  ASSUME TypeOK, NEW p \in Proc, Moves(p), NEW q \in Proc \ {p}
  PROVE  Stays(q)
<1> USE DEF TypeOK, Stays
<1>1. CASE Mkdir(p)
  BY <1>1 DEF Mkdir, Goto
<1>2. CASE StartSweep(p)
  BY <1>2 DEF StartSweep, Goto
<1>3. CASE ListPeers(p)
  BY <1>3 DEF ListPeers, Goto
<1>4. CASE ListRefused(p)
  BY <1>4, AbandonControl DEF ListRefused, ControlOK, Removing
<1>5. CASE ReadTicketDir(p)
  BY <1>5 DEF ReadTicketDir, NextPeer, Retry, Inspect, Goto
<1>6. CASE ReadNumber(p)
  BY <1>6 DEF ReadNumber, NextPeer, Retry, Inspect, Goto
<1>7. CASE RecheckDeparted(p)
  BY <1>7 DEF RecheckDeparted, NextPeer, Retry, Goto
<1>8. CASE ScanDone(p)
  BY <1>8 DEF ScanDone, Goto
<1>9. CASE Publish(p)
  BY <1>9 DEF Publish, Goto
<1>10. CASE Rescan(p)
  BY <1>10 DEF Rescan, Goto
<1>11. CASE Release(p)
  BY <1>11 DEF Release, BeginOwnRemoval, Goto
<1>12. CASE RemoveList(p)
  BY <1>12 DEF RemoveList, Return, NextPeer, Continue, Goto
<1>13. CASE RemoveMark(p)
  BY <1>13 DEF RemoveMark, Return, NextPeer, Continue, Goto
<1>14. CASE RemoveUnlink(p)
  BY <1>14 DEF RemoveUnlink, Continue, Goto
<1>15. CASE RemoveRelist(p)
  BY <1>15 DEF RemoveRelist, Return, NextPeer, Continue, Goto
<1>16. CASE RemoveUnmark(p)
  BY <1>16 DEF RemoveUnmark, Return, NextPeer, Continue, Goto
<1>17. CASE RemoveRmdir(p)
  BY <1>17 DEF RemoveRmdir, Return, NextPeer, Goto
<1>18. CASE RmdirFails(p)
  BY <1>18, AbandonControl DEF RmdirFails, ControlOK, Removing
<1>19. CASE Timeout(p)
  BY <1>19 DEF Timeout, BeginOwnRemoval, Goto
<1>20. CASE Crash(p)
  BY <1>20 DEF Crash, Goto
<1>21. CASE ReusePid(p)
  BY <1>21 DEF ReusePid, Goto
<1> QED
  BY <1>1, <1>2, <1>3, <1>4, <1>5, <1>6, <1>7, <1>8, <1>9, <1>10, <1>11, <1>12, <1>13, <1>14, <1>15, <1>16, <1>17, <1>18, <1>19, <1>20, <1>21 DEF Moves, Step, Remove

\* A step of p leaves every ticket in use alone that it does not touch.
LEMMA TicketsKept ==
  ASSUME TypeOK, NEW p \in Proc, Moves(p),
         NEW t \in Ticket, owner[t] # NoProc, ~Touches(p, t)
  PROVE  Kept(t)
<1> USE DEF TypeOK, Kept, Touches, files, Removing
<1>1. CASE Mkdir(p)
  BY <1>1 DEF Mkdir
<1>2. CASE StartSweep(p)
  BY <1>2 DEF StartSweep
<1>3. CASE ListPeers(p)
  BY <1>3 DEF ListPeers
<1>4. CASE ListRefused(p)
  BY <1>4 DEF ListRefused
<1>5. CASE ReadTicketDir(p)
  BY <1>5 DEF ReadTicketDir
<1>6. CASE ReadNumber(p)
  BY <1>6 DEF ReadNumber
<1>7. CASE RecheckDeparted(p)
  BY <1>7 DEF RecheckDeparted
<1>8. CASE ScanDone(p)
  BY <1>8 DEF ScanDone
<1>9. CASE Publish(p)
  BY <1>9 DEF Publish
<1>10. CASE Rescan(p)
  BY <1>10 DEF Rescan
<1>11. CASE Release(p)
  BY <1>11 DEF Release
<1>12. CASE RemoveList(p)
  BY <1>12 DEF RemoveList
<1>13. CASE RemoveMark(p)
  BY <1>13 DEF RemoveMark
<1>14. CASE RemoveUnlink(p)
  BY <1>14 DEF RemoveUnlink
<1>15. CASE RemoveRelist(p)
  BY <1>15 DEF RemoveRelist
<1>16. CASE RemoveUnmark(p)
  BY <1>16 DEF RemoveUnmark
<1>17. CASE RemoveRmdir(p)
  BY <1>17 DEF RemoveRmdir
<1>18. CASE RmdirFails(p)
  BY <1>18 DEF RmdirFails
<1>19. CASE Timeout(p)
  BY <1>19 DEF Timeout
<1>20. CASE Crash(p)
  BY <1>20 DEF Crash
<1>21. CASE ReusePid(p)
  BY <1>21 DEF ReusePid
<1> QED
  BY <1>1, <1>2, <1>3, <1>4, <1>5, <1>6, <1>7, <1>8, <1>9, <1>10, <1>11, <1>12, <1>13, <1>14, <1>15, <1>16, <1>17, <1>18, <1>19, <1>20, <1>21 DEF Moves, Step, Remove

\* The loops of a process keep their shape: an acquisition never finds its own
\* ticket in its listing, and reaps only tickets that it listed.
LEMMA ShapeStep ==
  ASSUME TypeOK, Shape, Fresh, NEW p \in Proc, Moves(p)
  PROVE  Shape'
<1>1. ASSUME NEW q \in Proc \ {p} PROVE ShapeOf(q)'
  <2>1. Stays(q)
    BY OthersStay
  <2>2. alive'[q] = alive[q]
    BY DEF TypeOK, Moves, Step, Remove, Mkdir, StartSweep, ListPeers, ListRefused,
       ReadTicketDir, ReadNumber, RecheckDeparted, ScanDone, Publish, Rescan, Release,
       RemoveList, RemoveMark, RemoveUnlink, RemoveRelist, RemoveUnmark, RemoveRmdir,
       RmdirFails, Timeout, Crash, ReusePid
  <2> QED
    BY <2>1, <2>2 DEF Stays, Shape, ShapeOf, Reaping
<1>2. ShapeOf(p)'
  <2> USE DEF TypeOK, Shape, ShapeOf, Reaping, PCs, Modes, Removing, Scanning
  <2>1. CASE Mkdir(p)
    BY <2>1 DEF Mkdir, Goto, Fresh
  <2>2. CASE StartSweep(p)
    BY <2>2 DEF StartSweep, Goto
  <2>3. CASE ListPeers(p)
    BY <2>3 DEF ListPeers, Goto
  <2>4. CASE ListRefused(p)
    BY <2>4 DEF ListRefused, Abandon, BeginOwnRemoval, Goto
  <2>5. CASE ReadTicketDir(p)
    BY <2>5 DEF ReadTicketDir, NextPeer, Retry, Inspect, Goto
  <2>6. CASE ReadNumber(p)
    BY <2>6 DEF ReadNumber, NextPeer, Retry, Inspect, Goto
  <2>7. CASE RecheckDeparted(p)
    BY <2>7 DEF RecheckDeparted, NextPeer, Retry, Goto
  <2>8. CASE ScanDone(p)
    BY <2>8 DEF ScanDone, Goto
  <2>9. CASE Publish(p)
    BY <2>9 DEF Publish, Goto
  <2>10. CASE Rescan(p)
    BY <2>10 DEF Rescan, Goto
  <2>11. CASE Release(p)
    BY <2>11 DEF Release, BeginOwnRemoval, Goto
  <2>12. CASE RemoveList(p)
    BY <2>12 DEF RemoveList, Return, NextPeer, Continue, Goto
  <2>13. CASE RemoveMark(p)
    BY <2>13 DEF RemoveMark, Return, NextPeer, Continue, Goto
  <2>14. CASE RemoveUnlink(p)
    BY <2>14 DEF RemoveUnlink, Continue, Goto
  <2>15. CASE RemoveRelist(p)
    BY <2>15 DEF RemoveRelist, Return, NextPeer, Continue, Goto
  <2>16. CASE RemoveUnmark(p)
    BY <2>16 DEF RemoveUnmark, Return, NextPeer, Continue, Goto
  <2>17. CASE RemoveRmdir(p)
    BY <2>17 DEF RemoveRmdir, Return, NextPeer, Goto
  <2>18. CASE RmdirFails(p)
    BY <2>18 DEF RmdirFails, Abandon, BeginOwnRemoval, Goto
  <2>19. CASE Timeout(p)
    BY <2>19 DEF Timeout, BeginOwnRemoval, Goto
  <2>20. CASE Crash(p)
    BY <2>20 DEF Crash, Goto
  <2>21. CASE ReusePid(p)
    BY <2>21 DEF ReusePid, Goto
  <2> QED
    BY <2>1, <2>2, <2>3, <2>4, <2>5, <2>6, <2>7, <2>8, <2>9, <2>10, <2>11, <2>12, <2>13, <2>14, <2>15, <2>16, <2>17, <2>18, <2>19, <2>20, <2>21 DEF Moves, Step, Remove
<1> QED
  BY <1>1, <1>2 DEF Shape

\* A ticket keeps the owner in its name, whatever is done to its files.
LEMMA OwnerKept ==
  ASSUME TypeOK, NEW p \in Proc, Moves(p), NEW t \in Ticket, owner[t] # NoProc
  PROVE  owner'[t] = owner[t]
BY DEF TypeOK, Moves, Step, Remove, Mkdir, StartSweep, ListPeers, ListRefused,
   ReadTicketDir, ReadNumber, RecheckDeparted, ScanDone, Publish, Rescan, Release,
   RemoveList, RemoveMark, RemoveUnlink, RemoveRelist, RemoveUnmark, RemoveRmdir,
   RmdirFails, Timeout, Crash, ReusePid

\* Only Mkdir begins an acquisition and only Publish changes its loop; any other
\* step of an acquiring process continues or ends it.
LEMMA SameAcquisition ==
  ASSUME TypeOK, Shape, NEW p \in Proc, Moves(p), ~Mkdir(p), pc[p] # "publish"
  PROVE  /\ cur'[p] = cur[p] \/ cur'[p] = NoTicket
         /\ Acquiring(p)' => mode'[p] = mode[p] /\ cur'[p] = cur[p]
<1> USE DEF TypeOK, Shape, ShapeOf, Acquiring, PCs, Modes, Removing, Scanning, Reaping
<1>0. ~Publish(p)
  BY DEF Publish
<1>1. CASE StartSweep(p)
  BY <1>1 DEF StartSweep, Goto
<1>2. CASE ListPeers(p)
  BY <1>2 DEF ListPeers, Goto
<1>3. CASE ListRefused(p)
  BY <1>3 DEF ListRefused, Abandon, BeginOwnRemoval, Goto
<1>4. CASE ReadTicketDir(p)
  BY <1>4 DEF ReadTicketDir, NextPeer, Retry, Inspect, Goto
<1>5. CASE ReadNumber(p)
  BY <1>5 DEF ReadNumber, NextPeer, Retry, Inspect, Goto
<1>6. CASE RecheckDeparted(p)
  BY <1>6 DEF RecheckDeparted, NextPeer, Retry, Goto
<1>7. CASE ScanDone(p)
  BY <1>7 DEF ScanDone, Goto
<1>8. CASE Rescan(p)
  BY <1>8 DEF Rescan, Goto
<1>9. CASE Release(p)
  BY <1>9 DEF Release, BeginOwnRemoval, Goto
<1>10. CASE RemoveList(p)
  BY <1>10 DEF RemoveList, Return, NextPeer, Continue, Goto
<1>11. CASE RemoveMark(p)
  BY <1>11 DEF RemoveMark, Return, NextPeer, Continue, Goto
<1>12. CASE RemoveUnlink(p)
  BY <1>12 DEF RemoveUnlink, Continue, Goto
<1>13. CASE RemoveRelist(p)
  BY <1>13 DEF RemoveRelist, Return, NextPeer, Continue, Goto
<1>14. CASE RemoveUnmark(p)
  BY <1>14 DEF RemoveUnmark, Return, NextPeer, Continue, Goto
<1>15. CASE RemoveRmdir(p)
  BY <1>15 DEF RemoveRmdir, Return, NextPeer, Goto
<1>16. CASE RmdirFails(p)
  BY <1>16 DEF RmdirFails, Abandon, BeginOwnRemoval, Goto
<1>17. CASE Timeout(p)
  BY <1>17 DEF Timeout, BeginOwnRemoval, Goto
<1>18. CASE Crash(p)
  BY <1>18 DEF Crash, Goto
<1>19. CASE ReusePid(p)
  BY <1>19 DEF ReusePid, Goto
<1> QED
  BY <1>0, <1>1, <1>2, <1>3, <1>4, <1>5, <1>6, <1>7, <1>8, <1>9, <1>10, <1>11, <1>12, <1>13, <1>14, <1>15, <1>16, <1>17, <1>18, <1>19 DEF Moves, Step, Remove

\* Nobody else is inside removeTicket for the ticket of a running acquisition.
LEMMA NoIntruder ==
  ASSUME TypeOK, Shape, Current, Reapers, NEW p \in Proc, NEW q \in Proc,
         Acquiring(q), pc[p] \in Removing
  PROVE  peer[p] # cur[q]
<1>1. CASE Reaping(p)
  BY <1>1 DEF Reapers
<1>2. CASE ~Reaping(p)
  <2>1. mode[p] = "release" /\ peer[p] = cur[p] /\ p # q
    BY <1>2 DEF Reaping, Shape, ShapeOf, Acquiring
  <2>2. cur[p] \in Ticket /\ cur[q] \in Ticket
    BY <2>1 DEF TypeOK, Acquiring
  <2> QED
    BY <2>1, <2>2 DEF Current
<1> QED
  BY <1>1, <1>2

\* Different acquisitions have different tickets.
LEMMA DistinctTickets ==
  ASSUME TypeOK, Current, NEW p \in Proc, NEW q \in Proc \ {p},
         Acquiring(p), Acquiring(q)
  PROVE  cur[p] \in Ticket /\ cur[q] \in Ticket /\ cur[p] # cur[q]
BY DEF TypeOK, Current, Acquiring

\* Only the Publish of its owner changes the ticket of a running acquisition.
LEMMA CurrentKept ==
  ASSUME TypeOK, Shape, Current, Reapers, NEW p \in Proc, Moves(p), NEW q \in Proc,
         Acquiring(q), q # p \/ pc[p] # "publish"
  PROVE  Kept(cur[q])
<1>1. cur[q] \in Ticket /\ owner[cur[q]] # NoProc
  BY DEF TypeOK, Current, Acquiring
<1>2. ~Touches(p, cur[q])
  <2>1. pc[p] = "publish" => cur[p] # cur[q]
    BY DistinctTickets DEF Shape, ShapeOf, Acquiring
  <2>2. pc[p] \in Removing => peer[p] # cur[q]
    BY NoIntruder
  <2> QED
    BY <2>1, <2>2 DEF Touches
<1> QED
  BY <1>1, <1>2, TicketsKept

\* Current tickets stay in place: reapers keep away from them.
LEMMA CurrentStep ==
  ASSUME TypeOK, TypeOK', Shape, Current, Fresh, Reapers, NEW p \in Proc, Moves(p)
  PROVE  Current'
<1> DEFINE CurrentOf(q) ==
      /\ cur[q] \in Ticket => owner[cur[q]] = q
      /\ Acquiring(q) => cur[q] \in dir /\ ~marker[cur[q]]
      /\ mode[q] = "doorway" => number[cur[q]] = 0
      /\ mode[q] = "admission" => number[cur[q]] > 0
<1>1. ASSUME NEW q \in Proc \ {p} PROVE CurrentOf(q)'
  <2>1. Stays(q)
    BY OthersStay
  <2>2. cur'[q] \in Ticket => owner'[cur'[q]] = q
    BY <2>1, OwnerKept DEF Stays, Current
  <2>3. Acquiring(q) => Kept(cur[q])
    BY CurrentKept
  <2> QED
    BY <2>1, <2>2, <2>3 DEF Stays, Kept, Current, Acquiring
<1>2. CurrentOf(p)'
  <2>1. CASE Mkdir(p)
    <3>1. PICK t \in Ticket :
            /\ owner[t] = NoProc /\ owner' = [owner EXCEPT ![t] = p]
            /\ dir' = dir \cup {t} /\ cur' = [cur EXCEPT ![p] = t]
      BY <2>1 DEF Mkdir
    <3>2. t \notin dir /\ number[t] = 0 /\ ~marker[t]
      BY <3>1 DEF Fresh
    <3> QED
      BY <2>1, <3>1, <3>2 DEF Mkdir, TypeOK, Acquiring
  <2>2. CASE pc[p] = "publish" /\ ~Mkdir(p)
    <3>1. CASE Publish(p)
      BY <2>2, <3>1 DEF Publish, TypeOK, Shape, ShapeOf, Current, Acquiring
    <3>2. CASE Crash(p)
      BY <3>2 DEF Crash, TypeOK, Acquiring
    <3> QED
      BY <2>2, <3>1, <3>2 DEF Moves, Step, Remove, StartSweep, ListPeers, ListRefused,
         ReadTicketDir, ReadNumber, RecheckDeparted, ScanDone, Rescan, Release,
         RemoveList, RemoveMark, RemoveUnlink, RemoveRelist, RemoveUnmark, RemoveRmdir,
         RmdirFails, Timeout, ReusePid, Removing
  <2>3. CASE pc[p] # "publish" /\ ~Mkdir(p)
    <3>1. /\ cur'[p] = cur[p] \/ cur'[p] = NoTicket
          /\ Acquiring(p)' => mode'[p] = mode[p] /\ cur'[p] = cur[p]
      BY <2>3, SameAcquisition
    <3>2. cur'[p] \in Ticket => owner'[cur'[p]] = p
      BY <3>1, OwnerKept DEF Current
    <3>3. Acquiring(p) => Kept(cur[p])
      BY <2>3, CurrentKept
    <3> QED
      BY <3>1, <3>2, <3>3 DEF Kept, Current, Acquiring
  <2> QED
    BY <2>1, <2>2, <2>3
<1> QED
  BY <1>1, <1>2 DEF Current

\* A name that was never used is unknown to every process.
LEMMA FreshStep ==
  ASSUME TypeOK, TypeOK', Shape, Current, Fresh, NEW p \in Proc, Moves(p)
  PROVE  Fresh'
<1> SUFFICES ASSUME NEW t \in Ticket, owner'[t] = NoProc
             PROVE  /\ t \notin dir' /\ number'[t] = 0 /\ ~marker'[t]
                    /\ \A q \in Proc : t \notin todo'[q] /\ peer'[q] # t
                    /\ \A u \in Ticket : t \notin ahead'[u]
  BY DEF Fresh
<1>1. owner[t] = NoProc
  BY OwnerKept DEF TypeOK
<1>2. /\ t \notin dir /\ number[t] = 0 /\ ~marker[t]
      /\ \A q \in Proc : t \notin todo[q] /\ peer[q] # t /\ cur[q] # t
      /\ \A u \in Ticket : t \notin ahead[u]
  BY <1>1 DEF Fresh, Current
<1>3. ASSUME NEW q \in Proc \ {p} PROVE t \notin todo'[q] /\ peer'[q] # t
  BY <1>2, OthersStay DEF Stays
<1>4. /\ t \notin dir' /\ number'[t] = 0 /\ ~marker'[t]
      /\ t \notin todo'[p] /\ peer'[p] # t
      /\ \A u \in Ticket : t \notin ahead'[u]
  <2> USE <1>2 DEF TypeOK, files, Removing, Scanning
  <2>1. CASE Mkdir(p)
    <3>1. PICK v \in Ticket :
            /\ owner' = [owner EXCEPT ![v] = p] /\ dir' = dir \cup {v}
            /\ ahead' = [ahead EXCEPT ![v] = {u \in dir : number[u] > 0 /\ ~marker[u]}]
      BY <2>1 DEF Mkdir
    <3>2. v # t
      BY <3>1
    <3> QED
      BY <2>1, <3>1, <3>2 DEF Mkdir, Goto
  <2>2. CASE StartSweep(p)
    BY <2>2 DEF StartSweep, Goto
  <2>3. CASE ListPeers(p)
    BY <2>3 DEF ListPeers, Goto
  <2>4. CASE ListRefused(p)
    BY <2>4 DEF ListRefused, Abandon, BeginOwnRemoval, Goto
  <2>5. CASE ReadTicketDir(p)
    BY <2>5 DEF ReadTicketDir, NextPeer, Retry, Inspect, Goto
  <2>6. CASE ReadNumber(p)
    BY <2>6 DEF ReadNumber, NextPeer, Retry, Inspect, Goto
  <2>7. CASE RecheckDeparted(p)
    BY <2>7 DEF RecheckDeparted, NextPeer, Retry, Goto
  <2>8. CASE ScanDone(p)
    BY <2>8 DEF ScanDone, Goto
  <2>9. CASE Publish(p)
    BY <2>9 DEF Publish, Goto
  <2>10. CASE Rescan(p)
    BY <2>10 DEF Rescan, Goto
  <2>11. CASE Release(p)
    BY <2>11 DEF Release, BeginOwnRemoval, Goto
  <2>12. CASE RemoveList(p)
    BY <2>12 DEF RemoveList, Return, NextPeer, Continue, Goto
  <2>13. CASE RemoveMark(p)
    BY <2>13 DEF RemoveMark, Return, NextPeer, Continue, Goto
  <2>14. CASE RemoveUnlink(p)
    BY <2>14 DEF RemoveUnlink, Continue, Goto
  <2>15. CASE RemoveRelist(p)
    BY <2>15 DEF RemoveRelist, Return, NextPeer, Continue, Goto
  <2>16. CASE RemoveUnmark(p)
    BY <2>16 DEF RemoveUnmark, Return, NextPeer, Continue, Goto
  <2>17. CASE RemoveRmdir(p)
    BY <2>17 DEF RemoveRmdir, Return, NextPeer, Goto
  <2>18. CASE RmdirFails(p)
    BY <2>18 DEF RmdirFails, Abandon, BeginOwnRemoval, Goto
  <2>19. CASE Timeout(p)
    BY <2>19 DEF Timeout, BeginOwnRemoval, Goto
  <2>20. CASE Crash(p)
    BY <2>20 DEF Crash, Goto
  <2>21. CASE ReusePid(p)
    BY <2>21 DEF ReusePid, Goto
  <2> QED
    BY <2>1, <2>2, <2>3, <2>4, <2>5, <2>6, <2>7, <2>8, <2>9, <2>10, <2>11, <2>12, <2>13, <2>14, <2>15, <2>16, <2>17, <2>18, <2>19, <2>20, <2>21 DEF Moves, Step, Remove
<1> QED
  BY <1>3, <1>4

\* Reapers leave current tickets alone: they take a ticket from the listing only
\* when its owner is dead, or when it is a departed ticket of their own.
LEMMA ReapersStep ==
  ASSUME TypeOK, TypeOK', Shape, Current, Fresh, Reapers, NEW p \in Proc, Moves(p)
  PROVE  Reapers'
<1> SUFFICES ASSUME NEW x \in Proc, NEW q \in Proc, Reaping(q)'
             PROVE  peer'[q] # cur'[x]
  BY DEF Reapers
<1>1. peer'[q] \in Ticket
  BY DEF TypeOK, Reaping
<1>2. CASE Reaping(q) /\ peer'[q] = peer[q]
  <2>1. cur'[x] = cur[x] \/ cur'[x] = NoTicket \/ owner[cur'[x]] = NoProc
    <3>1. CASE x # p
      BY <3>1, OthersStay DEF Stays
    <3>2. CASE x = p /\ Mkdir(p)
      BY <3>2 DEF Mkdir, TypeOK
    <3>3. CASE x = p /\ pc[p] = "publish"
      BY <3>3 DEF TypeOK, Moves, Step, Remove, Mkdir, StartSweep, ListPeers, ListRefused,
         ReadTicketDir, ReadNumber, RecheckDeparted, ScanDone, Publish, Rescan, Release,
         RemoveList, RemoveMark, RemoveUnlink, RemoveRelist, RemoveUnmark, RemoveRmdir,
         RmdirFails, Timeout, Crash, ReusePid, Removing
    <3>4. CASE x = p /\ ~Mkdir(p) /\ pc[p] # "publish"
      BY <3>4, SameAcquisition
    <3> QED
      BY <3>1, <3>2, <3>3, <3>4
  <2>2. owner[peer[q]] = NoProc => FALSE
    BY <1>1, <1>2 DEF Fresh
  <2> QED
    BY <1>1, <1>2, <2>1, <2>2 DEF Reapers
<1>3. CASE ~(Reaping(q) /\ peer'[q] = peer[q])
  <2>1. q = p
    BY <1>3, OthersStay DEF Stays, Reaping
  <2>2. ReadTicketDir(p) /\ ~(\E t \in todo[p] : NextPeer(p, t) \/ Retry(p))
    <3> USE DEF TypeOK, Shape, ShapeOf, Reaping, PCs, Modes, Removing, Scanning
    <3>0. Reaping(p)' /\ (pc[p] \notin Removing \/ mode[p] = "release" \/ peer'[p] # peer[p])
      BY <1>3, <2>1
    <3>1. CASE Mkdir(p)
      BY <3>0, <3>1 DEF Mkdir, Goto
    <3>2. CASE StartSweep(p)
      BY <3>0, <3>2 DEF StartSweep, Goto
    <3>3. CASE ListPeers(p)
      BY <3>0, <3>3 DEF ListPeers, Goto
    <3>4. CASE ListRefused(p)
      BY <3>0, <3>4 DEF ListRefused, Abandon, BeginOwnRemoval, Goto
    <3>5. CASE ReadTicketDir(p)
      BY <3>0, <3>5 DEF ReadTicketDir, NextPeer, Retry, Inspect, Goto
    <3>6. CASE ReadNumber(p)
      BY <3>0, <3>6 DEF ReadNumber, NextPeer, Retry, Inspect, Goto
    <3>7. CASE RecheckDeparted(p)
      BY <3>0, <3>7 DEF RecheckDeparted, NextPeer, Retry, Goto
    <3>8. CASE ScanDone(p)
      BY <3>0, <3>8 DEF ScanDone, Goto
    <3>9. CASE Publish(p)
      BY <3>0, <3>9 DEF Publish, Goto
    <3>10. CASE Rescan(p)
      BY <3>0, <3>10 DEF Rescan, Goto
    <3>11. CASE Release(p)
      BY <3>0, <3>11 DEF Release, BeginOwnRemoval, Goto
    <3>12. CASE RemoveList(p)
      BY <3>0, <3>12 DEF RemoveList, Return, NextPeer, Continue, Goto
    <3>13. CASE RemoveMark(p)
      BY <3>0, <3>13 DEF RemoveMark, Return, NextPeer, Continue, Goto
    <3>14. CASE RemoveUnlink(p)
      BY <3>0, <3>14 DEF RemoveUnlink, Continue, Goto
    <3>15. CASE RemoveRelist(p)
      BY <3>0, <3>15 DEF RemoveRelist, Return, NextPeer, Continue, Goto
    <3>16. CASE RemoveUnmark(p)
      BY <3>0, <3>16 DEF RemoveUnmark, Return, NextPeer, Continue, Goto
    <3>17. CASE RemoveRmdir(p)
      BY <3>0, <3>17 DEF RemoveRmdir, Return, NextPeer, Goto
    <3>18. CASE RmdirFails(p)
      BY <3>0, <3>18 DEF RmdirFails, Abandon, BeginOwnRemoval, Goto
    <3>19. CASE Timeout(p)
      BY <3>0, <3>19 DEF Timeout, BeginOwnRemoval, Goto
    <3>20. CASE Crash(p)
      BY <3>0, <3>20 DEF Crash, Goto
    <3>21. CASE ReusePid(p)
      BY <3>0, <3>21 DEF ReusePid, Goto
    <3> QED
      BY <3>1, <3>2, <3>3, <3>4, <3>5, <3>6, <3>7, <3>8, <3>9, <3>10, <3>11, <3>12, <3>13, <3>14, <3>15, <3>16, <3>17, <3>18, <3>19, <3>20, <3>21 DEF Moves, Step, Remove
  <2>3. PICK t \in todo[p] :
          /\ t \in dir /\ peer' = [peer EXCEPT ![p] = t]
          /\ DeadOwner(t) \/ owner[t] = p
    <3>1. PICK t \in todo[p] :
            /\ t \in dir
            /\ \/ Inspect(p, t, "rm_list") /\ (DeadOwner(t) \/ owner[t] = p)
               \/ Inspect(p, t, "read")
      BY <2>2 DEF ReadTicketDir
    <3>2. pc'[p] # "read"
      BY <1>3, <2>1 DEF Reaping, Removing
    <3>3. ~Inspect(p, t, "read")
      BY <3>2 DEF Inspect, Goto, TypeOK
    <3> QED
      BY <3>1, <3>3 DEF Inspect
  <2>4. cur'[x] = cur[x]
    BY <2>2 DEF ReadTicketDir
  <2>5. t # cur[x]
    <3>1. SUFFICES ASSUME t = cur[x] PROVE FALSE
      OBVIOUS
    <3>2. owner[t] = x /\ x # p
      BY <2>3, <3>1 DEF Current, TypeOK, Shape, ShapeOf
    <3>3. pc[x] # "dead" /\ alive[x]
      BY <2>3, <3>1 DEF TypeOK, Shape, ShapeOf
    <3> QED
      BY <2>3, <3>2, <3>3 DEF DeadOwner
  <2> QED
    BY <2>1, <2>3, <2>4, <2>5 DEF TypeOK
<1> QED
  BY <1>2, <1>3

\* No ticket counts as numbered before its owner published a number.
LEMMA AheadStep ==
  ASSUME TypeOK, TypeOK', Shape, Current, Fresh, Ahead, NEW p \in Proc, Moves(p)
  PROVE  Ahead'
<1> SUFFICES ASSUME NEW q \in Proc, NEW t \in Ticket, mode'[q] = "doorway"
             PROVE  cur'[q] \notin ahead'[t]
  BY DEF Ahead
<1>1. CASE Mkdir(p)
  <2>1. PICK v \in Ticket :
          /\ owner[v] = NoProc /\ cur' = [cur EXCEPT ![p] = v]
          /\ ahead' = [ahead EXCEPT ![v] = {u \in dir : number[u] > 0 /\ ~marker[u]}]
    BY <1>1 DEF Mkdir
  <2>2. v \notin dir /\ v \notin ahead[t]
    BY <2>1 DEF Fresh
  <2>3. q # p => mode[q] = "doorway" /\ cur'[q] = cur[q]
    BY <2>1, OthersStay DEF Stays
  <2>4. q # p => number[cur[q]] = 0 /\ cur[q] \notin ahead[t]
    BY <2>3 DEF Current, Ahead
  <2> QED
    BY <2>1, <2>2, <2>3, <2>4 DEF TypeOK
<1>2. CASE ~Mkdir(p)
  <2>1. ahead' = ahead
    BY <1>2 DEF Moves, Step, Remove, StartSweep, ListPeers, ListRefused, ReadTicketDir,
       ReadNumber, RecheckDeparted, ScanDone, Publish, Rescan, Release, RemoveList,
       RemoveMark, RemoveUnlink, RemoveRelist, RemoveUnmark, RemoveRmdir, RmdirFails,
       Timeout, Crash, ReusePid
  <2>2. mode[q] = "doorway" /\ cur'[q] = cur[q]
    <3>1. CASE q # p
      BY <3>1, OthersStay DEF Stays
    <3>2. CASE q = p /\ pc[p] # "publish"
      BY <1>2, <3>2, SameAcquisition DEF Acquiring
    <3>3. CASE q = p /\ pc[p] = "publish"
      BY <1>2, <3>3 DEF TypeOK, Moves, Step, Remove, StartSweep, ListPeers, ListRefused,
         ReadTicketDir, ReadNumber, RecheckDeparted, ScanDone, Publish, Rescan, Release,
         RemoveList, RemoveMark, RemoveUnlink, RemoveRelist, RemoveUnmark, RemoveRmdir,
         RmdirFails, Timeout, Crash, ReusePid, Removing
    <3> QED
      BY <3>1, <3>2, <3>3
  <2> QED
    BY <2>1, <2>2 DEF Ahead
<1> QED
  BY <1>1, <1>2

\* A ticket never counts itself among those that were there before it.
LEMMA IrreflexiveStep ==
  ASSUME TypeOK, Fresh, Irreflexive, NEW p \in Proc, Moves(p)
  PROVE  Irreflexive'
<1>1. CASE Mkdir(p)
  <2>1. PICK v \in Ticket :
          /\ owner[v] = NoProc
          /\ ahead' = [ahead EXCEPT ![v] = {u \in dir : number[u] > 0 /\ ~marker[u]}]
    BY <1>1 DEF Mkdir
  <2>2. v \notin dir
    BY <2>1 DEF Fresh
  <2> QED
    BY <2>1, <2>2 DEF TypeOK, Irreflexive
<1>2. CASE ~Mkdir(p)
  <2>1. ahead' = ahead
    BY <1>2 DEF Moves, Step, Remove, StartSweep, ListPeers, ListRefused, ReadTicketDir,
       ReadNumber, RecheckDeparted, ScanDone, Publish, Rescan, Release, RemoveList,
       RemoveMark, RemoveUnlink, RemoveRelist, RemoveUnmark, RemoveRmdir, RmdirFails,
       Timeout, Crash, ReusePid
  <2> QED
    BY <2>1 DEF Irreflexive
<1> QED
  BY <1>1, <1>2

\* An admitted or scanning process gets past another acquisition only when that
\* one has a number, and the later place in the admission order.
LEMMA PassedStep ==
  ASSUME TypeOK, Shape, Current, Reapers, NEW p \in Proc, Moves(p),
         NEW q \in Proc \ {p}, Acquiring(q),
         mode[p] = "admission", mode'[p] = "admission", ~Passed(p, q), Passed(p, q)'
  PROVE  mode[q] = "admission" /\ Precedes(cur[p], cur[q])
<1>1. /\ cur[p] \in Ticket /\ cur[q] \in Ticket /\ cur[p] # cur[q]
      /\ cur[q] \in dir /\ ~marker[cur[q]] /\ cur'[q] = cur[q]
      /\ mode[q] = "doorway" => number[cur[q]] = 0
      /\ peer[p] \in Ticket /\ pc[p] \in Removing => peer[p] # cur[q]
  BY DistinctTickets, NoIntruder, OthersStay DEF Current, Stays, Acquiring
<1>2. CASE ReadNumber(p)
  <2>1. peer[p] = cur[q] /\ number[cur[q]] # 0 /\ ~Precedes(cur[q], cur[p])
    BY <1>1, <1>2 DEF ReadNumber, NextPeer, Retry, Inspect, Goto, Passed, TypeOK,
       Removing, Scanning
  <2>2. /\ mode[q] = "admission" /\ cur[p] \in Nat /\ cur[q] \in Nat
        /\ number[cur[p]] \in Nat /\ number[cur[q]] \in Nat
    BY <1>1, <2>1 DEF Acquiring, TypeOK
  <2> QED
    BY <1>1, <2>1, <2>2 DEF Precedes
<1>3. CASE ~ReadNumber(p)
  <2> SUFFICES FALSE
    OBVIOUS
  <2> USE <1>1 DEF TypeOK, Shape, ShapeOf, Passed, Reaping, Removing, Scanning
  <2>1. CASE Mkdir(p)
    BY <2>1 DEF Mkdir, Goto
  <2>2. CASE StartSweep(p)
    BY <2>2 DEF StartSweep, Goto
  <2>3. CASE ListPeers(p)
    BY <2>3 DEF ListPeers, Goto
  <2>4. CASE ListRefused(p)
    BY <2>4 DEF ListRefused, Abandon, BeginOwnRemoval, Goto
  <2>5. CASE ReadTicketDir(p)
    BY <2>5 DEF ReadTicketDir, NextPeer, Retry, Inspect, Goto
  <2>6. CASE RecheckDeparted(p)
    BY <2>6 DEF RecheckDeparted, NextPeer, Retry, Goto
  <2>7. CASE ScanDone(p)
    BY <2>7 DEF ScanDone, Goto
  <2>8. CASE Publish(p)
    BY <2>8 DEF Publish, Goto
  <2>9. CASE Rescan(p)
    BY <2>9 DEF Rescan, Goto
  <2>10. CASE Release(p)
    BY <2>10 DEF Release, BeginOwnRemoval, Goto
  <2>11. CASE RemoveList(p)
    BY <2>11 DEF RemoveList, Return, NextPeer, Continue, Goto
  <2>12. CASE RemoveMark(p)
    BY <2>12 DEF RemoveMark, Return, NextPeer, Continue, Goto
  <2>13. CASE RemoveUnlink(p)
    BY <2>13 DEF RemoveUnlink, Continue, Goto
  <2>14. CASE RemoveRelist(p)
    BY <2>14 DEF RemoveRelist, Return, NextPeer, Continue, Goto
  <2>15. CASE RemoveUnmark(p)
    BY <2>15 DEF RemoveUnmark, Return, NextPeer, Continue, Goto
  <2>16. CASE RemoveRmdir(p)
    BY <2>16 DEF RemoveRmdir, Return, NextPeer, Goto
  <2>17. CASE RmdirFails(p)
    BY <2>17 DEF RmdirFails, Abandon, BeginOwnRemoval, Goto
  <2>18. CASE Timeout(p)
    BY <2>18 DEF Timeout, BeginOwnRemoval, Goto
  <2>19. CASE Crash(p)
    BY <2>19 DEF Crash, Goto
  <2>20. CASE ReusePid(p)
    BY <2>20 DEF ReusePid, Goto
  <2> QED
    BY <1>3, <2>1, <2>2, <2>3, <2>4, <2>5, <2>6, <2>7, <2>8, <2>9, <2>10, <2>11, <2>12, <2>13, <2>14, <2>15, <2>16, <2>17, <2>18, <2>19, <2>20 DEF Moves, Step, Remove
<1> QED
  BY <1>2, <1>3

\* A doorway that has still to see p's number, or has seen it, stays so until it
\* publishes a higher one; a published number keeps its place.
LEMMA AfterStep ==
  ASSUME TypeOK, Shape, Current, Reapers, NEW q \in Proc, Moves(q),
         NEW p \in Proc \ {q}, mode[p] = "admission", Acquiring(q), Acquiring(q)',
         pc[q] # "publish", ~Mkdir(q), After(q, p)
  PROVE  After(q, p)'
<1>1. /\ cur[p] \in Ticket /\ cur[q] \in Ticket /\ cur[p] # cur[q]
      /\ cur[p] \in dir /\ ~marker[cur[p]] /\ cur'[p] = cur[p] /\ cur'[q] = cur[q]
      /\ mode'[q] = mode[q] /\ number[cur[p]] > 0
      /\ number'[cur[p]] = number[cur[p]] /\ number'[cur[q]] = number[cur[q]]
      /\ pc[q] \in Removing => peer[q] # cur[p]
  <2>1. Kept(cur[p]) /\ Kept(cur[q])
    BY CurrentKept DEF Acquiring
  <2> QED
    BY <2>1, DistinctTickets, NoIntruder, OthersStay, SameAcquisition
       DEF Kept, Current, Stays, Acquiring
<1>2. CASE mode[q] = "admission"
  BY <1>1, <1>2 DEF After, Precedes
<1>3. CASE mode[q] = "doorway"
  <2>1. number[cur[p]] \in Nat /\ highest[q] \in Nat
    BY <1>1 DEF TypeOK
  <2> SUFFICES \/ pc'[q] \in {"list", "blocked"}
               \/ cur[p] \in todo'[q] /\ ~(pc'[q] = "recheck" /\ peer'[q] = cur[p])
               \/ highest'[q] >= number[cur[p]]
    BY <1>1, <1>3 DEF After
  <2>2. \/ pc[q] \in {"list", "blocked"}
        \/ cur[p] \in todo[q] /\ ~(pc[q] = "recheck" /\ peer[q] = cur[p])
        \/ highest[q] >= number[cur[p]]
    BY <1>3 DEF After
  <2> USE <1>1, <1>3, <2>1, <2>2 DEF TypeOK, Shape, ShapeOf, Reaping, Acquiring, Removing, Scanning
  <2>3. CASE StartSweep(q)
    BY <2>3 DEF StartSweep, Goto
  <2>4. CASE ListPeers(q)
    BY <2>4 DEF ListPeers, Goto
  <2>5. CASE ListRefused(q)
    BY <2>5 DEF ListRefused, Abandon, BeginOwnRemoval, Goto
  <2>6. CASE ReadTicketDir(q)
    BY <2>6 DEF ReadTicketDir, NextPeer, Retry, Inspect, Goto
  <2>7. CASE ReadNumber(q)
    <3>1. peer[q] \in Ticket /\ number[peer[q]] \in Nat /\ pc[q] = "read"
      BY <2>7 DEF ReadNumber
    <3>2. CASE number[peer[q]] = 0
      BY <2>7, <3>1, <3>2 DEF ReadNumber, Inspect, Goto
    <3>3. CASE number[peer[q]] # 0
      <4>1. /\ pc'[q] = "scan" /\ todo'[q] = todo[q] \ {peer[q]}
            /\ highest'[q] = IF number[peer[q]] > highest[q]
                             THEN number[peer[q]] ELSE highest[q]
        BY <2>7, <3>1, <3>3 DEF ReadNumber, NextPeer, Goto
      <4>2. highest'[q] >= highest[q] /\ highest'[q] >= number[peer[q]]
        BY <3>1, <4>1
      <4>3. CASE peer[q] = cur[p]
        BY <4>2, <4>3
      <4>4. CASE peer[q] # cur[p] /\ cur[p] \in todo[q]
        BY <4>1, <4>4
      <4>5. CASE highest[q] >= number[cur[p]]
        BY <3>1, <4>1, <4>2, <4>5
      <4> QED
        BY <3>1, <4>3, <4>4, <4>5
    <3> QED
      BY <3>2, <3>3
  <2>8. CASE RecheckDeparted(q)
    BY <2>8 DEF RecheckDeparted, NextPeer, Retry, Goto
  <2>9. CASE ScanDone(q)
    BY <2>9 DEF ScanDone, Goto
  <2>10. CASE Rescan(q)
    BY <2>10 DEF Rescan, Goto
  <2>11. CASE Release(q)
    BY <2>11 DEF Release, BeginOwnRemoval, Goto
  <2>12. CASE RemoveList(q)
    BY <2>12 DEF RemoveList, Return, NextPeer, Continue, Goto
  <2>13. CASE RemoveMark(q)
    BY <2>13 DEF RemoveMark, Return, NextPeer, Continue, Goto
  <2>14. CASE RemoveUnlink(q)
    BY <2>14 DEF RemoveUnlink, Continue, Goto
  <2>15. CASE RemoveRelist(q)
    BY <2>15 DEF RemoveRelist, Return, NextPeer, Continue, Goto
  <2>16. CASE RemoveUnmark(q)
    BY <2>16 DEF RemoveUnmark, Return, NextPeer, Continue, Goto
  <2>17. CASE RemoveRmdir(q)
    BY <2>17 DEF RemoveRmdir, Return, NextPeer, Goto
  <2>18. CASE RmdirFails(q)
    BY <2>18 DEF RmdirFails, Abandon, BeginOwnRemoval, Goto
  <2>19. CASE Timeout(q)
    BY <2>19 DEF Timeout, BeginOwnRemoval, Goto
  <2>20. CASE Crash(q)
    BY <2>20 DEF Crash, Goto
  <2>21. CASE ReusePid(q)
    BY <2>21 DEF ReusePid, Goto
  <2> QED
    BY <2>3, <2>4, <2>5, <2>6, <2>7, <2>8, <2>9, <2>10, <2>11, <2>12, <2>13, <2>14, <2>15, <2>16, <2>17, <2>18, <2>19, <2>20, <2>21 DEF Moves, Step, Remove, Publish
<1> QED
  BY <1>2, <1>3 DEF Acquiring

\* The bakery order: whoever gets past a ticket, or was numbered before it was
\* made, precedes it.
LEMMA OrderStep ==
  ASSUME IInv, TypeOK', NEW p \in Proc, Moves(p)
  PROVE  Order'
<1> USE DEF IInv
<1> SUFFICES ASSUME NEW a \in Proc, NEW b \in Proc \ {a}, mode'[a] = "admission",
                    Acquiring(b)', Before(a, b)'
             PROVE  After(b, a)'
  BY DEF Order
<1>1. CASE p # a /\ p # b
  <2>1. Stays(a) /\ Stays(b)
    BY <1>1, OthersStay
  <2>2. mode[a] = "admission" /\ Acquiring(b)
    BY <2>1 DEF Stays, Acquiring
  <2>3. Kept(cur[a]) /\ Kept(cur[b])
    BY <1>1, <2>2, CurrentKept DEF Acquiring
  <2>4. Before(a, b)
    BY <2>1, <2>3 DEF Stays, Kept, Before, Passed
  <2>5. After(b, a)
    BY <2>2, <2>4 DEF Order
  <2> QED
    BY <2>1, <2>3, <2>5 DEF Stays, Kept, After, Precedes
<1>2. CASE p = a
  <2>1. Stays(b) /\ Acquiring(b)
    BY <1>2, OthersStay DEF Stays, Acquiring
  <2>2. ~Mkdir(a)
    BY <1>2 DEF Mkdir, TypeOK
  <2>3. CASE pc[a] = "publish"
    <3>1. Publish(a)
      BY <1>2, <2>2, <2>3 DEF TypeOK, Moves, Step, Remove, StartSweep, ListPeers,
         ListRefused, ReadTicketDir, ReadNumber, RecheckDeparted, ScanDone, Rescan,
         Release, RemoveList, RemoveMark, RemoveUnlink, RemoveRelist, RemoveUnmark,
         RemoveRmdir, RmdirFails, Timeout, Crash, ReusePid, Removing
    <3>2. pc'[a] = "list" /\ cur'[a] = cur[a] /\ ahead' = ahead
      BY <3>1 DEF Publish, Goto, TypeOK
    <3>3. cur[a] \notin ahead[cur[b]]
      BY <2>1, <2>3 DEF Ahead, Shape, ShapeOf, TypeOK, Acquiring
    <3> QED
      BY <2>1, <3>2, <3>3 DEF Before, Passed, Stays, Scanning, Removing
  <2>4. CASE pc[a] # "publish"
    <3>1. mode[a] = "admission" /\ cur'[a] = cur[a]
      BY <1>2, <2>2, <2>4, SameAcquisition DEF Acquiring
    <3>2. Kept(cur[a]) /\ Kept(cur[b])
      BY <1>2, <2>1, <2>4, <3>1, CurrentKept DEF Acquiring
    <3>3. After(b, a)
      <4>1. CASE Before(a, b)
        BY <2>1, <3>1, <4>1 DEF Order
      <4>2. CASE ~Before(a, b)
        <5>1. ~Passed(a, b) /\ Passed(a, b)'
          BY <2>1, <3>1, <3>2, <4>2 DEF Before, Stays, Kept
        <5> QED
          BY <1>2, <2>1, <3>1, <5>1, PassedStep DEF After
      <4> QED
        BY <4>1, <4>2
    <3> QED
      BY <2>1, <3>1, <3>2, <3>3 DEF Stays, Kept, After, Precedes
  <2> QED
    BY <2>3, <2>4
<1>3. CASE p = b
  <2>1. Stays(a) /\ mode[a] = "admission"
    BY <1>3, OthersStay DEF Stays
  <2>2. Kept(cur[a])
    BY <1>3, <2>1, CurrentKept DEF Acquiring
  <2>3. CASE Mkdir(b)
    BY <2>3 DEF Mkdir, Goto, TypeOK, After
  <2>4. CASE ~Mkdir(b) /\ pc[b] = "publish"
    <3>1. Publish(b)
      BY <1>3, <2>4 DEF TypeOK, Moves, Step, Remove, StartSweep, ListPeers,
         ListRefused, ReadTicketDir, ReadNumber, RecheckDeparted, ScanDone, Rescan,
         Release, RemoveList, RemoveMark, RemoveUnlink, RemoveRelist, RemoveUnmark,
         RemoveRmdir, RmdirFails, Timeout, Crash, ReusePid, Removing, Acquiring
    <3>2. /\ mode[b] = "doorway" /\ todo[b] = {} /\ cur[b] \in Ticket
          /\ cur'[b] = cur[b] /\ mode'[b] = "admission" /\ ahead' = ahead
          /\ number'[cur[b]] = highest[b] + 1
      BY <2>4, <3>1 DEF Publish, Shape, ShapeOf, TypeOK
    <3>3. Before(a, b)
      BY <2>1, <3>2 DEF Before, Passed, Stays
    <3>4. highest[b] >= number[cur[a]]
      BY <2>1, <2>4, <3>2, <3>3 DEF Order, After, Acquiring
    <3>5. number[cur[a]] \in Nat /\ highest[b] \in Nat
      BY <2>1, DistinctTickets, <3>2 DEF TypeOK, Acquiring
    <3>6. number'[cur'[a]] < number'[cur'[b]]
      BY <2>1, <2>2, <3>2, <3>4, <3>5 DEF Kept, Stays
    <3> QED
      BY <3>2, <3>6 DEF After, Precedes
  <2>5. CASE ~Mkdir(b) /\ pc[b] # "publish"
    <3>1. Acquiring(b) /\ cur'[b] = cur[b]
      BY <1>3, <2>5, SameAcquisition DEF Acquiring
    <3>2. Kept(cur[b])
      BY <1>3, <2>5, <3>1, CurrentKept
    <3>3. Before(a, b)
      BY <2>1, <3>1, <3>2 DEF Before, Passed, Stays, Kept
    <3>4. After(b, a)
      BY <2>1, <3>1, <3>3 DEF Order
    <3> QED
      BY <1>3, <2>1, <2>5, <3>1, <3>4, AfterStep
  <2> QED
    BY <2>3, <2>4, <2>5
<1> QED
  BY <1>1, <1>2, <1>3
-----------------------------------------------------------------------------
\* Every step, also a stuttering one, keeps the inductive invariant.
THEOREM Inductive == IInv /\ [Next]_vars => IInv'
<1> SUFFICES ASSUME IInv, [Next]_vars PROVE IInv'
  OBVIOUS
<1>1. CASE UNCHANGED vars
  BY <1>1 DEF vars, IInv, TypeOK, Shape, ShapeOf, Current, Fresh, Reapers, Ahead,
     Irreflexive, Order, Acquiring, Reaping, Before, Passed, After, Precedes
<1>2. CASE Next
  <2>1. PICK p \in Proc : Moves(p)
    BY <1>2 DEF Next, Moves
  <2>2. TypeOK'
    BY <2>1, TypeStep DEF IInv
  <2> QED
    BY <2>1, <2>2, ShapeStep, CurrentStep, FreshStep, ReapersStep, AheadStep, IrreflexiveStep,
       OrderStep DEF IInv
<1> QED
  BY <1>1, <1>2

\* The inductive invariant holds in every reachable state.
THEOREM Invariant == Spec => []IInv
BY Initially, Inductive, PTL DEF Spec

\* Type correctness: the control of acquireLock and removeTicket stays in shape.
THEOREM TypeCorrect == Spec => []TypeOK
<1>1. IInv => TypeOK
  BY DEF IInv
<1> QED
  BY <1>1, Invariant, PTL

\* Mutual exclusion of acquireLock, for any number of contenders: of two holders
\* each would precede the other.
THEOREM Exclusion == Spec => []MutualExclusion
<1>1. IInv => MutualExclusion
  <2> SUFFICES ASSUME IInv, NEW p \in Proc, NEW q \in Proc \ {p},
                      pc[p] = "held", pc[q] = "held"
               PROVE  FALSE
    BY DEF MutualExclusion
  <2>1. /\ mode[p] = "admission" /\ mode[q] = "admission"
        /\ Acquiring(p) /\ Acquiring(q) /\ Before(p, q) /\ Before(q, p)
    BY DEF IInv, Shape, ShapeOf, Acquiring, Before, Passed
  <2>2. Precedes(cur[p], cur[q]) /\ Precedes(cur[q], cur[p])
    BY <2>1 DEF IInv, Order, After
  <2>3. /\ cur[p] \in Nat /\ cur[q] \in Nat
        /\ number[cur[p]] \in Nat /\ number[cur[q]] \in Nat
    BY <2>1 DEF IInv, TypeOK, Acquiring
  <2> QED
    BY <2>2, <2>3 DEF Precedes
<1> QED
  BY <1>1, Invariant, PTL

\* First come, first served: no contender is let in before one whose number was
\* already published when it made its ticket.
THEOREM AdmissionOrder == Spec => []FirstComeFirstServed
<1>1. IInv => FirstComeFirstServed
  <2> SUFFICES ASSUME IInv, NEW p \in Proc, pc[p] = "held",
                      NEW q \in Proc, mode[q] = "admission", cur[q] \in ahead[cur[p]]
               PROVE  FALSE
    BY DEF FirstComeFirstServed, QueuedAhead
  <2>1. mode[p] = "admission" /\ Acquiring(p) /\ Acquiring(q)
    BY DEF IInv, Shape, ShapeOf, Acquiring
  <2>2. p # q
    BY <2>1 DEF IInv, Irreflexive, TypeOK, Acquiring
  <2>3. Precedes(cur[p], cur[q]) /\ Precedes(cur[q], cur[p])
    BY <2>1, <2>2 DEF IInv, Order, After, Before, Passed
  <2>4. /\ cur[p] \in Nat /\ cur[q] \in Nat
        /\ number[cur[p]] \in Nat /\ number[cur[q]] \in Nat
    BY <2>1 DEF IInv, TypeOK, Acquiring
  <2> QED
    BY <2>3, <2>4 DEF Precedes
<1> QED
  BY <1>1, Invariant, PTL

\* No reaper, and no departure marker, ever reaches the ticket of a running
\* acquisition.
THEOREM Untouched == Spec => []LiveTicketUntouched
<1>1. IInv => LiveTicketUntouched
  <2> SUFFICES ASSUME IInv, NEW p \in Proc, Acquiring(p)
               PROVE  /\ cur[p] \in dir /\ ~marker[cur[p]]
                      /\ \A q \in Proc : pc[q] \in Removing => peer[q] # cur[p]
    BY DEF LiveTicketUntouched
  <2> QED
    BY NoIntruder DEF IInv, Current
<1> QED
  BY <1>1, Invariant, PTL
-----------------------------------------------------------------------------
\* How far the release of a ticket by its owner has come.
Leaving ==
  \A p \in Proc : mode[p] = "release" =>
    /\ cur[p] \in dir
    /\ pc[p] \in {"rm_list", "rm_mark", "rm_rmdir"} => ~marker[cur[p]]
    /\ pc[p] \in {"rm_unlink", "rm_relist", "rm_unmark"} => marker[cur[p]]
    /\ pc[p] \in {"rm_relist", "rm_unmark", "rm_rmdir"} => number[cur[p]] = 0

\* No other process interferes with a release, so it goes through its stages.
LEMMA LeavingStep ==
  ASSUME IInv, Leaving, NEW p \in Proc, Moves(p)
  PROVE  /\ Leaving'
         /\ mode[p] = "release" /\ pc'[p] = "idle" => cur[p] \notin dir'
<1> USE DEF IInv
<1> DEFINE LeavingOf(q) ==
      mode[q] = "release" =>
        /\ cur[q] \in dir
        /\ pc[q] \in {"rm_list", "rm_mark", "rm_rmdir"} => ~marker[cur[q]]
        /\ pc[q] \in {"rm_unlink", "rm_relist", "rm_unmark"} => marker[cur[q]]
        /\ pc[q] \in {"rm_relist", "rm_unmark", "rm_rmdir"} => number[cur[q]] = 0
<1>1. ASSUME NEW q \in Proc \ {p} PROVE LeavingOf(q)'
  <2>1. Stays(q)
    BY OthersStay
  <2>2. CASE mode[q] = "release"
    <3>1. cur[q] \in Ticket /\ owner[cur[q]] = q
      BY <2>2 DEF TypeOK, Current
    <3>2. ~Touches(p, cur[q])
      <4>1. mode[p] = "release" \/ pc[p] = "publish" => cur[p] \in Ticket /\ cur[p] # cur[q]
        BY <3>1 DEF TypeOK, Current, Shape, ShapeOf
      <4> QED
        BY <4>1 DEF Touches, Reapers, Reaping, Shape, ShapeOf
    <3>3. Kept(cur[q])
      BY <3>1, <3>2, TicketsKept
    <3> QED
      BY <2>1, <2>2, <3>3 DEF Leaving, Stays, Kept
  <2> QED
    BY <2>1, <2>2 DEF Stays
<1>2. LeavingOf(p)' /\ (mode[p] = "release" /\ pc'[p] = "idle" => cur[p] \notin dir')
  <2>1. Acquiring(p) => cur[p] \in Ticket /\ cur[p] \in dir /\ ~marker[cur[p]]
    BY DEF TypeOK, Current, Acquiring
  <2>2. mode[p] = "release" =>
          /\ pc[p] \in Removing /\ peer[p] = cur[p] /\ cur[p] \in Ticket
          /\ LeavingOf(p)
    BY DEF TypeOK, Shape, ShapeOf, Leaving
  <2> USE <2>1, <2>2 DEF TypeOK, Acquiring, Modes, Removing, Scanning, files, NotEmpty
  <2>3. CASE Mkdir(p)
    BY <2>3 DEF Mkdir, Goto
  <2>4. CASE StartSweep(p)
    BY <2>4 DEF StartSweep, Goto
  <2>5. CASE ListPeers(p)
    BY <2>5 DEF ListPeers, Goto
  <2>6. CASE ListRefused(p)
    BY <2>6 DEF ListRefused, Abandon, BeginOwnRemoval, Goto
  <2>7. CASE ReadTicketDir(p)
    BY <2>7 DEF ReadTicketDir, NextPeer, Retry, Inspect, Goto
  <2>8. CASE ReadNumber(p)
    BY <2>8 DEF ReadNumber, NextPeer, Retry, Inspect, Goto
  <2>9. CASE RecheckDeparted(p)
    BY <2>9 DEF RecheckDeparted, NextPeer, Retry, Goto
  <2>10. CASE ScanDone(p)
    BY <2>10 DEF ScanDone, Goto
  <2>11. CASE Publish(p)
    BY <2>11 DEF Publish, Goto
  <2>12. CASE Rescan(p)
    BY <2>12 DEF Rescan, Goto
  <2>13. CASE Release(p)
    BY <2>13 DEF Release, BeginOwnRemoval, Goto, Shape, ShapeOf
  <2>14. CASE RemoveList(p)
    BY <2>14 DEF RemoveList, Return, NextPeer, Continue, Goto
  <2>15. CASE RemoveMark(p)
    BY <2>15 DEF RemoveMark, Return, NextPeer, Continue, Goto
  <2>16. CASE RemoveUnlink(p)
    BY <2>16 DEF RemoveUnlink, Continue, Goto
  <2>17. CASE RemoveRelist(p)
    BY <2>17 DEF RemoveRelist, Return, NextPeer, Continue, Goto
  <2>18. CASE RemoveUnmark(p)
    BY <2>18 DEF RemoveUnmark, Return, NextPeer, Continue, Goto
  <2>19. CASE RemoveRmdir(p)
    BY <2>19 DEF RemoveRmdir, Return, NextPeer, Goto
  <2>20. CASE RmdirFails(p)
    BY <2>20 DEF RmdirFails, Abandon, BeginOwnRemoval, Goto
  <2>21. CASE Timeout(p)
    BY <2>21 DEF Timeout, BeginOwnRemoval, Goto, Shape, ShapeOf
  <2>22. CASE Crash(p)
    BY <2>22 DEF Crash, Goto
  <2>23. CASE ReusePid(p)
    BY <2>23 DEF ReusePid, Goto
  <2> QED
    BY <2>3, <2>4, <2>5, <2>6, <2>7, <2>8, <2>9, <2>10, <2>11, <2>12, <2>13, <2>14, <2>15, <2>16, <2>17, <2>18, <2>19, <2>20, <2>21, <2>22, <2>23 DEF Moves, Step, Remove
<1> QED
  BY <1>1, <1>2 DEF Leaving

\* A contender that has removed its own ticket has left no directory of it.
ReleaseRemovesTicket ==
  [][\A p \in Proc :
       mode[p] = "release" /\ pc'[p] = "idle" => cur[p] \notin dir']_vars

\* A release, and an acquisition that gave up, leaves no ticket behind.
THEOREM CleanRelease == Spec => ReleaseRemovesTicket
<1>1. Init => Leaving
  BY DEF Init, Leaving
<1>2. IInv /\ Leaving /\ [Next]_vars =>
        Leaving' /\ [\A p \in Proc : mode[p] = "release" /\ pc'[p] = "idle"
                                      => cur[p] \notin dir']_vars
  <2> SUFFICES ASSUME IInv, Leaving, [Next]_vars
               PROVE  /\ Leaving'
                      /\ UNCHANGED vars \/ \A p \in Proc :
                           mode[p] = "release" /\ pc'[p] = "idle" => cur[p] \notin dir'
    OBVIOUS
  <2>1. CASE UNCHANGED vars
    BY <2>1 DEF vars, Leaving
  <2>2. CASE Next
    <3>1. PICK p \in Proc : Moves(p)
      BY <2>2 DEF Next, Moves
    <3>2. Leaving' /\ (mode[p] = "release" /\ pc'[p] = "idle" => cur[p] \notin dir')
      BY <3>1, LeavingStep
    <3>3. ASSUME NEW q \in Proc \ {p} PROVE ~(mode[q] = "release" /\ pc'[q] = "idle")
      BY <3>1, OthersStay DEF IInv, Stays, TypeOK
    <3> QED
      BY <3>2, <3>3
  <2> QED
    BY <2>1, <2>2
<1> QED
  BY <1>1, <1>2, Invariant, PTL DEF Spec, ReleaseRemovesTicket

-----------------------------------------------------------------------------
(* The refinement.  The ticket protocol implements the fair critical section: *)
(* every step of MailboxLock is a step of SessionMutex, or leaves its state   *)
(* alone.  Mkdir is Arrive, Publish is Queue, the end of an admission scan is *)
(* Enter; a release, a deadline, an error and a kill are Leave.  That Enter   *)
(* is allowed then (nobody is inside, nobody is overtaken) are the theorems   *)
(* above.                                                                     *)

\* Nobody asks a used ticket again which tickets had a number when it was made.
LEMMA AheadKept ==
  ASSUME TypeOK, NEW p \in Proc, Moves(p), NEW t \in Ticket, owner[t] # NoProc
  PROVE  ahead'[t] = ahead[t]
BY DEF TypeOK, Moves, Step, Remove, Mkdir, StartSweep, ListPeers, ListRefused,
   ReadTicketDir, ReadNumber, RecheckDeparted, ScanDone, Publish, Rescan, Release,
   RemoveList, RemoveMark, RemoveUnlink, RemoveRelist, RemoveUnmark, RemoveRmdir,
   RmdirFails, Timeout, Crash, ReusePid

\* A holder leaves: it does not go back to its admission loop.
LEMMA HolderLeaves ==
  ASSUME TypeOK, NEW p \in Proc, Moves(p), pc[p] = "held"
  PROVE  ~Acquiring(p)'
<1>1. Release(p) \/ Crash(p)
  BY DEF Moves, Step, Remove, Mkdir, StartSweep, ListPeers, ListRefused,
     ReadTicketDir, ReadNumber, RecheckDeparted, ScanDone, Publish, Rescan,
     RemoveList, RemoveMark, RemoveUnlink, RemoveRelist, RemoveUnmark, RemoveRmdir,
     RmdirFails, Timeout, ReusePid
<1> QED
  BY <1>1 DEF Release, Crash, BeginOwnRemoval, Acquiring, TypeOK

\* A process outside its doorway and its admission loop is outside; the others are
\* arriving, queued or inside.
LEMMA Phases ==
  ASSUME TypeOK, Shape, NEW p \in Proc
  PROVE  /\ PhaseOf(p) \in {"out", "arriving", "queued", "in"}
         /\ PhaseOf(p) = "out" <=> ~Acquiring(p)
         /\ PhaseOf(p) = "arriving" <=> mode[p] = "doorway"
         /\ PhaseOf(p) = "in" <=> pc[p] = "held"
         /\ PhaseOf(p) = "queued" <=> mode[p] = "admission" /\ pc[p] # "held"
BY DEF PhaseOf, Acquiring, TypeOK, Shape, ShapeOf

\* A step of p leaves the phase of every other contender alone, and the contenders
\* that it waits for, but for p.
LEMMA OthersPhase ==
  ASSUME IInv, NEW p \in Proc, Moves(p), NEW q \in Proc \ {p}
  PROVE  /\ PhaseOf(q)' = PhaseOf(q)
         /\ BeforeOf(q)' \ {p} = BeforeOf(q) \ {p}
         /\ p \in BeforeOf(q)' <=>
              Acquiring(q) /\ mode'[p] = "admission" /\ cur'[p] \in ahead[cur[q]]
<1>1. \A r \in Proc \ {p} : Stays(r)
  BY OthersStay DEF IInv
<1>2. PhaseOf(q)' = PhaseOf(q) /\ (Acquiring(q)' <=> Acquiring(q))
  BY <1>1 DEF PhaseOf, Stays, Acquiring
<1>3. CASE ~Acquiring(q)
  BY <1>2, <1>3 DEF BeforeOf
<1>4. CASE Acquiring(q)
  <2>0. cur[q] \in Ticket /\ owner[cur[q]] # NoProc
    BY <1>4 DEF IInv, TypeOK, Current, Acquiring
  <2>1. ahead'[cur[q]] = ahead[cur[q]]
    BY <2>0, AheadKept DEF IInv
  <2>2. cur'[q] = cur[q]
    BY <1>1 DEF Stays
  <2>3. /\ BeforeOf(q) = {r \in Proc : mode[r] = "admission" /\ cur[r] \in ahead[cur[q]]}
        /\ BeforeOf(q)' = {r \in Proc : mode'[r] = "admission" /\ cur'[r] \in ahead[cur[q]]}
    BY <1>2, <1>4, <2>1, <2>2 DEF BeforeOf, QueuedAhead
  <2>4. \A r \in Proc \ {p} : mode'[r] = mode[r] /\ cur'[r] = cur[r]
    BY <1>1 DEF Stays
  <2> QED
    BY <1>2, <1>4, <2>3, <2>4
<1> QED
  BY <1>2, <1>3, <1>4

\* A step that ends an acquisition is Leave.
LEMMA LeaveStep ==
  ASSUME IInv, IInv', NEW p \in Proc, Moves(p), Acquiring(p), ~Acquiring(p)'
  PROVE  Mutex!Leave(p)
<1>1. PhaseOf(p) # "out" /\ PhaseOf(p)' = "out"
  BY Phases DEF IInv, PhaseOf, Acquiring, Shape, ShapeOf
<1>2. \A q \in Proc \ {p} : PhaseOf(q)' = PhaseOf(q)
  BY OthersPhase
<1>3. BeforeOf(p)' = {}
  BY DEF BeforeOf
<1>4. ASSUME NEW q \in Proc \ {p} PROVE BeforeOf(q)' = BeforeOf(q) \ {p}
  <2>1. p \notin BeforeOf(q)'
    BY OthersPhase DEF Acquiring
  <2> QED
    BY <2>1, OthersPhase
<1>5. [r \in Proc |-> PhaseOf(r)]' = [[r \in Proc |-> PhaseOf(r)] EXCEPT ![p] = "out"]
  BY <1>1, <1>2
<1>6. [r \in Proc |-> BeforeOf(r)]'
        = [q \in Proc |-> IF q = p THEN {} ELSE [r \in Proc |-> BeforeOf(r)][q] \ {p}]
  BY <1>3, <1>4
<1> QED
  BY <1>1, <1>5, <1>6 DEF Mutex!Leave

\* Any other step of p that begins or continues an acquisition.
LEMMA ArriveStep ==
  ASSUME IInv, IInv', NEW p \in Proc, Mkdir(p)
  PROVE  Mutex!Arrive(p)
<1>0. Moves(p) /\ ~Acquiring(p) /\ mode'[p] = "doorway" /\ pc'[p] = "list"
  BY DEF Moves, Mkdir, Goto, IInv, TypeOK, Acquiring
<1>1. PhaseOf(p) = "out" /\ PhaseOf(p)' = "arriving"
  <2>1. PhaseOf(p) = "out"
    BY <1>0, Phases DEF IInv
  <2>2. PhaseOf(p)' = "arriving"
    BY <1>0 DEF PhaseOf
  <2> QED
    BY <2>1, <2>2
<1>2. ASSUME NEW q \in Proc \ {p} PROVE PhaseOf(q)' = PhaseOf(q) /\ BeforeOf(q)' = BeforeOf(q)
  <2>1. p \notin BeforeOf(q) /\ p \notin BeforeOf(q)'
    BY <1>0, OthersPhase DEF BeforeOf, QueuedAhead, Acquiring
  <2> QED
    BY <1>0, <2>1, OthersPhase
<1>3. BeforeOf(p)' = {q \in Proc : PhaseOf(q) \in {"queued", "in"}}
  <2>0. PICK t \in Ticket :
          /\ cur' = [cur EXCEPT ![p] = t]
          /\ ahead' = [ahead EXCEPT ![t] = {u \in dir : number[u] > 0 /\ ~marker[u]}]
    BY DEF Mkdir
  <2>1. cur'[p] = t /\ ahead'[t] = {u \in dir : number[u] > 0 /\ ~marker[u]}
    BY <2>0 DEF IInv, TypeOK
  <2>2. BeforeOf(p)' = {q \in Proc : mode'[q] = "admission" /\ cur'[q] \in ahead'[t]}
    BY <1>0, <2>1 DEF BeforeOf, QueuedAhead, Acquiring
  <2>3. ASSUME NEW q \in Proc
        PROVE  (mode'[q] = "admission" /\ cur'[q] \in ahead'[t]) <=> mode[q] = "admission"
    <3>1. CASE q = p
      BY <1>0, <3>1 DEF Acquiring
    <3>2. CASE q # p
      <4>1. mode'[q] = mode[q] /\ cur'[q] = cur[q]
        BY <1>0, <3>2, OthersStay DEF Stays, IInv
      <4>2. mode[q] = "admission" => cur[q] \in {u \in dir : number[u] > 0 /\ ~marker[u]}
        BY DEF IInv, Current, Acquiring
      <4> QED
        BY <2>1, <4>1, <4>2
    <3> QED
      BY <3>1, <3>2
  <2>4. ASSUME NEW q \in Proc
        PROVE  PhaseOf(q) \in {"queued", "in"} <=> mode[q] = "admission"
    BY Phases DEF IInv, Shape, ShapeOf
  <2> QED
    BY <2>2, <2>3, <2>4
<1>4. [r \in Proc |-> PhaseOf(r)]' = [[r \in Proc |-> PhaseOf(r)] EXCEPT ![p] = "arriving"]
  BY <1>1, <1>2
<1>5. [r \in Proc |-> BeforeOf(r)]'
        = [[r \in Proc |-> BeforeOf(r)] EXCEPT ![p] =
             {q \in Proc : [r \in Proc |-> PhaseOf(r)][q] \in {"queued", "in"}}]
  BY <1>2, <1>3
<1> QED
  BY <1>1, <1>4, <1>5 DEF Mutex!Arrive

\* What the doorway was told of the others does not change when p publishes: nobody
\* has counted its ticket before.
LEMMA QueueStep ==
  ASSUME IInv, IInv', NEW p \in Proc, Moves(p), pc[p] = "publish", Acquiring(p)'
  PROVE  Mutex!Queue(p)
<1>0. Publish(p)
  BY DEF Moves, Step, Remove, Mkdir, StartSweep, ListPeers, ListRefused,
     ReadTicketDir, ReadNumber, RecheckDeparted, ScanDone, Rescan, Release,
     RemoveList, RemoveMark, RemoveUnlink, RemoveRelist, RemoveUnmark, RemoveRmdir,
     RmdirFails, Timeout, Crash, ReusePid, IInv, TypeOK, Acquiring, Removing
<1>1. /\ mode[p] = "doorway" /\ mode'[p] = "admission" /\ pc'[p] = "list"
      /\ cur' = cur /\ ahead' = ahead
  BY <1>0 DEF Publish, Goto, IInv, TypeOK, Shape, ShapeOf
<1>2. PhaseOf(p) = "arriving" /\ PhaseOf(p)' = "queued"
  BY <1>1 DEF PhaseOf
<1>3. ASSUME NEW q \in Proc \ {p} PROVE PhaseOf(q)' = PhaseOf(q) /\ BeforeOf(q)' = BeforeOf(q)
  <2>1. p \notin BeforeOf(q)
    BY <1>1 DEF BeforeOf, QueuedAhead
  <2>2. Acquiring(q) => cur[p] \notin ahead[cur[q]]
    BY <1>1 DEF IInv, Ahead, TypeOK, Acquiring
  <2>3. p \notin BeforeOf(q)'
    BY <1>1, <2>2, OthersPhase
  <2> QED
    BY <2>1, <2>3, OthersPhase
<1>4. BeforeOf(p)' = BeforeOf(p)
  <2>1. p \notin BeforeOf(p) /\ p \notin BeforeOf(p)'
    BY <1>1 DEF BeforeOf, QueuedAhead, IInv, Irreflexive, TypeOK, Acquiring
  <2>2. ASSUME NEW q \in Proc \ {p} PROVE mode'[q] = mode[q]
    BY OthersStay DEF IInv, Stays
  <2> QED
    BY <1>1, <2>1, <2>2 DEF BeforeOf, QueuedAhead, Acquiring
<1>5. [r \in Proc |-> PhaseOf(r)]' = [[r \in Proc |-> PhaseOf(r)] EXCEPT ![p] = "queued"]
  BY <1>2, <1>3
<1>6. UNCHANGED [r \in Proc |-> BeforeOf(r)]
  BY <1>3, <1>4
<1> QED
  BY <1>2, <1>5, <1>6 DEF Mutex!Queue

\* The other steps of an acquisition leave its place alone, or let it in; it is let in
\* alone, and after everyone it had to wait for.
LEMMA EnterStep ==
  ASSUME IInv, IInv', MutualExclusion', FirstComeFirstServed',
         NEW p \in Proc, Moves(p), ~Mkdir(p), pc[p] # "publish", Acquiring(p)'
  PROVE  Mutex!Enter(p) \/ UNCHANGED Mutex!mutexVars
<1>1. mode'[p] = mode[p] /\ cur'[p] = cur[p] /\ Acquiring(p)
  BY SameAcquisition DEF IInv, Acquiring
<1>2. ASSUME NEW q \in Proc PROVE BeforeOf(q)' = BeforeOf(q)
  <2>1. CASE q # p
    <3>1. p \in BeforeOf(q)' <=> p \in BeforeOf(q)
      BY <1>1, <2>1, OthersPhase DEF BeforeOf, QueuedAhead
    <3>2. BeforeOf(q)' \ {p} = BeforeOf(q) \ {p}
      BY <2>1, OthersPhase
    <3>3. BeforeOf(q)' \subseteq BeforeOf(q) /\ BeforeOf(q) \subseteq BeforeOf(q)'
      BY <3>1, <3>2
    <3> QED
      BY <3>3
  <2>2. CASE q = p
    <3>1. cur[p] \in Ticket /\ owner[cur[p]] # NoProc
      BY <1>1 DEF IInv, TypeOK, Current, Acquiring
    <3>2. ahead'[cur[p]] = ahead[cur[p]]
      BY <3>1, AheadKept DEF IInv
    <3>3. \A r \in Proc : mode'[r] = mode[r] /\ cur'[r] = cur[r]
      BY <1>1, OthersStay DEF IInv, Stays
    <3> QED
      BY <1>1, <2>2, <3>2, <3>3 DEF BeforeOf, QueuedAhead, Acquiring
  <2> QED
    BY <2>1, <2>2
<1>3. UNCHANGED [r \in Proc |-> BeforeOf(r)]
  BY <1>2
<1>4. pc[p] # "held"
  BY HolderLeaves DEF IInv
<1>5. CASE pc'[p] = "held"
  <2>1. PhaseOf(p) = "queued" /\ PhaseOf(p)' = "in"
    BY <1>1, <1>4, <1>5 DEF PhaseOf, IInv, Shape, ShapeOf
  <2>2. \A q \in Proc \ {p} : PhaseOf(q)' = PhaseOf(q)
    BY OthersPhase
  <2>3. [r \in Proc |-> PhaseOf(r)]' = [[r \in Proc |-> PhaseOf(r)] EXCEPT ![p] = "in"]
    BY <2>1, <2>2
  <2>4. BeforeOf(p) = {}
    BY <1>2, <1>5 DEF FirstComeFirstServed, BeforeOf
  <2>5. ASSUME NEW q \in Proc PROVE PhaseOf(q) # "in"
    <3>1. CASE q = p
      BY <2>1, <3>1
    <3>2. CASE q # p
      <4>1. pc'[q] # "held"
        BY <1>5, <3>2 DEF MutualExclusion
      <4>2. pc'[q] = pc[q]
        BY <3>2, OthersStay DEF IInv, Stays
      <4> QED
        BY <4>1, <4>2, Phases DEF IInv
    <3> QED
      BY <3>1, <3>2
  <2> QED
    BY <1>3, <2>1, <2>3, <2>4, <2>5 DEF Mutex!Enter
<1>6. CASE pc'[p] # "held"
  <2>1. PhaseOf(p)' = PhaseOf(p)
    BY <1>1, <1>4, <1>6 DEF PhaseOf
  <2>2. UNCHANGED [r \in Proc |-> PhaseOf(r)]
    BY <2>1, OthersPhase
  <2> QED
    BY <1>3, <2>2 DEF Mutex!mutexVars
<1> QED
  BY <1>5, <1>6

\* What a process does outside an acquisition concerns nobody.
LEMMA OutsideStep ==
  ASSUME IInv, IInv', NEW p \in Proc, Moves(p), ~Acquiring(p), ~Acquiring(p)'
  PROVE  UNCHANGED Mutex!mutexVars
<1>1. PhaseOf(p) = "out" /\ PhaseOf(p)' = "out"
  BY Phases DEF IInv, PhaseOf, Acquiring, Shape, ShapeOf
<1>2. BeforeOf(p) = {} /\ BeforeOf(p)' = {}
  BY DEF BeforeOf
<1>3. ASSUME NEW q \in Proc \ {p} PROVE PhaseOf(q)' = PhaseOf(q) /\ BeforeOf(q)' = BeforeOf(q)
  <2>1. p \notin BeforeOf(q) /\ p \notin BeforeOf(q)'
    BY OthersPhase DEF BeforeOf, QueuedAhead, Acquiring
  <2>2. PhaseOf(q)' = PhaseOf(q) /\ BeforeOf(q)' \ {p} = BeforeOf(q) \ {p}
    BY OthersPhase
  <2> QED
    BY <2>1, <2>2
<1>4. /\ UNCHANGED [r \in Proc |-> PhaseOf(r)]
      /\ UNCHANGED [r \in Proc |-> BeforeOf(r)]
  BY <1>1, <1>2, <1>3
<1> QED
  BY <1>4 DEF Mutex!mutexVars

\* Every behaviour of the ticket protocol is one of the fair critical section.
THEOREM Refinement == Spec => ImplementsMutex
<1>1. Init => Mutex!Init
  <2> SUFFICES ASSUME Init PROVE Mutex!Init
    OBVIOUS
  <2>1. ASSUME NEW p \in Proc PROVE PhaseOf(p) = "out" /\ BeforeOf(p) = {}
    BY DEF Init, PhaseOf, BeforeOf, Acquiring
  <2> QED
    BY <2>1 DEF Mutex!Init
<1>2. IInv /\ IInv' /\ MutualExclusion' /\ FirstComeFirstServed' /\ [Next]_vars
        => [Mutex!Next]_(Mutex!mutexVars)
  <2> SUFFICES ASSUME IInv, IInv', MutualExclusion', FirstComeFirstServed', [Next]_vars
               PROVE  Mutex!Next \/ UNCHANGED Mutex!mutexVars
    OBVIOUS
  <2>1. CASE UNCHANGED vars
    BY <2>1 DEF vars, Mutex!mutexVars, PhaseOf, BeforeOf, QueuedAhead, Acquiring
  <2>2. CASE Next
    <3>1. PICK p \in Proc : Moves(p)
      BY <2>2 DEF Next, Moves
    <3>2. \/ Mutex!Arrive(p) \/ Mutex!Queue(p) \/ Mutex!Enter(p) \/ Mutex!Leave(p)
          \/ UNCHANGED Mutex!mutexVars
      BY <3>1, ArriveStep, QueueStep, EnterStep, LeaveStep, OutsideStep
    <3> QED
      BY <3>2 DEF Mutex!Next
  <2> QED
    BY <2>1, <2>2
<1> QED
  BY <1>1, <1>2, Invariant, Exclusion, AdmissionOrder, PTL
     DEF Spec, ImplementsMutex, Mutex!Spec
=============================================================================
