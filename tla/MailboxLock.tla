---------------------------- MODULE MailboxLock ----------------------------
(***************************************************************************)
(* The per-session advisory lock of the file mailbox (src/mailbox/lock.js).*)
(*                                                                         *)
(* A contender announces an acquisition by making a ticket directory whose *)
(* name is never reused, reads every other ticket (the doorway), publishes *)
(* the highest number it saw plus one, and then rescans the directory until*)
(* no other ticket is choosing, numbered lower, or equal with a lower name.*)
(* Removal is itself a protocol: a `departed' marker is created before any *)
(* file is unlinked and unlinked last, so that contenders may finish the   *)
(* removal of a dead owner's ticket, several of them at the same time.     *)
(*                                                                         *)
(* Every file system call that another process can observe is one action.  *)
(* The `draft' file is invisible to readers and is merged with the rename  *)
(* that publishes it.  Clocks are left out: a blocked contender may time   *)
(* out at any retry.                                                       *)
(***************************************************************************)
EXTENDS Naturals, FiniteSets

CONSTANTS
  Proc,          \* process identifiers (the pid in a ticket's name)
  Ticket,        \* ticket names, numbered in their lexicographic order
  NamesOf,       \* NamesOf[p]: the names p may draw, which contain its pid
  NoProc,        \* the owner of a ticket that was never made
  NoTicket,      \* no current ticket, or no ticket being read
  MaxContenders, \* the tickets a listing may name before it is refused
  Sweepers,      \* the processes that run the startup sweep of dead tickets
  MayTimeout,    \* whether a blocked contender may reach its deadline
  Mortal,        \* the processes that may be killed, at any point
  MayReusePid    \* whether the pid of a killed process may be used again

ASSUME LockAssumption ==
  /\ Ticket \subseteq Nat
  /\ NoTicket \notin Ticket
  /\ NamesOf \in [Proc -> SUBSET Ticket]
  /\ NoProc \notin Proc
  /\ MaxContenders \in Nat
  /\ Sweepers \subseteq Proc
  /\ Mortal \subseteq Proc
  /\ {MayTimeout, MayReusePid} \subseteq BOOLEAN

VARIABLES
  alive,    \* alive[p]: kill(p, 0) does not answer ESRCH
  owner,    \* owner[t]: the pid in the name of t
  dir,      \* the ticket directories that exist
  number,   \* number[t]: the content of t/number, 0 when there is no such file
  marker,   \* marker[t]: t/departed exists
  pc,       \* pc[p]: the next file system call of p
  mode,     \* mode[p]: the loop p is in
  cur,      \* cur[p]: the ticket of p's current acquisition
  todo,     \* todo[p]: the tickets of p's listing it has not finished reading
  peer,     \* peer[p]: the ticket p is reading or removing
  highest,  \* highest[p]: the highest number read in this doorway scan
  ahead     \* history: the tickets already numbered when a ticket was made

vars == <<alive, owner, dir, number, marker, pc, mode, cur, todo, peer,
          highest, ahead>>
files == <<dir, number, marker>>

Removing == {"rm_list", "rm_mark", "rm_unlink", "rm_relist", "rm_unmark",
             "rm_rmdir"}
Scanning == {"scan", "read", "recheck"}
PCs == {"idle", "list", "blocked", "publish", "held", "dead"}
         \cup Scanning \cup Removing
Modes == {"none", "doorway", "admission", "sweep", "release"}

TypeOK ==
  /\ alive \in [Proc -> BOOLEAN]
  /\ owner \in [Ticket -> Proc \cup {NoProc}]
  /\ dir \in SUBSET Ticket
  /\ number \in [Ticket -> Nat]
  /\ marker \in [Ticket -> BOOLEAN]
  /\ pc \in [Proc -> PCs]
  /\ mode \in [Proc -> Modes]
  /\ cur \in [Proc -> Ticket \cup {NoTicket}]
  /\ todo \in [Proc -> SUBSET Ticket]
  /\ peer \in [Proc -> Ticket \cup {NoTicket}]
  /\ highest \in [Proc -> Nat]
  /\ ahead \in [Ticket -> SUBSET Ticket]
  /\ \A p \in Proc :
       /\ cur[p] \in Ticket <=> mode[p] \in {"doorway", "admission", "release"}
       /\ peer[p] \in Ticket <=> pc[p] \in {"read", "recheck"} \cup Removing
       /\ mode[p] = "none" <=> pc[p] \in {"idle", "dead"}

Init ==
  /\ alive = [p \in Proc |-> TRUE]
  /\ owner = [t \in Ticket |-> NoProc]
  /\ dir = {}
  /\ number = [t \in Ticket |-> 0]
  /\ marker = [t \in Ticket |-> FALSE]
  /\ pc = [p \in Proc |-> "idle"]
  /\ mode = [p \in Proc |-> "none"]
  /\ cur = [p \in Proc |-> NoTicket]
  /\ todo = [p \in Proc |-> {}]
  /\ peer = [p \in Proc |-> NoTicket]
  /\ highest = [p \in Proc |-> 0]
  /\ ahead = [t \in Ticket |-> {}]

Goto(p, label) == pc' = [pc EXCEPT ![p] = label]

\* Mutants of Precedes: no tie-break by name, and one that is not strict.
PrecedesWithoutTies(t, u) == number[t] < number[u]
PrecedesOnTies(t, u) == number[t] <= number[u]

\* The admission order: lower number first, ties by ticket name.
Precedes(t, u) ==
  \/ number[t] < number[u]
  \/ number[t] = number[u] /\ t < u

\* Mutant: a ticket with no number yet is taken for an abandoned one.
DeadOrChoosing(t) ==
  owner[t] \in Proc /\ (~alive[owner[t]] \/ number[t] = 0)

\* The owner pid in t's name belongs to no running process.
DeadOwner(t) == owner[t] \in Proc /\ ~alive[owner[t]]

-----------------------------------------------------------------------------
(* Acquisition.                                                            *)

\* mkdir of a fresh, uniquely named ticket: from here on p is choosing.
Mkdir(p) ==
  /\ pc[p] = "idle"
  /\ \E t \in NamesOf[p] :
       /\ owner[t] = NoProc
       /\ owner' = [owner EXCEPT ![t] = p]
       /\ dir' = dir \cup {t}
       /\ cur' = [cur EXCEPT ![p] = t]
       /\ ahead' = [ahead EXCEPT ![t] =
                      {u \in dir : number[u] > 0 /\ ~marker[u]}]
  /\ mode' = [mode EXCEPT ![p] = "doorway"]
  /\ Goto(p, "list")
  /\ UNCHANGED <<alive, number, marker, todo, peer, highest>>

\* The startup sweep reads every ticket only to reap the dead ones.
StartSweep(p) ==
  /\ p \in Sweepers
  /\ pc[p] = "idle"
  /\ mode' = [mode EXCEPT ![p] = "sweep"]
  /\ Goto(p, "list")
  /\ UNCHANGED <<alive, owner, files, cur, todo, peer, highest, ahead>>

\* readdir of the lock directory starts a scan from nothing.
ListPeers(p) ==
  /\ pc[p] = "list"
  /\ Cardinality(dir) <= MaxContenders
  /\ todo' = [todo EXCEPT ![p] = dir \ {cur[p]}]
  /\ highest' = [highest EXCEPT ![p] = 0]
  /\ Goto(p, "scan")
  /\ UNCHANGED <<alive, owner, files, mode, cur, peer, ahead>>

BeginOwnRemoval(p) ==
  /\ mode' = [mode EXCEPT ![p] = "release"]
  /\ peer' = [peer EXCEPT ![p] = cur[p]]
  /\ todo' = [todo EXCEPT ![p] = {}]
  /\ Goto(p, "rm_list")

\* An error inside acquireLock removes its own ticket; one elsewhere only ends
\* the operation, a failed release leaving the ticket where it is.
Abandon(p) ==
  IF mode[p] \in {"doorway", "admission"}
  THEN BeginOwnRemoval(p) /\ UNCHANGED cur
  ELSE /\ mode' = [mode EXCEPT ![p] = "none"]
       /\ peer' = [peer EXCEPT ![p] = NoTicket]
       /\ todo' = [todo EXCEPT ![p] = {}]
       /\ cur' = [cur EXCEPT ![p] = NoTicket]
       /\ Goto(p, "idle")

\* A listing with too many names is refused, also when most of them are dead.
ListRefused(p) ==
  /\ pc[p] = "list"
  /\ Cardinality(dir) > MaxContenders
  /\ Abandon(p)
  /\ UNCHANGED <<alive, owner, files, highest, ahead>>

\* p is done with its current peer and goes on with the scan.
NextPeer(p, t) ==
  /\ todo' = [todo EXCEPT ![p] = @ \ {t}]
  /\ peer' = [peer EXCEPT ![p] = NoTicket]
  /\ Goto(p, "scan")

Retry(p) ==
  /\ Goto(p, "blocked")
  /\ peer' = [peer EXCEPT ![p] = NoTicket]
  /\ UNCHANGED todo

Inspect(p, t, label) ==
  /\ peer' = [peer EXCEPT ![p] = t]
  /\ Goto(p, label)
  /\ UNCHANGED todo

\* lstat and readdir of one listed ticket: gone, departed, dead or to be read.
\* A directory being deleted may answer EPERM: then it is unresolved, not gone.
ReadTicketDir(p) ==
  /\ pc[p] = "scan"
  /\ \E t \in todo[p] :
       \/ t \notin dir /\ (NextPeer(p, t) \/ (mode[p] # "sweep" /\ Retry(p)))
       \/ /\ t \in dir /\ marker[t]
          /\ IF owner[t] = p \/ DeadOwner(t)
             THEN Inspect(p, t, "rm_list") ELSE NextPeer(p, t)
       \/ /\ t \in dir /\ ~marker[t]
          /\ Inspect(p, t, IF DeadOwner(t) THEN "rm_list" ELSE "read")
  /\ UNCHANGED <<alive, owner, files, mode, cur, highest, ahead>>

\* The peer has a number: remember it, or compare it with one's own.
ReadNumber(p) ==
  /\ pc[p] = "read"
  /\ LET t == peer[p] IN
     IF number[t] = 0
     THEN Inspect(p, t, "recheck") /\ UNCHANGED highest
     ELSE IF mode[p] = "admission" /\ Precedes(t, cur[p])
     THEN Retry(p) /\ UNCHANGED highest
     ELSE /\ NextPeer(p, t)
          /\ highest' = [highest EXCEPT ![p] =
               IF mode[p] = "doorway" /\ number[t] > @ THEN number[t] ELSE @]
  /\ UNCHANGED <<alive, owner, files, mode, cur, ahead>>

\* Mutant: a peer that is still choosing does not block the admission.
RecheckIgnoringChoosing(p) ==
  /\ pc[p] = "recheck"
  /\ NextPeer(p, peer[p])
  /\ UNCHANGED <<alive, owner, files, mode, cur, highest, ahead>>

\* No number was found: the peer has departed, or it is still choosing.
RecheckDeparted(p) ==
  /\ pc[p] = "recheck"
  /\ LET t == peer[p] IN
     IF mode[p] = "admission" /\ t \in dir /\ ~marker[t]
     THEN Retry(p) ELSE NextPeer(p, t)
  /\ UNCHANGED <<alive, owner, files, mode, cur, highest, ahead>>

\* The scan has read every listed ticket.
ScanDone(p) ==
  /\ pc[p] = "scan"
  /\ todo[p] = {}
  /\ Goto(p, CASE mode[p] = "doorway" -> "publish"
               [] mode[p] = "admission" -> "held"
               [] OTHER -> "idle")
  /\ mode' = [mode EXCEPT ![p] = IF @ = "sweep" THEN "none" ELSE @]
  /\ UNCHANGED <<alive, owner, files, cur, todo, peer, highest, ahead>>

\* Mutant: the published number is the highest one read, not one more.
PublishHighest(p) ==
  /\ pc[p] = "publish"
  /\ number' = [number EXCEPT ![cur[p]] =
                  IF highest[p] = 0 THEN 1 ELSE highest[p]]
  /\ mode' = [mode EXCEPT ![p] = "admission"]
  /\ highest' = [highest EXCEPT ![p] = 0]
  /\ Goto(p, "list")
  /\ UNCHANGED <<alive, owner, dir, marker, cur, todo, peer, ahead>>

\* write, fsync and rename of the number file.
Publish(p) ==
  /\ pc[p] = "publish"
  /\ number' = [number EXCEPT ![cur[p]] = highest[p] + 1]
  /\ mode' = [mode EXCEPT ![p] = "admission"]
  /\ highest' = [highest EXCEPT ![p] = 0]
  /\ Goto(p, "list")
  /\ UNCHANGED <<alive, owner, dir, marker, cur, todo, peer, ahead>>

\* After a pause a blocked contender scans again.
Rescan(p) ==
  /\ pc[p] = "blocked"
  /\ Goto(p, "list")
  /\ UNCHANGED <<alive, owner, files, mode, cur, todo, peer, highest, ahead>>

-----------------------------------------------------------------------------
(* Release, and the removal of a ticket by its owner or by a reaper.       *)

Timeout(p) ==
  /\ MayTimeout
  /\ pc[p] = "blocked"
  /\ BeginOwnRemoval(p)
  /\ UNCHANGED <<alive, owner, files, cur, highest, ahead>>

Release(p) ==
  /\ pc[p] = "held"
  /\ BeginOwnRemoval(p)
  /\ UNCHANGED <<alive, owner, files, cur, highest, ahead>>

\* Mutant: the release forgets that the ticket is no longer its own.
ReturnKeepingTicket(p) ==
  IF mode[p] = "release"
  THEN /\ mode' = [mode EXCEPT ![p] = "none"]
       /\ peer' = [peer EXCEPT ![p] = NoTicket]
       /\ Goto(p, "idle")
       /\ UNCHANGED <<cur, todo>>
  ELSE NextPeer(p, peer[p]) /\ UNCHANGED <<cur, mode>>

\* Where removeTicket returns to: the end of the acquisition, or the scan.
Return(p) ==
  IF mode[p] = "release"
  THEN /\ cur' = [cur EXCEPT ![p] = NoTicket]
       /\ mode' = [mode EXCEPT ![p] = "none"]
       /\ peer' = [peer EXCEPT ![p] = NoTicket]
       /\ Goto(p, "idle")
       /\ UNCHANGED todo
  ELSE NextPeer(p, peer[p]) /\ UNCHANGED <<cur, mode>>

Continue(p, label) ==
  Goto(p, label) /\ UNCHANGED <<cur, mode, peer, todo>>

RemoveList(p) ==
  /\ pc[p] = "rm_list"
  /\ LET t == peer[p] IN
     IF t \in dir
     THEN Continue(p, IF marker[t] THEN "rm_unlink" ELSE "rm_mark")
     ELSE Return(p)
  /\ UNCHANGED <<alive, owner, files, highest, ahead>>

\* Exclusive creation of the marker: the departure point of the ticket.
RemoveMark(p) ==
  /\ pc[p] = "rm_mark"
  /\ LET t == peer[p] IN
     IF t \in dir
     THEN marker' = [marker EXCEPT ![t] = TRUE] /\ Continue(p, "rm_unlink")
     ELSE Return(p) /\ UNCHANGED marker
  /\ UNCHANGED <<alive, owner, dir, number, highest, ahead>>

RemoveUnlink(p) ==
  /\ pc[p] = "rm_unlink"
  /\ number' = [number EXCEPT ![peer[p]] = 0]
  /\ Continue(p, "rm_relist")
  /\ UNCHANGED <<alive, owner, dir, marker, highest, ahead>>

\* Only a directory whose one entry is the marker is finished.
RemoveRelist(p) ==
  /\ pc[p] = "rm_relist"
  /\ LET t == peer[p] IN
     IF t \in dir /\ marker[t] /\ number[t] = 0
     THEN Continue(p, "rm_unmark") ELSE Return(p)
  /\ UNCHANGED <<alive, owner, files, highest, ahead>>

RemoveUnmark(p) ==
  /\ pc[p] = "rm_unmark"
  /\ LET t == peer[p] IN
     IF t \in dir /\ marker[t]
     THEN marker' = [marker EXCEPT ![t] = FALSE] /\ Continue(p, "rm_rmdir")
     ELSE Return(p) /\ UNCHANGED marker
  /\ UNCHANGED <<alive, owner, dir, number, highest, ahead>>

\* The directory still has an entry.
NotEmpty(t) == t \in dir /\ (marker[t] \/ number[t] > 0)

RemoveRmdir(p) ==
  /\ pc[p] = "rm_rmdir"
  /\ ~NotEmpty(peer[p])
  /\ dir' = dir \ {peer[p]}
  /\ Return(p)
  /\ UNCHANGED <<alive, owner, number, marker, highest, ahead>>

\* rmdir of a non-empty directory throws: the acquisition is abandoned.
RmdirFails(p) ==
  /\ pc[p] = "rm_rmdir"
  /\ NotEmpty(peer[p])
  /\ Abandon(p)
  /\ UNCHANGED <<alive, owner, files, highest, ahead>>

-----------------------------------------------------------------------------
(* Processes are killed anywhere; the files of a killed process stay.      *)

Crash(p) ==
  /\ p \in Mortal
  /\ pc[p] # "dead"
  /\ alive' = [alive EXCEPT ![p] = FALSE]
  /\ cur' = [cur EXCEPT ![p] = NoTicket]
  /\ mode' = [mode EXCEPT ![p] = "none"]
  /\ todo' = [todo EXCEPT ![p] = {}]
  /\ peer' = [peer EXCEPT ![p] = NoTicket]
  /\ highest' = [highest EXCEPT ![p] = 0]
  /\ Goto(p, "dead")
  /\ UNCHANGED <<owner, files, ahead>>

\* The operating system gives the pid of a killed process to a new contender.
ReusePid(p) ==
  /\ MayReusePid
  /\ pc[p] = "dead"
  /\ alive' = [alive EXCEPT ![p] = TRUE]
  /\ Goto(p, "idle")
  /\ UNCHANGED <<owner, files, mode, cur, todo, peer, highest, ahead>>

Remove(p) ==
  \/ RemoveList(p) \/ RemoveMark(p) \/ RemoveUnlink(p)
  \/ RemoveRelist(p) \/ RemoveUnmark(p) \/ RemoveRmdir(p) \/ RmdirFails(p)

\* The steps of a contender that is inside acquireLock or its release.
Step(p) ==
  \/ ListPeers(p) \/ ListRefused(p) \/ ReadTicketDir(p) \/ ReadNumber(p)
  \/ RecheckDeparted(p) \/ ScanDone(p) \/ Publish(p) \/ Rescan(p) \/ Release(p) \/ Remove(p)

Next ==
  \E p \in Proc :
    \/ Mkdir(p) \/ StartSweep(p) \/ Step(p) \/ Timeout(p)
    \/ Crash(p) \/ ReusePid(p)

Spec == Init /\ [][Next]_vars

\* acquireLock is synchronous: once called, a live process runs it to its end.
FairSpec == Spec /\ \A p \in Proc : WF_vars(Step(p))

-----------------------------------------------------------------------------
(* Properties.                                                             *)

\* At most one contender is between acquireLock's return and its release,
\* however many tickets are being reaped, timed out or left by dead owners.
MutualExclusion ==
  \A p, q \in Proc : pc[p] = "held" /\ pc[q] = "held" => p = q

Acquiring(p) == mode[p] \in {"doorway", "admission"}

\* The contenders in the admission loop whose number p's doorway had to see.
QueuedAhead(p) ==
  {q \in Proc : mode[q] = "admission" /\ cur[q] \in ahead[cur[p]]}

\* Bakery order: a contender holds the lock only after every acquisition that
\* was already numbered when it made its ticket has departed or died.
FirstComeFirstServed == \A p \in Proc : pc[p] = "held" => QueuedAhead(p) = {}

\* How far an acquisition is, in the words of SessionMutex, and whom it waits for.
PhaseOf(p) ==
  CASE mode[p] = "doorway" -> "arriving"
    [] pc[p] = "held" -> "in"
    [] mode[p] = "admission" /\ pc[p] # "held" -> "queued"
    [] OTHER -> "out"
BeforeOf(p) == IF Acquiring(p) THEN QueuedAhead(p) ELSE {}

\* The tickets implement one fair critical section: doorway scans, reaps,
\* deadlines and crashes are all steps, or stuttering, of SessionMutex.
Mutex == INSTANCE SessionMutex WITH
  Contender <- Proc,
  phase <- [p \in Proc |-> PhaseOf(p)],
  before <- [p \in Proc |-> BeforeOf(p)]

ImplementsMutex == Mutex!Spec

\* A reaper never touches the ticket of a running acquisition: nobody but its
\* owner is inside removeTicket for it, and it carries no departure marker.
LiveTicketUntouched ==
  \A p \in Proc :
    Acquiring(p) =>
      /\ cur[p] \in dir /\ ~marker[cur[p]]
      /\ \A q \in Proc : pc[q] \in Removing => peer[q] # cur[p]

\* A remover is about to call rmdir on a ticket whose marker another remover of
\* the same ticket has created again: the call may throw (ENOTEMPTY).
RemovalClash(p) == pc[p] = "rm_rmdir" /\ NotEmpty(peer[p])

\* Without deadlines every acquisition of a process that is not killed is
\* admitted, although owners of earlier tickets may be killed at any point.  The
\* code has one exception: while it reaps a dead ticket, an acquisition may clash
\* with another remover of it, and removeTicket throws out of acquireLock.
EventuallyAdmitted ==
  \A p \in Proc :
    Acquiring(p) ~> (pc[p] \in {"held", "dead"} \/ RemovalClash(p))
=============================================================================
