--------------------------- MODULE DaemonProofs -----------------------------
(***************************************************************************)
(* Proofs about two parts of the daemon, for any values of their           *)
(* constants: the life of a daemon with the files and the port that it     *)
(* shares with other daemons (DaemonLifecycle), and the broker that passes *)
(* operations on to other machines (BrokerHub).  Neither part uses a name  *)
(* of the other.                                                           *)
(***************************************************************************)
EXTENDS DaemonLifecycle, BrokerHub, TLAPS

-----------------------------------------------------------------------------
(***************************************************************************)
(* Proofs about DaemonLifecycle for any set of daemons.                    *)
(*                                                                         *)
(* What a daemon holds in memory is on the disk (HeldOnDisk, Writing), a   *)
(* worker lives only while its daemon holds the lock (WorkerHeld), and the *)
(* lock that is there is accounted for (LockAccounted).  The rest says     *)
(* which places of the program counters go with that: before the claim a   *)
(* daemon has nothing (Fresh), after the release it has nothing unless a   *)
(* call failed (Ended), and the operator who gets as far as the unlink has *)
(* seen no daemon that holds the lock (UnlockQuiet, UnlockSeen).           *)
(***************************************************************************)

Early(d) ==
  \/ pc[d] \in {"off", "claim", "probe", "publish"}
  \/ pc[d] \in Clearing /\ after[d] = "publish"

\* The labels that after may hold, by where its process is.
Returns ==
  /\ \A d \in Daemon :
       /\ pc[d] \in Clearing => after[d] \in {"publish", "bailout", "exit", "gone"}
       /\ pc[d] \in {"closing", "verify", "unlink", "released"} => after[d] \in {"clear", "exit", "gone"}
       /\ pc[d] = "closing" => after[d] # "gone"
       /\ pc[d] \notin Unlocking \cup {"idle", "sweep"}
  /\ pc[Operator] \in Clearing \cup Unlocking \cup {"idle", "sweep"}
  /\ after[Operator] = "idle"

Fresh == \A d \in Daemon : Early(d) => ~held[d] /\ acquiring[d] = "none" /\ stateFile # d

HeldOnDisk == \A d \in Daemon : held[d] => lock = d /\ lockText /\ acquiring[d] = "none" /\ pc[d] # "gone"

Writing ==
  \A d \in Daemon :
    /\ acquiring[d] = "write" => lock = d
    /\ acquiring[d] # "none" => pc[d] \notin {"config", "open", "gone", "verify", "unlink", "released"}

WorkerHeld == \A d \in Daemon : worker[d] # "none" => held[d] /\ pc[d] \notin {"acquire", "config", "verify", "unlink"}

Unlinking == \A d \in Daemon : pc[d] = "unlink" => held[d]

\* A release is over, or the daemon ends without one because a call has failed.
Ended ==
  \A d \in Daemon :
    \/ pc[d] \in {"released", "clear", "exit"}
    \/ pc[d] \in Clearing /\ after[d] \in {"exit", "gone"}
    => (~held[d] /\ acquiring[d] = "none") \/ "failed" \in met[d]

LockAccounted ==
  \A d \in Daemon : lock = d => acquiring[d] = "write" \/ held[d] \/ met[d] \cap {"failed", "killed"} # {}

\* What a daemon that ends does about its state file.
StateAccounted ==
  \A d \in Daemon :
    /\ pc[d] = "gone" /\ stateFile = d => met[d] # {}
    /\ pc[d] \in Clearing /\ after[d] = "gone" => seen[d] = d
    /\ pc[d] \in {"verify", "unlink", "released"} /\ after[d] = "gone" => "config" \in met[d]

UnlockQuiet == pc[Operator] \in Unlocking => \A d \in Daemon : ~Loading(d) /\ acquiring[d] = "none"

UnlockSeen ==
  /\ pc[Operator] \in {"checkState", "health", "checkLock"} => \A d \in Daemon : held[d] => lockSeen = d
  /\ pc[Operator] = "unlinkLock" => \A d \in Daemon : ~held[d]

Inv ==
  /\ LifecycleTypeOK /\ Returns /\ Fresh /\ HeldOnDisk /\ Writing /\ WorkerHeld /\ Unlinking /\ Ended
  /\ LockAccounted /\ StateAccounted /\ UnlockQuiet /\ UnlockSeen

-----------------------------------------------------------------------------
(* Types. *)

\* The part of TypeOK that Gone, Clear and Return touch.
LocalOK ==
  /\ port \in Daemon \cup {NoProcess}
  /\ pc \in [Process ->
       {"off", "claim", "probe", "publish", "acquire", "config", "open", "bind", "up", "drain", "bailout",
        "closing", "verify", "unlink", "released", "clear", "exit", "gone", "idle", "sweep"}
       \cup Clearing \cup Unlocking]
  /\ seen \in [Process -> Daemon \cup {NoProcess}] /\ lockSeen \in Daemon \cup {NoProcess}
  /\ after \in [Process -> {"publish", "bailout", "clear", "exit", "gone", "idle"}]
  /\ acquiring \in [Daemon -> {"none", "create", "write"}]
  /\ refusal \in [Daemon -> {"none", "lock_present", "lock_error"}]
  /\ held \in [Daemon -> BOOLEAN]
  /\ worker \in [Daemon -> {"none", "opening", "open", "unavailable"}]

\* A process that ends keeps the types.
LEMMA GoneTypes == ASSUME LocalOK, NEW p \in Process, Gone(p) PROVE LocalOK'
  BY DaemonAssumption DEF LocalOK, Gone, Forget, Goto

\* So does one that returns from a clear or a release.
LEMMA ReturnTypes == ASSUME LocalOK, NEW p \in Process, Return(p) PROVE LocalOK'
<1> USE DaemonAssumption
<1>1. CASE after[p] = "gone"
  BY <1>1, GoneTypes DEF Return
<1>2. CASE after[p] # "gone"
  BY <1>2 DEF LocalOK, Return, Forget, Goto, client
<1> QED
  BY <1>1, <1>2

\* And one that begins a clear, whoever calls it and wherever it goes on.
LEMMA ClearTypes ==
  ASSUME LocalOK, NEW p \in Process, NEW expected \in Daemon \cup {NoProcess},
         NEW next \in {"publish", "bailout", "exit", "gone", "idle"},
         Clear(p, expected, next), UNCHANGED <<port, client>>
  PROVE  LocalOK'
  BY DaemonAssumption DEF LocalOK, Clear, Goto, client, Clearing

\* And the operator whose command is over.
LEMMA StopTypes == ASSUME LocalOK, OperatorStops PROVE LocalOK'
  BY DaemonAssumption DEF LocalOK, OperatorStops, Forget, Goto, client, Process

\* LifecycleTypeOK is LocalOK with the types of the files and of the faults.
LEMMA Types == LifecycleTypeOK <=> LocalOK /\ stateFile \in Daemon \cup {NoProcess} /\ lock \in Daemon \cup {NoProcess}
                          /\ lockText \in BOOLEAN /\ (lockText => lock # NoProcess)
                          /\ met \in [Daemon -> SUBSET {"config", "failed", "killed"}]
  BY DaemonAssumption DEF LifecycleTypeOK, LocalOK

\* The same of the next state.
LEMMA TypesPrime == LifecycleTypeOK' <=> LocalOK' /\ stateFile' \in Daemon \cup {NoProcess} /\ lock' \in Daemon \cup {NoProcess}
                          /\ lockText' \in BOOLEAN /\ (lockText' => lock' # NoProcess)
                          /\ met' \in [Daemon -> SUBSET {"config", "failed", "killed"}]
  BY DaemonAssumption DEF LifecycleTypeOK, LocalOK

\* Every step of the daemons and of the operator keeps the types.
LEMMA TypeStep == ASSUME LifecycleTypeOK, [LifecycleNext]_lifecycleVars PROVE LifecycleTypeOK'
<1> USE DaemonAssumption
<1> USE Types, TypesPrime
<1>1. ASSUME NEW d \in Daemon, Start(d) PROVE LifecycleTypeOK'
  BY <1>1 DEF LocalOK, Start, Goto, At, Process, Meets, Refused, Acquired, files, reads, client, Clearing, Unlocking, OperatorGoes
<1>2. ASSUME NEW d \in Daemon, ReadClaim(d) PROVE LifecycleTypeOK'
  BY <1>2 DEF LocalOK, ReadClaim, Goto, At, Process, Meets, Refused, Acquired, files, reads, client, Clearing, Unlocking, OperatorGoes
<1>3. ASSUME NEW d \in Daemon, ProbeClaim(d) PROVE LifecycleTypeOK'
  <2>1. seen[d] \in Daemon \cup {NoProcess} /\ d \in Process
    BY DEF LocalOK, Process
  <2>2. Gone(d) \/ (Clear(d, seen[d], "publish") /\ UNCHANGED <<port, client>>)
    BY <1>3 DEF ProbeClaim
  <2>3. LocalOK'
    BY <2>1, <2>2, GoneTypes, ClearTypes
  <2> QED
    BY <1>3, <2>3 DEF ProbeClaim, files
<1>4. ASSUME NEW d \in Daemon, Publish(d) PROVE LifecycleTypeOK'
  <2>1. CASE Gone(d)
    <3>1. LocalOK'
      BY <2>1, GoneTypes DEF Process
    <3> QED
      BY <1>4, <3>1 DEF Publish, Meets, Gone
  <2>2. CASE ~Gone(d)
    BY <1>4, <2>2 DEF LocalOK, Publish, Goto, At, Process, Meets, Refused, Acquired, files, reads, client, Clearing, Unlocking, OperatorGoes
  <2> QED
    BY <2>1, <2>2
<1>5. ASSUME NEW d \in Daemon, CreateLock(d) PROVE LifecycleTypeOK'
  <2>1. CASE Refused(d, "lock_present") /\ UNCHANGED <<lock, lockText>>
    BY <1>5, <2>1 DEF LocalOK, CreateLock, Goto, At, Process, Meets, Refused, Acquired, files, reads, client, Clearing, Unlocking, OperatorGoes
  <2>2. CASE Refused(d, "lock_error") /\ UNCHANGED <<lock, lockText>>
    BY <1>5, <2>2 DEF LocalOK, CreateLock, Goto, At, Process, Meets, Refused, Acquired, files, reads, client, Clearing, Unlocking, OperatorGoes
  <2>3. CASE lock = NoProcess /\ lock' = d /\ lockText' = FALSE /\ acquiring' = [acquiring EXCEPT ![d] = "write"]
              /\ UNCHANGED <<pc, refusal, held, worker>>
    BY <1>5, <2>3 DEF LocalOK, CreateLock, Goto, At, Process, Meets, Refused, Acquired, files, reads, client, Clearing, Unlocking, OperatorGoes
  <2> QED
    BY <1>5, <2>1, <2>2, <2>3 DEF CreateLock
<1>6. ASSUME NEW d \in Daemon, WriteLock(d) PROVE LifecycleTypeOK'
  BY <1>6 DEF LocalOK, WriteLock, Goto, At, Process, Meets, Refused, Acquired, files, reads, client, Clearing, Unlocking, OperatorGoes
<1>7. ASSUME NEW d \in Daemon, WriteLockFails(d) PROVE LifecycleTypeOK'
  BY <1>7 DEF LocalOK, WriteLockFails, Goto, At, Process, Meets, Refused, Acquired, files, reads, client, Clearing, Unlocking, OperatorGoes
<1>8. ASSUME NEW d \in Daemon, ReadConfig(d) PROVE LifecycleTypeOK'
  BY <1>8 DEF LocalOK, ReadConfig, Goto, At, Process, Meets, Refused, Acquired, files, reads, client, Clearing, Unlocking, OperatorGoes
<1>9. ASSUME NEW d \in Daemon, OpenStore(d) PROVE LifecycleTypeOK'
  BY <1>9 DEF LocalOK, OpenStore, Goto, At, Process, Meets, Refused, Acquired, files, reads, client, Clearing, Unlocking, OperatorGoes
<1>10. ASSUME NEW d \in Daemon, VerifyLock(d) PROVE LifecycleTypeOK'
  BY <1>10 DEF LocalOK, VerifyLock, Goto, At, Process, Meets, Refused, Acquired, files, reads, client, Clearing, Unlocking, OperatorGoes
<1>11. ASSUME NEW d \in Daemon, WorkerExits(d) PROVE LifecycleTypeOK'
  BY <1>11 DEF LocalOK, WorkerExits, Goto, At, Process, Meets, Refused, Acquired, files, reads, client, Clearing, Unlocking, OperatorGoes
<1>12. ASSUME NEW d \in Daemon, Listen(d) PROVE LifecycleTypeOK'
  BY <1>12 DEF LocalOK, Listen, Goto, At, Process, Meets, Refused, Acquired, files, reads, client, Clearing, Unlocking, OperatorGoes
<1>13. ASSUME NEW d \in Daemon, AddressInUse(d) PROVE LifecycleTypeOK'
  BY <1>13, GoneTypes, ReturnTypes, ClearTypes, StopTypes DEF AddressInUse, Process, files, Meets
<1>14. ASSUME NEW d \in Daemon, ListenFails(d) PROVE LifecycleTypeOK'
  BY <1>14, GoneTypes, ReturnTypes, ClearTypes, StopTypes DEF ListenFails, Process, files, Meets
<1>15. ASSUME NEW d \in Daemon, Shutdown(d) PROVE LifecycleTypeOK'
  BY <1>15 DEF LocalOK, Shutdown, Goto, At, Process, Meets, Refused, Acquired, files, reads, client, Clearing, Unlocking, OperatorGoes
<1>16. ASSUME NEW d \in Daemon, Close(d) PROVE LifecycleTypeOK'
  BY <1>16 DEF LocalOK, Close, Goto, At, Process, Meets, Refused, Acquired, files, reads, client, Clearing, Unlocking, OperatorGoes
<1>17. ASSUME NEW d \in Daemon, StopWorker(d) PROVE LifecycleTypeOK'
  BY <1>17 DEF LocalOK, StopWorker, Goto, At, Process, Meets, Refused, Acquired, files, reads, client, Clearing, Unlocking, OperatorGoes
<1>18. ASSUME NEW d \in Daemon, Verify(d) PROVE LifecycleTypeOK'
  <2>1. CASE Return(d)
    BY <1>18, <2>1, ReturnTypes DEF Verify, Process, files
  <2>2. CASE ~Return(d)
    BY <1>18, <2>2 DEF LocalOK, Verify, Goto, At, Process, Meets, Refused, Acquired, files, reads, client, Clearing, Unlocking, OperatorGoes
  <2> QED
    BY <2>1, <2>2
<1>19. ASSUME NEW d \in Daemon, Unlink(d) PROVE LifecycleTypeOK'
  <2>1. LocalOK'
    BY <1>19 DEF LocalOK, Unlink, Goto, reads, Process
  <2>2. /\ lock' \in Daemon \cup {NoProcess} /\ lockText' \in BOOLEAN /\ (lockText' => lock' # NoProcess)
        /\ stateFile' \in Daemon \cup {NoProcess}
    <3>1. CASE lock' = NoProcess /\ lockText' = FALSE
      BY <1>19, <3>1 DEF Unlink
    <3>2. CASE UNCHANGED <<lock, lockText>>
      BY <1>19, <3>2 DEF Unlink
    <3> QED
      BY <1>19, <3>1, <3>2 DEF Unlink
  <2>3. met' \in [Daemon -> SUBSET {"config", "failed", "killed"}]
    BY <1>19 DEF Unlink, Meets
  <2> QED
    BY <2>1, <2>2, <2>3
<1>20. ASSUME NEW d \in Daemon, Released(d) PROVE LifecycleTypeOK'
  BY <1>20, GoneTypes, ReturnTypes, ClearTypes, StopTypes DEF Released, Process, files
<1>21. ASSUME NEW d \in Daemon, ClearOwn(d) PROVE LifecycleTypeOK'
  BY <1>21, GoneTypes, ReturnTypes, ClearTypes, StopTypes DEF ClearOwn, Process, files
<1>22. ASSUME NEW d \in Daemon, Kill(d) PROVE LifecycleTypeOK'
  <2>1. LocalOK'
    BY <1>22, GoneTypes DEF Kill, Process
  <2> QED
    BY <1>22, <2>1 DEF Kill, Meets, files
<1>23. ASSUME NEW p \in Process, Exists(p) PROVE LifecycleTypeOK'
  <2>1. CASE Return(p)
    <3>1. LocalOK'
      BY <2>1, ReturnTypes
    <3> QED
      BY <1>23, <3>1 DEF Exists, files
  <2>2. CASE ~Return(p)
    BY <1>23, <2>2 DEF LocalOK, Exists, Goto, At, Process, Meets, Refused, Acquired, files, reads, client, Clearing, Unlocking, OperatorGoes
  <2> QED
    BY <2>1, <2>2
<1>24. ASSUME NEW p \in Process, Compare(p) PROVE LifecycleTypeOK'
  <2>1. CASE Return(p)
    <3>1. LocalOK'
      BY <2>1, ReturnTypes
    <3> QED
      BY <1>24, <3>1 DEF Compare, files
  <2>2. CASE ~Return(p)
    BY <1>24, <2>2 DEF LocalOK, Compare, Goto, At, Process, Meets, Refused, Acquired, files, reads, client, Clearing, Unlocking, OperatorGoes
  <2> QED
    BY <2>1, <2>2
<1>25. ASSUME NEW p \in Process, Remove(p) PROVE LifecycleTypeOK'
  <2>1. CASE Return(p)
    <3>1. LocalOK'
      BY <2>1, ReturnTypes
    <3> QED
      BY <1>25, <3>1 DEF Remove, files
  <2>2. CASE ~Return(p)
    BY <1>25, <2>2 DEF LocalOK, Remove, Goto, At, Process, Meets, Refused, Acquired, files, reads, client, Clearing, Unlocking, OperatorGoes
  <2> QED
    BY <2>1, <2>2
<1>26. CASE Unlock
  BY <1>26 DEF LocalOK, Forget, Unlock, Goto, At, Process, Meets, Refused, Acquired, files, reads, client, Clearing, Unlocking, OperatorGoes
<1>27. CASE ReadLock
  <2>1. CASE OperatorStops
    BY <1>27, <2>1, StopTypes DEF ReadLock, OperatorStops, files
  <2>2. CASE ~OperatorStops
    BY <1>27, <2>2 DEF LocalOK, ReadLock, UnlessRunning, Goto, At, Process, Meets, Refused, Acquired, files, reads, client, Clearing, Unlocking, OperatorGoes
  <2> QED
    BY <2>1, <2>2
<1>28. CASE CheckState
  <2>1. CASE OperatorStops
    BY <1>28, <2>1, StopTypes DEF CheckState, OperatorStops, files
  <2>2. CASE ~OperatorStops
    BY <1>28, <2>2 DEF LocalOK, CheckState, UnlessRunning, Goto, At, Process, Meets, Refused, Acquired, files, reads, client, Clearing, Unlocking, OperatorGoes
  <2> QED
    BY <2>1, <2>2
<1>29. CASE ProbeHealth
  <2>1. CASE OperatorStops
    BY <1>29, <2>1, StopTypes DEF ProbeHealth, OperatorStops, files
  <2>2. CASE ~OperatorStops
    BY <1>29, <2>2 DEF LocalOK, ProbeHealth, UnlessRunning, Goto, At, Process, Meets, Refused, Acquired, files, reads, client, Clearing, Unlocking, OperatorGoes
  <2> QED
    BY <2>1, <2>2
<1>30. CASE CheckLock
  <2>1. CASE OperatorStops
    BY <1>30, <2>1, StopTypes DEF CheckLock, OperatorStops, files
  <2>2. CASE ~OperatorStops
    BY <1>30, <2>2 DEF LocalOK, CheckLock, UnlessRunning, Goto, At, Process, Meets, Refused, Acquired, files, reads, client, Clearing, Unlocking, OperatorGoes
  <2> QED
    BY <2>1, <2>2
<1>31. CASE UnlinkLock
  BY <1>31 DEF LocalOK, Forget, UnlinkLock, Goto, At, Process, Meets, Refused, Acquired, files, reads, client, Clearing, Unlocking, OperatorGoes
<1>32. CASE Sweep
  BY <1>32 DEF LocalOK, Forget, Sweep, Goto, At, Process, Meets, Refused, Acquired, files, reads, client, Clearing, Unlocking, OperatorGoes
<1>33. CASE ProbeSweep
  <2>1. CASE OperatorStops
    BY <1>33, <2>1, StopTypes DEF ProbeSweep, OperatorStops, files
  <2>2. CASE Clear(Operator, seen[Operator], "idle") /\ UNCHANGED <<files, port, client, met>>
    <3>1. seen[Operator] \in Daemon \cup {NoProcess} /\ Operator \in Process
      BY DEF LocalOK, Process
    <3>2. LocalOK'
      BY <2>2, <3>1, ClearTypes
    <3> QED
      BY <2>2, <3>2 DEF files
  <2> QED
    BY <1>33, <2>1, <2>2 DEF ProbeSweep
<1>34. CASE UNCHANGED lifecycleVars
  BY <1>34 DEF LocalOK, lifecycleVars
<1> QED
  BY <1>1, <1>2, <1>3, <1>4, <1>5, <1>6, <1>7, <1>8, <1>9, <1>10, <1>11, <1>12, <1>13, <1>14, <1>15, <1>16, <1>17, <1>18, <1>19, <1>20, <1>21, <1>22, <1>23, <1>24, <1>25, <1>26, <1>27, <1>28, <1>29, <1>30, <1>31, <1>32, <1>33, <1>34 DEF LifecycleNext, Load, Acquire, Serve, End, ClearStep, Environment, Command, Process

\* Before a daemon is started the variables have their types.
LEMMA InitTypes == LifecycleInit => LifecycleTypeOK
<1> USE DaemonAssumption
<1> SUFFICES ASSUME LifecycleInit PROVE LifecycleTypeOK
  OBVIOUS
<1>1. LocalOK
  BY DEF LifecycleInit, LocalOK, Process
<1>2. lockText \in BOOLEAN /\ (lockText => lock # NoProcess)
  BY DEF LifecycleInit
<1>3. met \in [Daemon -> SUBSET {"config", "failed", "killed"}]
  BY DEF LifecycleInit
<1> QED
  BY <1>1, <1>2, <1>3, Types DEF LifecycleInit

\* The variables keep their types, and a lock that has a text is there, for any number of daemons.
THEOREM LifecycleTypeCorrect == LifecycleSpec => []LifecycleTypeOK
  BY InitTypes, TypeStep, PTL DEF LifecycleSpec

-----------------------------------------------------------------------------
(* The invariant. *)

\* With no daemon and no file, nothing is to be accounted for.
LEMMA InitInv == LifecycleInit => Inv
<1> USE DaemonAssumption
<1> SUFFICES ASSUME LifecycleInit PROVE Inv
  OBVIOUS
<1>1. LifecycleTypeOK
  BY InitTypes
<1>2. Returns
  BY DEF LifecycleInit, Returns, Early, Process, Clearing, Unlocking
<1>3. Fresh
  BY DEF LifecycleInit, Fresh, Early, Process, Clearing, Unlocking
<1>4. HeldOnDisk
  BY DEF LifecycleInit, HeldOnDisk, Early, Process, Clearing, Unlocking
<1>5. Writing
  BY DEF LifecycleInit, Writing, Early, Process, Clearing, Unlocking
<1>6. WorkerHeld
  BY DEF LifecycleInit, WorkerHeld, Early, Process, Clearing, Unlocking
<1>7. Unlinking
  BY DEF LifecycleInit, Unlinking, Early, Process, Clearing, Unlocking
<1>8. Ended
  BY DEF LifecycleInit, Ended, Early, Process, Clearing, Unlocking
<1>9. LockAccounted
  BY DEF LifecycleInit, LockAccounted, Early, Process, Clearing, Unlocking
<1>10. StateAccounted
  BY DEF LifecycleInit, StateAccounted, Early, Process, Clearing, Unlocking
<1>11. UnlockQuiet
  BY DEF LifecycleInit, UnlockQuiet, Early, Process, Clearing, Unlocking
<1>12. UnlockSeen
  BY DEF LifecycleInit, UnlockSeen, Early, Process, Clearing, Unlocking
<1> QED
  BY <1>1, <1>2, <1>3, <1>4, <1>5, <1>6, <1>7, <1>8, <1>9, <1>10, <1>11, <1>12 DEF Inv

\* The conjuncts of Inv carry each other over every step of daemons and operator.
LEMMA InvStep == ASSUME Inv, [LifecycleNext]_lifecycleVars PROVE Inv'
<1> USE DaemonAssumption
<1>0. LifecycleTypeOK /\ LifecycleTypeOK'
  BY TypeStep DEF Inv
<1> USE <1>0
<1> USE DEF Inv, LifecycleTypeOK, Returns, Fresh, Early, HeldOnDisk, Writing, WorkerHeld, Unlinking, Ended,
         LockAccounted, StateAccounted, UnlockQuiet, UnlockSeen
<1>1. ASSUME NEW d \in Daemon, Start(d) PROVE Inv'
  BY <1>1 DEF Start, Goto, At, Process, files, reads, client, Clearing, Unlocking, Loading
<1>2. ASSUME NEW d \in Daemon, ReadClaim(d) PROVE Inv'
  BY <1>2 DEF ReadClaim, Goto, At, Process, files, client, Clearing, Unlocking, Loading
<1>3. ASSUME NEW d \in Daemon, ProbeClaim(d) PROVE Inv'
  BY <1>3 DEF ProbeClaim, Goto, At, Process, Gone, Forget, Clear, files, client, Clearing, Unlocking, Loading, Running, Alive
<1>4. ASSUME NEW d \in Daemon, Publish(d) PROVE Inv'
  BY <1>4 DEF Publish, Goto, At, Process, Gone, Forget, Meets, reads, Clearing, Unlocking, Loading
<1>5. ASSUME NEW d \in Daemon, CreateLock(d) PROVE Inv'
  BY <1>5 DEF CreateLock, At, Process, Refused, Acquired, reads, Clearing, Unlocking, Loading
<1>6. ASSUME NEW d \in Daemon, WriteLock(d) PROVE Inv'
  <2>1. HeldOnDisk'
    <3>1. lock = d /\ lock' = lock /\ lockText' /\ acquiring'[d] = "none" /\ pc'[d] # "gone"
      <4>1. lock = d /\ lock' = lock /\ acquiring'[d] = "none"
        BY <1>6 DEF WriteLock
      <4>2. lockText'
        BY <1>6, <4>1, Zenon DEF WriteLock
      <4>3. pc'[d] # "gone"
        BY <1>6 DEF WriteLock, Acquired, At, Process
      <4> QED
        BY <4>1, <4>2, <4>3
    <3>2. \A e \in Daemon : held[e] => lock = e
      OBVIOUS
    <3> QED
      BY <1>6, <3>1, <3>2 DEF WriteLock
  <2>2. Returns' /\ Fresh' /\ Writing' /\ WorkerHeld' /\ Unlinking' /\ Ended' /\ LockAccounted' /\ StateAccounted' /\ UnlockQuiet' /\ UnlockSeen'
    BY <1>6 DEF WriteLock, At, Process, Acquired, reads, Clearing, Unlocking, Loading
  <2> QED
    BY <2>1, <2>2
<1>7. ASSUME NEW d \in Daemon, WriteLockFails(d) PROVE Inv'
  <2>1. Returns' /\ Fresh' /\ Writing' /\ WorkerHeld' /\ Unlinking'
    BY <1>7 DEF WriteLockFails, At, Process, Meets, Refused, Acquired, reads, Clearing, Unlocking, Loading
  <2>2. HeldOnDisk' /\ Ended' /\ LockAccounted' /\ StateAccounted'
    BY <1>7 DEF WriteLockFails, At, Process, Meets, Refused, Acquired, reads, Clearing, Unlocking, Loading
  <2>3. UnlockQuiet' /\ UnlockSeen'
    BY <1>7 DEF WriteLockFails, At, Process, Meets, Refused, Acquired, reads, Clearing, Unlocking, Loading
  <2> QED
    BY <2>1, <2>2, <2>3
<1>8. ASSUME NEW d \in Daemon, ReadConfig(d) PROVE Inv'
  BY <1>8 DEF ReadConfig, Goto, At, Process, Meets, files, client, Clearing, Unlocking, Loading
<1>9. ASSUME NEW d \in Daemon, OpenStore(d) PROVE Inv'
  BY <1>9 DEF OpenStore, Goto, At, Process, files, reads, Clearing, Unlocking, Loading
<1>10. ASSUME NEW d \in Daemon, VerifyLock(d) PROVE Inv'
  BY <1>10 DEF VerifyLock, Process, files, reads, Clearing, Unlocking, Loading
<1>11. ASSUME NEW d \in Daemon, WorkerExits(d) PROVE Inv'
  BY <1>11 DEF WorkerExits, At, Process, files, reads, Clearing, Unlocking, Loading
<1>12. ASSUME NEW d \in Daemon, Listen(d) PROVE Inv'
  BY <1>12 DEF Listen, Goto, At, Process, files, reads, client, Clearing, Unlocking, Loading
<1>13. ASSUME NEW d \in Daemon, AddressInUse(d) PROVE Inv'
  BY <1>13 DEF AddressInUse, Goto, At, Process, Clear, files, client, Clearing, Unlocking, Loading
<1>14. ASSUME NEW d \in Daemon, ListenFails(d) PROVE Inv'
  BY <1>14 DEF ListenFails, Goto, At, Process, Clear, Meets, files, client, Clearing, Unlocking, Loading
<1>15. ASSUME NEW d \in Daemon, Shutdown(d) PROVE Inv'
  BY <1>15 DEF Shutdown, Goto, At, Process, files, reads, client, Clearing, Unlocking, Loading
<1>16. ASSUME NEW d \in Daemon, Close(d) PROVE Inv'
  BY <1>16 DEF Close, Goto, At, Process, files, client, Clearing, Unlocking, Loading
<1>17. ASSUME NEW d \in Daemon, StopWorker(d) PROVE Inv'
  BY <1>17 DEF StopWorker, Goto, At, Process, files, reads, Clearing, Unlocking, Loading
<1>18. ASSUME NEW d \in Daemon, Verify(d) PROVE Inv'
  BY <1>18 DEF Verify, Goto, At, Process, Gone, Forget, Return, files, reads, client, Clearing, Unlocking, Loading
<1>19. ASSUME NEW d \in Daemon, Unlink(d) PROVE Inv'
  BY <1>19 DEF Unlink, Goto, At, Process, Meets, reads, Clearing, Unlocking, Loading
<1>20. ASSUME NEW d \in Daemon, Released(d) PROVE Inv'
  BY <1>20 DEF Released, Goto, At, Process, Gone, Forget, Return, files, client, Clearing, Unlocking, Loading
<1>21. ASSUME NEW d \in Daemon, ClearOwn(d) PROVE Inv'
  BY <1>21 DEF ClearOwn, Goto, At, Process, Clear, files, client, Clearing, Unlocking, Loading
<1>22. ASSUME NEW d \in Daemon, Kill(d) PROVE Inv'
  <2>1. LockAccounted'
    <3>1. "killed" \in met'[d] /\ lock' = lock
      BY <1>22 DEF Kill, Meets, files
    <3>2. \A e \in Daemon : e # d => acquiring'[e] = acquiring[e] /\ held'[e] = held[e] /\ met'[e] = met[e]
      BY <1>22 DEF Kill, Meets, Gone
    <3> QED
      BY <3>1, <3>2
  <2>2. StateAccounted'
    <3>1. met'[d] # {} /\ stateFile' = stateFile /\ pc'[d] = "gone"
      BY <1>22 DEF Kill, Meets, files, Gone, Goto, Process
    <3>2. \A e \in Daemon : e # d =>
            pc'[e] = pc[e] /\ after'[e] = after[e] /\ seen'[e] = seen[e] /\ met'[e] = met[e]
      BY <1>22 DEF Kill, Meets, Gone, Goto, Forget, Process
    <3> QED
      BY <3>1, <3>2 DEF Clearing
  <2>3. Returns' /\ Fresh' /\ HeldOnDisk' /\ Writing' /\ WorkerHeld' /\ Unlinking' /\ Ended' /\ UnlockQuiet' /\ UnlockSeen'
    BY <1>22 DEF Kill, Goto, Process, Gone, Forget, Meets, files, Clearing, Unlocking, Loading, Alive
  <2> QED
    BY <2>1, <2>2, <2>3
<1>23. ASSUME NEW d \in Daemon, Exists(d) PROVE Inv'
  <2>1. Returns' /\ Fresh' /\ HeldOnDisk' /\ Writing' /\ WorkerHeld' /\ Unlinking'
    BY <1>23 DEF Exists, Goto, At, Process, Gone, Forget, Return, files, reads, client, Clearing, Unlocking, Loading
  <2>2. Ended' /\ LockAccounted' /\ StateAccounted' /\ UnlockQuiet' /\ UnlockSeen'
    BY <1>23 DEF Exists, Goto, At, Process, Gone, Forget, Return, files, reads, client, Clearing, Unlocking, Loading
  <2> QED
    BY <2>1, <2>2
<1>24. ASSUME NEW d \in Daemon, Compare(d) PROVE Inv'
  BY <1>24 DEF Compare, Goto, At, Process, Gone, Forget, Return, files, reads, client, Clearing, Unlocking, Loading
<1>25. ASSUME NEW d \in Daemon, Remove(d) PROVE Inv'
  BY <1>25 DEF Remove, Goto, At, Process, Gone, Forget, Return, client, Clearing, Unlocking, Loading
<1>26. CASE Exists(Operator)
  BY <1>26 DEF Exists, Goto, At, Process, Gone, Forget, Return, files, reads, client, Clearing, Unlocking, Loading
<1>27. CASE Compare(Operator)
  BY <1>27 DEF Compare, Goto, At, Process, Gone, Forget, Return, files, reads, client, Clearing, Unlocking, Loading
<1>28. CASE Remove(Operator)
  BY <1>28 DEF Remove, Goto, At, Process, Gone, Forget, Return, client, Clearing, Unlocking, Loading
<1>29. CASE Unlock
  BY <1>29 DEF Unlock, Goto, At, Process, files, client, Clearing, Unlocking, Loading, OperatorGoes
<1>30. CASE ReadLock
  BY <1>30 DEF ReadLock, Goto, At, Process, Forget, files, client, Clearing, Unlocking, Loading, OperatorGoes, OperatorStops
<1>31. CASE CheckState
  BY <1>31 DEF CheckState, Goto, At, Process, Forget, files, client, Clearing, Unlocking, Loading, UnlessRunning, OperatorGoes, OperatorStops, Running, Alive
<1>32. CASE ProbeHealth
  BY <1>32 DEF ProbeHealth, Goto, At, Process, Forget, files, client, Clearing, Unlocking, Loading, OperatorGoes, OperatorStops
<1>33. CASE CheckLock
  <2>1. UnlockSeen'
    <3>1. CASE OperatorStops
      BY <3>1 DEF OperatorStops, Goto, Process
    <3>2. CASE OperatorGoes("unlinkLock") /\ FALSE \in Running(lockSeen)
      <4>1. ~Alive(lockSeen)
        BY <3>2 DEF Running
      <4>2. \A e \in Daemon : held[e] => Alive(e) /\ lockSeen = e
        BY <1>33 DEF CheckLock, At, Alive
      <4> QED
        BY <3>2, <4>1, <4>2 DEF OperatorGoes, Goto, client, Process
    <3> QED
      BY <1>33, <3>1, <3>2 DEF CheckLock, UnlessRunning, Running
  <2>2. Returns' /\ Fresh' /\ HeldOnDisk' /\ Writing' /\ WorkerHeld' /\ Unlinking' /\ Ended' /\ LockAccounted' /\ StateAccounted' /\ UnlockQuiet'
    BY <1>33 DEF CheckLock, Goto, At, Process, Forget, files, client, Clearing, Unlocking, Loading, UnlessRunning, OperatorGoes, OperatorStops, Running, Alive
  <2> QED
    BY <2>1, <2>2
<1>34. CASE UnlinkLock
  BY <1>34 DEF UnlinkLock, Goto, At, Process, Forget, client, Clearing, Unlocking, Loading
<1>35. CASE Sweep
  BY <1>35 DEF Sweep, Goto, At, Process, files, client, Clearing, Unlocking, Loading, OperatorGoes
<1>36. CASE ProbeSweep
  BY <1>36 DEF ProbeSweep, Goto, At, Process, Forget, Clear, files, client, Clearing, Unlocking, Loading, OperatorStops, Running, Alive
<1>37. CASE UNCHANGED lifecycleVars
  BY <1>37 DEF lifecycleVars, Loading
<1> QED
  BY <1>1, <1>2, <1>3, <1>4, <1>5, <1>6, <1>7, <1>8, <1>9, <1>10, <1>11, <1>12, <1>13, <1>14, <1>15, <1>16, <1>17, <1>18, <1>19, <1>20, <1>21, <1>22, <1>23, <1>24, <1>25, <1>26, <1>27, <1>28, <1>29, <1>30, <1>31, <1>32, <1>33, <1>34, <1>35, <1>36, <1>37 DEF LifecycleNext, Load, Acquire, Serve, End, ClearStep, Environment, Command

\* What daemons hold in memory, what is on the disk and where the operator is fit together, always.
THEOREM Invariance == LifecycleSpec => []Inv
  BY InitInv, InvStep, PTL DEF LifecycleSpec

-----------------------------------------------------------------------------
\* A worker with the store open has its daemon's lock on the disk, for any number of daemons that
\* claim, fail, exit or are killed, and whatever the operator unlocks while none starts.
THEOREM OwnerHoldsLockHolds == LifecycleSpec => []OwnerHoldsLock
<1> USE DaemonAssumption
<1>1. Inv => OwnerHoldsLock
  BY DEF Inv, HeldOnDisk, WorkerHeld, OwnerHoldsLock
<1> QED
  BY <1>1, Invariance, PTL

\* So the store has one writer.
OneWriter == \A d, e \in Daemon : worker[d] = "open" /\ worker[e] = "open" => d = e

\* Two workers never have the store open together.
COROLLARY OneWriterHolds == LifecycleSpec => []OneWriter
<1>1. OwnerHoldsLock => OneWriter
  BY DEF OwnerHoldsLock, OneWriter
<1> QED
  BY <1>1, OwnerHoldsLockHolds, PTL

\* A daemon that was neither killed nor failed by a call leaves no lock when it ends, and no claim
\* unless its configuration could not be read.
THEOREM ExitLeavesNothingHolds == LifecycleSpec => []ExitLeavesNothing
<1> USE DaemonAssumption
<1>1. Inv => ExitLeavesNothing
  BY DEF Inv, HeldOnDisk, Writing, LockAccounted, StateAccounted, ExitLeavesNothing, At
<1> QED
  BY <1>1, Invariance, PTL

\* What a step does to the lock that is there: its own daemon unlinks it, or the operator.
ForeignLockKept ==
  [][\A d \in Daemon : lock = d /\ lock' # d => At(d, "unlink") \/ At(Operator, "unlinkLock")]_lifecycleVars

\* No daemon removes or overwrites the lock of another, dead or alive (ledger-lock.js:3-7).
THEOREM ForeignLockKeptHolds == LifecycleSpec => ForeignLockKept
<1> USE DaemonAssumption
<1>1. ASSUME Inv, [LifecycleNext]_lifecycleVars
      PROVE  [\A d \in Daemon : lock = d /\ lock' # d => At(d, "unlink") \/ At(Operator, "unlinkLock")]_lifecycleVars
  <2> SUFFICES ASSUME NEW d \in Daemon, lock = d, lock' # d PROVE At(d, "unlink") \/ At(Operator, "unlinkLock")
    OBVIOUS
  <2>1. lock' = lock \/ (\E e \in Daemon : CreateLock(e) \/ Unlink(e)) \/ UnlinkLock
    BY <1>1 DEF LifecycleNext, lifecycleVars, files, Load, Acquire, Serve, End, ClearStep, Environment, Command,
          Start, ReadClaim, ProbeClaim, Publish, WriteLock, WriteLockFails, ReadConfig, OpenStore, VerifyLock,
          WorkerExits, Listen, AddressInUse, ListenFails, Shutdown, Close, StopWorker, Verify, Released, ClearOwn,
          Kill, Exists, Compare, Remove, Unlock, ReadLock, CheckState, ProbeHealth, CheckLock, Sweep, ProbeSweep,
          UnlessRunning, OperatorGoes, OperatorStops
  <2>2. ASSUME NEW e \in Daemon, Unlink(e) PROVE At(d, "unlink")
    <3>1. At(e, "unlink") /\ held[e]
      BY <1>1, <2>2 DEF Inv, Unlinking, Unlink, At
    <3> QED
      BY <1>1, <3>1 DEF Inv, HeldOnDisk
  <2>3. ASSUME NEW e \in Daemon, CreateLock(e) PROVE lock' = lock
    BY <2>3 DEF CreateLock
  <2> QED
    BY <2>1, <2>2, <2>3 DEF UnlinkLock
<1> QED
  BY <1>1, Invariance, PTL DEF LifecycleSpec, ForeignLockKept

-----------------------------------------------------------------------------
(***************************************************************************)
(* Proofs about BrokerHub for any operations, nodes, broadcasts and bounds *)
(* on faults, crashes and connections.                                     *)
(*                                                                         *)
(* The inductive invariant follows one operation from its reservation to   *)
(* its injection.  No node has anything to do with an operation that has   *)
(* no record (NoRecord) or that waits to be dispatched (Sending); what is  *)
(* on a wire is there once and was never handled (Wires, WiresDistinct);   *)
(* what a node handles is no longer on a wire (Handled); a request that    *)
(* has not been answered has not injected (Requests); and "accepted" and   *)
(* "failed", in whichever record or message they stand or are read, are    *)
(* true and stay true but for the answers a node misreads (Accepted,       *)
(* Failed).                                                                *)
(***************************************************************************)

USE TargetAssumption, BroadcastAssumption, SshAssumption, BoundsAssumption

\* No node or daemon has left a trace of the operation.
Untold(o) ==
  /\ request[o] = None /\ inbound[o] = None /\ injected[o] = 0
  /\ posted[o] = None /\ result[o] = None

OnWire(o, n) == \E i \in 1..Len(wire[n]) : wire[n][i] = o

Handling(n) == node[n].at \in {"local", "posting"}

\* Untold, and on no way to be told.
Untouched(o) ==
  /\ Untold(o)
  /\ \A n \in Nodes : ~OnWire(o, n)
  /\ \A n \in Nodes : Handling(n) => node[n].op # o

\* An operation without a record is untouched.
NoRecord == \A o \in Ops : state[o] \in {None, "torn"} => Untouched(o)

\* What waits for its dispatch is untouched, and reserved unless that waits too.
Sending ==
  \A i \in 1..Len(toSend) :
    /\ Untouched(toSend[i])
    /\ state[toSend[i]] \in {None, "pending"}
    /\ state[toSend[i]] = None => \E j \in 1..Len(toReserve) : toReserve[j] = toSend[i]
SendingDistinct == \A i, j \in 1..Len(toSend) : toSend[i] = toSend[j] => i = j

\* Before the broadcast, its operations have no record and none is reserved.
GroupFirst ==
  group = None =>
    \A i \in 1..Len(broadcast) :
      /\ state[broadcast[i]] = None
      /\ \A j \in 1..Len(toReserve) : toReserve[j] # broadcast[i]

\* A frame is on the wire of its target, once, and nobody has handled it.
Wires ==
  \A n \in Nodes : \A i \in 1..Len(wire[n]) :
    /\ Target[wire[n][i]] = n /\ Untold(wire[n][i])
    /\ state[wire[n][i]] \in {"pending", "outcome_unknown"}
WiresDistinct ==
  \A n \in Nodes : \A i, j \in 1..Len(wire[n]) : wire[n][i] = wire[n][j] => i = j

\* What a node handles is its own and no longer on its wire.
Handled ==
  \A n \in Nodes : Handling(n) =>
    /\ Target[node[n].op] = n /\ ~OnWire(node[n].op, n)
    /\ state[node[n].op] \notin {None, "torn"}

\* A request that is not answered has not injected, and nothing injects twice.
Requests ==
  \A o \in Ops :
    /\ injected[o] \in {0, 1}
    /\ request[o] = "sent" => injected[o] = 0 /\ inbound[o] = None
    /\ request[o] = "running" => injected[o] = 0 /\ inbound[o] = "pending"

\* Some record or message about o says so, or is an answer that a node reads so.
Says(o, outcome) ==
  outcome \in {state[o], result[o], posted[o], Classified(request[o]), Classified(inbound[o])}

Accepted == \A o \in Ops : Says(o, "accepted") => injected[o] = 1
Failed ==
  \A o \in Ops : Says(o, "failed") =>
    /\ injected[o] = 0 \/ Misread(o)
    /\ request[o] \notin {"sent", "running"}

IInv ==
  /\ TypeOK /\ NoRecord /\ Sending /\ SendingDistinct /\ GroupFirst
  /\ Wires /\ WiresDistinct /\ Handled /\ Requests /\ Accepted /\ Failed

-----------------------------------------------------------------------------
(* Sequences                                                               *)

\* A request in hand and a wire lose their first element ...
LEMMA TailFacts ==
  ASSUME NEW S, NEW s \in Seq(S), s # <<>>
  PROVE  /\ Head(s) \in S /\ Head(s) = s[1] /\ 1 \in 1..Len(s)
         /\ Tail(s) \in Seq(S)
         /\ \A i \in 1..Len(Tail(s)) : i + 1 \in 1..Len(s) /\ Tail(s)[i] = s[i + 1]
         /\ \A i \in 1..Len(s) : i # 1 => i - 1 \in 1..Len(Tail(s)) /\ Tail(s)[i - 1] = s[i]
  OBVIOUS

\* ... and a wire gains a last one.
LEMMA AppendFacts ==
  ASSUME NEW S, NEW s \in Seq(S), NEW x \in S
  PROVE  /\ Append(s, x) \in Seq(S)
         /\ \A i \in 1..Len(Append(s, x)) :
              \/ i \in 1..Len(s) /\ Append(s, x)[i] = s[i]
              \/ i = Len(s) + 1 /\ Append(s, x)[i] = x
  OBVIOUS

(* Writes of records                                                       *)

\* A write that fails stays within the bound on faults.
LEMMA MeetFacts ==
  ASSUME NEW save, faults \in 0..MaxFaults, Meet(save)
  PROVE  faults' \in 0..MaxFaults
  BY DEF Meet

\* What the first write of a record leaves behind.
LEMMA FirstWrittenFacts ==
  ASSUME NEW save \in FirstSaves
  PROVE  /\ FirstWritten(save) \in {None, "torn", "pending"}
         /\ save = "done" => FirstWritten(save) = "pending"
  BY DEF FirstWritten, FirstSaves, Saves

\* The record of a broadcast is written while its operations have none (GroupFirst).
LEMMA BroadcastAllStep ==
  ASSUME IInv, BroadcastAll
  PROVE  IInv'
<1>0. /\ UNCHANGED <<broadcast, hub, state, result, active, timers, streams, wire, node, posted,
                   request, inbound, injected, crashes, connects>>
      /\ hub /\ toReserve = <<>> /\ toSend = <<>> /\ group = None
      /\ toSend' = toReserve'
      /\ toReserve' = <<>> \/ (toReserve' = broadcast /\ group' # None)
      /\ group' \in {None, "torn", "pending"} /\ faults' \in 0..MaxFaults
  <2>1. PICK save \in FirstSaves :
          /\ Meet(save)
          /\ group' = FirstWritten(save)
          /\ toReserve' = IF save = "done" THEN broadcast ELSE <<>>
          /\ toSend' = IF save = "done" THEN broadcast ELSE <<>>
    BY DEF BroadcastAll
  <2>2. faults' \in 0..MaxFaults
    BY <2>1, MeetFacts DEF IInv, TypeOK
  <2>3. group' \in {None, "torn", "pending"} /\ (save = "done" => group' # None)
    BY <2>1, FirstWrittenFacts DEF None
  <2>4. hub /\ toReserve = <<>> /\ toSend = <<>> /\ group = None
    BY Zenon DEF BroadcastAll, Idle
  <2>5. UNCHANGED <<broadcast, hub, state, result, active, timers, streams, wire, node, posted,
                    request, inbound, injected, crashes, connects>>
    BY DEF BroadcastAll, streamVars, daemonVars
  <2>6. /\ toSend' = toReserve'
        /\ toReserve' = <<>> \/ (toReserve' = broadcast /\ group' # None)
    BY <2>1, <2>3
  <2> QED
    BY <2>2, <2>3, <2>4, <2>5, <2>6
<1> USE DEF IInv
<1>1. TypeOK'
  BY <1>0 DEF TypeOK
<1>2. NoRecord'
  BY <1>0 DEF NoRecord, Untouched, Untold, OnWire, Handling
<1>3. Sending'
  <2>1. ASSUME NEW i \in 1..Len(toSend')
        PROVE  state[toSend'[i]] = None /\ toSend'[i] \in Ops
    BY <1>0 DEF GroupFirst, TypeOK
  <2> QED
    BY <1>0, <2>1 DEF Sending, NoRecord, Untouched, Untold, OnWire, Handling
<1>4. SendingDistinct'
  <2>1. broadcast \in Broadcasts
    BY DEF TypeOK
  <2> QED
    BY <1>0, <2>1 DEF SendingDistinct
<1>5. GroupFirst'
  BY <1>0 DEF GroupFirst, None
<1>6. Wires'
  BY <1>0 DEF Wires, Untold
<1>7. WiresDistinct'
  BY <1>0 DEF WiresDistinct
<1>8. Handled'
  BY <1>0 DEF Handled, Handling, OnWire
<1>9. Requests'
  BY <1>0 DEF Requests
<1>10. Accepted'
  BY <1>0 DEF Accepted, Says
<1>11. Failed'
  BY <1>0 DEF Failed, Misread, Says
<1> QED
  BY <1>1, <1>2, <1>3, <1>4, <1>5, <1>6, <1>7, <1>8, <1>9, <1>10, <1>11 DEF IInv

\* An operation gets its record: until then it is untouched (NoRecord), so it stays so.
LEMMA ReserveStep ==
  ASSUME IInv, Reserve
  PROVE  IInv'
<1> DEFINE h == Head(toReserve)
<1>0. /\ UNCHANGED <<broadcast, hub, result, group, active, timers, streams, wire, node, posted,
                   request, inbound, injected, crashes, connects>>
      /\ hub /\ toReserve # <<>> /\ state[h] = None
      /\ \E new \in {None, "torn", "pending"} :
           /\ state' = [state EXCEPT ![h] = new]
           /\ \/ toReserve' = <<>> /\ toSend' = <<>>
              \/ toReserve' = Tail(toReserve) /\ toSend' = toSend /\ new = "pending"
      /\ faults' \in 0..MaxFaults
  <2>1. PICK save \in FirstSaves :
          /\ Meet(save)
          /\ state' = [state EXCEPT ![h] = FirstWritten(save)]
          /\ toReserve' = IF save = "done" THEN Tail(toReserve) ELSE <<>>
          /\ toSend' = IF save = "done" THEN toSend ELSE <<>>
    BY DEF Reserve
  <2>2. faults' \in 0..MaxFaults
    BY <2>1, MeetFacts DEF IInv, TypeOK
  <2>3. PICK new \in {None, "torn", "pending"} :
          new = FirstWritten(save) /\ (save = "done" => new = "pending")
    BY FirstWrittenFacts
  <2>4. /\ state' = [state EXCEPT ![h] = new]
        /\ \/ toReserve' = <<>> /\ toSend' = <<>>
           \/ toReserve' = Tail(toReserve) /\ toSend' = toSend /\ new = "pending"
    BY <2>1, <2>3
  <2> QED
    BY <2>2, <2>4 DEF Reserve, streamVars, daemonVars
<1>a. /\ h \in Ops /\ toReserve \in Seq(Ops) /\ toSend \in Seq(Ops)
      /\ state \in [Ops -> States] /\ wire \in [Nodes -> Seq(Ops)]
      /\ node \in [Nodes -> [at : Places, op : Ops \cup {None}]]
      /\ broadcast \in Seq(Ops)
  BY <1>0, TailFacts DEF IInv, TypeOK
<1>b. PICK new \in {None, "torn", "pending"} :
        /\ state' = [state EXCEPT ![h] = new]
        /\ \/ toReserve' = <<>> /\ toSend' = <<>>
           \/ toReserve' = Tail(toReserve) /\ toSend' = toSend /\ new = "pending"
  BY <1>0
<1>c. /\ h = toReserve[1]
      /\ Tail(toReserve) \in Seq(Ops)
      /\ \A i \in 1..Len(Tail(toReserve)) :
           i + 1 \in 1..Len(toReserve) /\ Tail(toReserve)[i] = toReserve[i + 1]
      /\ \A i \in 1..Len(toReserve) : i # 1 =>
           i - 1 \in 1..Len(Tail(toReserve)) /\ Tail(toReserve)[i - 1] = toReserve[i]
      /\ 1 \in 1..Len(toReserve)
  BY <1>0, <1>a, TailFacts
<1>d. Untouched(h)
  BY <1>0, <1>a DEF IInv, NoRecord
<1> HIDE DEF h
<1> USE DEF IInv
<1>1. TypeOK'
  <2>1. /\ state' \in [Ops -> States] /\ toReserve' \in Seq(Ops) /\ toSend' \in Seq(Ops)
        /\ \A o \in active : state'[o] \notin {None, "torn"}
    <3>1. state' \in [Ops -> States]
      BY <1>a, <1>b DEF States
    <3>2. toReserve' \in Seq(Ops) /\ toSend' \in Seq(Ops)
      <4>1. <<>> \in Seq(Ops)
        OBVIOUS
      <4> QED
        BY <4>1, <1>a, <1>b, <1>c
    <3>3. ASSUME NEW o \in active PROVE state'[o] \notin {None, "torn"}
      BY <1>0, <1>a, <1>b, <3>3 DEF TypeOK
    <3> QED
      BY <3>1, <3>2, <3>3
  <2> QED
    BY <1>0, <2>1 DEF TypeOK
<1>2. NoRecord'
  <2>1. ASSUME NEW o \in Ops, state'[o] \in {None, "torn"}  PROVE Untouched(o)
    BY <1>0, <1>a, <1>b, <1>d, <2>1 DEF NoRecord
  <2> QED
    BY <1>0, <2>1 DEF NoRecord, Untouched, Untold, OnWire, Handling
<1>3. Sending'
  <2>1. CASE toSend' = <<>>
    BY <2>1 DEF Sending
  <2>2. CASE toReserve' = Tail(toReserve) /\ toSend' = toSend /\ new = "pending"
    <3> SUFFICES ASSUME NEW i \in 1..Len(toSend)
        PROVE  /\ Untouched(toSend[i])'
               /\ state'[toSend[i]] \in {None, "pending"}
               /\ state'[toSend[i]] = None => \E j \in 1..Len(toReserve') : toReserve'[j] = toSend[i]
      BY <2>2 DEF Sending
    <3>1. Untouched(toSend[i])'
      BY <1>0, <2>2 DEF Sending, Untouched, Untold, OnWire, Handling
    <3>2. state'[toSend[i]] \in {None, "pending"}
      BY <1>a, <1>b, <2>2 DEF Sending
    <3>3. ASSUME state'[toSend[i]] = None
          PROVE  \E j \in 1..Len(toReserve') : toReserve'[j] = toSend[i]
      <4>1. state[toSend[i]] = None /\ toSend[i] # h
        BY <1>a, <1>b, <2>2, <3>3 DEF Sending, None
      <4>2. PICK j \in 1..Len(toReserve) : toReserve[j] = toSend[i]
        BY <4>1 DEF Sending
      <4> QED
        BY <1>c, <2>2, <4>1, <4>2
    <3> QED
      BY <3>1, <3>2, <3>3
  <2> QED
    BY <1>b, <2>1, <2>2
<1>4. SendingDistinct'
  BY <1>b DEF SendingDistinct
<1>5. GroupFirst'
  <2> SUFFICES ASSUME group = None, NEW i \in 1..Len(broadcast)
      PROVE  /\ state'[broadcast[i]] = None
             /\ \A j \in 1..Len(toReserve') : toReserve'[j] # broadcast[i]
    BY <1>0 DEF GroupFirst
  <2>1. state[broadcast[i]] = None /\ \A j \in 1..Len(toReserve) : toReserve[j] # broadcast[i]
    BY DEF GroupFirst
  <2>2. broadcast[i] \in Ops /\ broadcast[i] # h
    BY <1>a, <1>c, <2>1
  <2>3. state'[broadcast[i]] = None
    BY <1>a, <1>b, <2>1, <2>2
  <2>4. ASSUME NEW j \in 1..Len(toReserve')  PROVE toReserve'[j] # broadcast[i]
    <3>1. CASE toReserve' = <<>>
      BY <2>4, <3>1
    <3>2. CASE toReserve' = Tail(toReserve)
      <4>1. PICK k \in 1..Len(toReserve) : toReserve'[j] = toReserve[k]
        BY <1>c, <2>4, <3>2
      <4> QED
        BY <2>1, <4>1
    <3> QED
      BY <1>b, <3>1, <3>2
  <2> QED
    BY <2>3, <2>4
<1>6. Wires'
  <2>1. \A n \in Nodes : \A i \in 1..Len(wire[n]) : wire[n][i] # h /\ wire[n][i] \in Ops
    BY <1>a, <1>d DEF Untouched, OnWire
  <2>2. \A o \in Ops : o # h => state'[o] = state[o]
    BY <1>a, <1>b
  <2>3. \A o : Untold(o)' <=> Untold(o)
    BY <1>0 DEF Untold
  <2> QED
    BY <1>0, <2>1, <2>2, <2>3 DEF Wires
<1>7. WiresDistinct'
  BY <1>0 DEF WiresDistinct
<1>8. Handled'
  <2>1. \A n \in Nodes : Handling(n) => node[n].op # h /\ node[n].op \in Ops
    BY <1>a, <1>d DEF Untouched, Handling, TypeOK
  <2> QED
    BY <1>0, <1>a, <1>b, <2>1 DEF Handled, Handling, OnWire
<1>9. Requests'
  BY <1>0 DEF Requests
<1>10. Accepted'
  BY <1>0, <1>a, <1>b DEF Accepted, Says, None
<1>11. Failed'
  BY <1>0, <1>a, <1>b DEF Failed, Misread, Says, None
<1> QED
  BY <1>1, <1>2, <1>3, <1>4, <1>5, <1>6, <1>7, <1>8, <1>9, <1>10, <1>11 DEF IInv

\* A frame is written, or refused as failed, of an operation that was untouched.
LEMMA DispatchStep ==
  ASSUME IInv, Dispatch
  PROVE  IInv'
<1>0. toReserve = <<>> /\ toSend # <<>> /\ hub
  BY Zenon DEF Dispatch
<1>s. toSend \in Seq(Ops)
  BY DEF IInv, TypeOK
<1>p. PICK h \in Ops : h = Head(toSend)
  BY <1>0, <1>s, TailFacts
<1> DEFINE n == Target[h]
<1>a. /\ h \in Ops /\ n \in Nodes /\ toReserve = <<>> /\ hub
      /\ toSend \in Seq(Ops) /\ h = toSend[1] /\ 1 \in 1..Len(toSend)
      /\ Tail(toSend) \in Seq(Ops)
      /\ \A i \in 1..Len(Tail(toSend)) :
           i + 1 \in 1..Len(toSend) /\ Tail(toSend)[i] = toSend[i + 1]
  BY <1>0, <1>s, <1>p, TailFacts
<1>b. /\ state \in [Ops -> States] /\ wire \in [Nodes -> Seq(Ops)]
      /\ node \in [Nodes -> [at : Places, op : Ops \cup {None}]]
      /\ active \subseteq Ops /\ timers \subseteq Ops /\ faults \in 0..MaxFaults
  BY DEF IInv, TypeOK
<1>c. Untouched(h) /\ state[h] = "pending"
  BY <1>a DEF IInv, Sending
<1>d. UNCHANGED <<broadcast, hub, result, group, toReserve, streams, node, posted,
                  request, inbound, injected, crashes, connects>>
  BY DEF Dispatch, daemonVars
<1> DEFINE NewState(s) == state' = [state EXCEPT ![h] = s]
           NewWire == wire' = [wire EXCEPT ![n] = Append(@, h)]
<1>e. /\ \/ \E s \in {"pending", "outcome_unknown"} :
              NewState(s) /\ (wire' = wire \/ NewWire)
         \/ \E s \in {"pending", "failed"} : NewState(s) /\ wire' = wire
      /\ active' \in {active, active \cup {h}} /\ timers' \in {timers, timers \cup {h}}
      /\ toSend' = <<>> \/ toSend' = Tail(toSend)
      /\ faults' \in 0..MaxFaults
  <2>1. CASE Refuse(h)
    <3>1. PICK save \in Saves :
            /\ Meet(save) /\ NewState(Rewritten(save, state[h], "failed"))
            /\ toSend' = IF save = "done" THEN Tail(toSend) ELSE <<>>
      BY <1>b, <2>1 DEF Refuse
    <3>2. Rewritten(save, state[h], "failed") \in {"pending", "failed"}
      BY <1>c DEF Rewritten
    <3> QED
      BY <1>b, <2>1, <3>1, <3>2, MeetFacts DEF Refuse
  <2>2. CASE Send(h)
    BY <1>b, <1>c, <2>2 DEF Send, FrameWritten, Connected
  <2>3. CASE SendThrows(h)
    <3>1. PICK save \in Saves :
            /\ faults' = faults + (IF save = "done" THEN 1 ELSE 2) /\ faults' <= MaxFaults
            /\ NewState(Rewritten(save, state[h], "outcome_unknown"))
            /\ active' = IF save = "done" THEN active ELSE active \cup {h}
            /\ toSend' = IF save = "done" THEN Tail(toSend) ELSE <<>>
      BY <1>b, <2>3 DEF SendThrows
    <3>2. Rewritten(save, state[h], "outcome_unknown") \in {"pending", "outcome_unknown"}
      BY <1>c DEF Rewritten
    <3>3. faults' \in 0..MaxFaults
      BY <1>b, <3>1
    <3> QED
      BY <2>3, <3>1, <3>2, <3>3 DEF SendThrows, FrameWritten
  <2> QED
    BY <1>p, <2>1, <2>2, <2>3 DEF Dispatch
<1>f. PICK s \in {"pending", "failed", "outcome_unknown"} :
        NewState(s) /\ (wire' = wire \/ (NewWire /\ s # "failed"))
  BY <1>e
<1>g. \A m \in Nodes : \A i \in 1..Len(wire'[m]) :
        \/ i \in 1..Len(wire[m]) /\ wire'[m][i] = wire[m][i] /\ wire[m][i] # h
        \/ m = n /\ i = Len(wire[m]) + 1 /\ wire'[m][i] = h /\ s # "failed"
  <2>1. ASSUME NEW m \in Nodes, NEW i \in 1..Len(wire[m])  PROVE wire[m][i] # h
    BY <1>c, <2>1 DEF Untouched, OnWire
  <2>2. CASE wire' = wire
    BY <2>1, <2>2
  <2>3. CASE NewWire /\ s # "failed"
    BY <1>a, <1>b, <2>1, <2>3, AppendFacts
  <2> QED
    BY <1>f, <2>2, <2>3
<1>h. wire' \in [Nodes -> Seq(Ops)]
  <2>1. Append(wire[n], h) \in Seq(Ops)
    BY <1>a, <1>b, AppendFacts
  <2>2. CASE wire' = wire
    BY <1>b, <2>2
  <2>3. CASE NewWire
    BY <1>a, <1>b, <2>1, <2>3
  <2> QED
    BY <1>f, <2>2, <2>3
<1>i. state'[h] = s /\ \A o \in Ops : o # h => state'[o] = state[o]
  BY <1>a, <1>b, <1>f
<1> HIDE DEF n, NewState, NewWire
<1> USE DEF IInv
<1>1. TypeOK'
  <2>1. state' \in [Ops -> States] /\ toSend' \in Seq(Ops)
    <3>1. state' \in [Ops -> States]
      BY <1>b, <1>f DEF NewState, States, Results
    <3>2. <<>> \in Seq(Ops)
      OBVIOUS
    <3> QED
      BY <1>a, <1>e, <3>1, <3>2
  <2>2. active' \subseteq Ops /\ timers' \subseteq Ops
    BY <1>a, <1>b, <1>e
  <2>3. ASSUME NEW o \in active'  PROVE state'[o] \notin {None, "torn"}
    BY <1>a, <1>b, <1>e, <1>f, <1>i, <2>3 DEF TypeOK, None
  <2> QED
    BY <1>a, <1>d, <1>e, <1>h, <2>1, <2>2, <2>3 DEF TypeOK
<1>2. NoRecord'
  <2> SUFFICES ASSUME NEW o \in Ops, state'[o] \in {None, "torn"}
      PROVE  Untouched(o)'
    BY DEF NoRecord
  <2>1. o # h /\ Untouched(o)
    BY <1>f, <1>i DEF NoRecord, None
  <2>2. Untold(o)'
    BY <1>d, <2>1 DEF Untouched, Untold
  <2>3. ASSUME NEW m \in Nodes  PROVE ~OnWire(o, m)'
    BY <1>g, <2>1 DEF Untouched, OnWire
  <2>4. ASSUME NEW m \in Nodes  PROVE Handling(m)' => node'[m].op # o
    BY <1>d, <2>1 DEF Untouched, Handling
  <2> QED
    BY <2>2, <2>3, <2>4 DEF Untouched
<1>3. Sending'
  <2> SUFFICES ASSUME NEW i \in 1..Len(toSend'), toSend' = Tail(toSend)
      PROVE  \E o \in Ops : o = toSend'[i] /\ Untouched(o)' /\ state'[o] = "pending"
    BY <1>e DEF Sending, None
  <2>1. PICK o \in Ops : o = toSend'[i] /\ o # h /\ Untouched(o) /\ state[o] = "pending"
    <3>1. /\ i + 1 \in 1..Len(toSend) /\ toSend'[i] = toSend[i + 1] /\ i + 1 # 1
      BY <1>a
    <3>2. toSend[i + 1] \in Ops /\ toSend[i + 1] # h
      BY <1>a, <3>1 DEF SendingDistinct
    <3>3. Untouched(toSend[i + 1]) /\ state[toSend[i + 1]] = "pending"
      BY <1>a, <3>1 DEF Sending
    <3> QED
      BY <3>1, <3>2, <3>3
  <2>2. Untold(o)'
    BY <1>d, <2>1 DEF Untouched, Untold
  <2>3. ASSUME NEW m \in Nodes  PROVE ~OnWire(o, m)'
    BY <1>g, <2>1 DEF Untouched, OnWire
  <2>4. ASSUME NEW m \in Nodes  PROVE Handling(m)' => node'[m].op # o
    BY <1>d, <2>1 DEF Untouched, Handling
  <2>5. Untouched(o)'
    BY <2>2, <2>3, <2>4 DEF Untouched
  <2> QED
    BY <1>i, <2>1, <2>5
<1>4. SendingDistinct'
  <2>1. CASE toSend' = <<>>
    BY <2>1 DEF SendingDistinct
  <2>2. CASE toSend' = Tail(toSend)
    <3> SUFFICES ASSUME NEW i \in 1..Len(toSend'), NEW j \in 1..Len(toSend'),
                        toSend'[i] = toSend'[j]
        PROVE  i = j
      BY DEF SendingDistinct
    <3>1. /\ i + 1 \in 1..Len(toSend) /\ j + 1 \in 1..Len(toSend)
          /\ toSend[i + 1] = toSend[j + 1]
      BY <1>a, <2>2
    <3>2. i + 1 = j + 1
      BY <3>1 DEF SendingDistinct
    <3> QED
      BY <3>2
  <2> QED
    BY <1>e, <2>1, <2>2
<1>5. GroupFirst'
  <2> SUFFICES ASSUME group = None, NEW i \in 1..Len(broadcast)
      PROVE  state'[broadcast[i]] = None
    BY <1>a, <1>d DEF GroupFirst
  <2>1. state[broadcast[i]] = None /\ broadcast[i] \in Ops
    BY DEF GroupFirst, TypeOK
  <2> QED
    BY <1>c, <1>i, <2>1 DEF None
<1>6. Wires'
  <2> SUFFICES ASSUME NEW m \in Nodes, NEW i \in 1..Len(wire'[m])
      PROVE  \E o \in Ops :
               /\ o = wire'[m][i] /\ Target[o] = m /\ Untold(o)'
               /\ state'[o] \in {"pending", "outcome_unknown"}
    BY DEF Wires, Untold
  <2>1. CASE i \in 1..Len(wire[m]) /\ wire'[m][i] = wire[m][i] /\ wire[m][i] # h
    <3>1. wire[m][i] \in Ops
      BY <1>b, <2>1
    <3> QED
      BY <1>d, <1>i, <2>1, <3>1 DEF Wires, Untold
  <2>2. CASE m = n /\ wire'[m][i] = h /\ s # "failed"
    <3>1. Target[h] = m
      BY <2>2 DEF n
    <3>2. Untold(h)'
      BY <1>c, <1>d DEF Untouched, Untold
    <3>3. state'[h] \in {"pending", "outcome_unknown"}
      BY <1>i, <2>2
    <3> QED
      BY <1>a, <2>2, <3>1, <3>2, <3>3
  <2> QED
    BY <1>g, <2>1, <2>2
<1>7. WiresDistinct'
  BY <1>g DEF WiresDistinct
<1>8. Handled'
  <2> SUFFICES ASSUME NEW m \in Nodes, Handling(m)
      PROVE  /\ Target[node[m].op] = m /\ ~OnWire(node[m].op, m)'
             /\ state'[node[m].op] \notin {None, "torn"}
    BY <1>d DEF Handled, Handling, OnWire
  <2>1. node[m].op # h /\ node[m].op \in Ops
    BY <1>c DEF Untouched, Handling, TypeOK
  <2>2. /\ Target[node[m].op] = m /\ ~OnWire(node[m].op, m)
        /\ state[node[m].op] \notin {None, "torn"}
    BY DEF Handled
  <2>3. ~OnWire(node[m].op, m)'
    BY <1>d, <1>g, <2>1, <2>2 DEF OnWire
  <2> QED
    BY <1>i, <2>1, <2>2, <2>3
<1>9. Requests'
  BY <1>d DEF Requests
<1>10. Accepted'
  BY <1>d, <1>f, <1>i DEF Accepted, Says
<1>11. Failed'
  <2>1. injected[h] = 0 /\ request[h] = None
    BY <1>c DEF Untouched, Untold
  <2> QED
    BY <1>d, <1>i, <2>1 DEF Failed, Misread, Says, None
<1> QED
  BY <1>1, <1>2, <1>3, <1>4, <1>5, <1>6, <1>7, <1>8, <1>9, <1>10, <1>11 DEF IInv

\* A crash of the hub loses what is in memory and in flight, never a record.
LEMMA CrashStep ==
  ASSUME IInv, Crash
  PROVE  IInv'
<1>0. UNCHANGED <<broadcast, state, result, group, wire, node, request, inbound,
                  injected, faults, connects>>
  BY DEF Crash, recordVars, daemonVars
<1>a. /\ hub' = FALSE /\ crashes < MaxCrashes /\ crashes' = crashes + 1
      /\ active' = {} /\ timers' = {} /\ toReserve' = <<>> /\ toSend' = <<>>
      /\ streams' = {} /\ posted' = [o \in Ops |-> None]
  BY DEF Crash
<1> USE DEF IInv
<1>1. TypeOK'
  <2>1. <<>> \in Seq(Ops)
    OBVIOUS
  <2>2. crashes' \in 0..MaxCrashes
    BY <1>a DEF TypeOK
  <2> QED
    BY <1>0, <1>a, <2>1, <2>2 DEF TypeOK
<1>2. NoRecord'
  BY <1>0, <1>a DEF NoRecord, Untouched, Untold, OnWire, Handling
<1>3. Sending'
  BY <1>0, <1>a DEF Sending
<1>4. SendingDistinct'
  BY <1>0, <1>a DEF SendingDistinct
<1>5. GroupFirst'
  BY <1>0, <1>a DEF GroupFirst
<1>6. Wires'
  BY <1>0, <1>a DEF Wires, Untold, TypeOK
<1>7. WiresDistinct'
  BY <1>0 DEF WiresDistinct
<1>8. Handled'
  BY <1>0 DEF Handled, Handling, OnWire
<1>9. Requests'
  BY <1>0 DEF Requests
<1>10. Accepted'
  BY <1>0, <1>a DEF Accepted, Says, None
<1>11. Failed'
  BY <1>0, <1>a DEF Failed, Misread, Says, None
<1> QED
  BY <1>1, <1>2, <1>3, <1>4, <1>5, <1>6, <1>7, <1>8, <1>9, <1>10, <1>11 DEF IInv

\* A restart of the hub changes no record.
LEMMA RestartStep ==
  ASSUME IInv, Restart
  PROVE  IInv'
<1>0. UNCHANGED <<broadcast, state, result, group, active, timers, toReserve,
                  toSend, streams, wire, node, posted, request, inbound, injected,
                  faults, crashes, connects>> /\ hub' = TRUE
  BY DEF Restart, recordVars, requestVars, streamVars, daemonVars
<1> USE DEF IInv
<1>1. TypeOK'
  BY <1>0 DEF TypeOK
<1>2. NoRecord'
  BY <1>0 DEF NoRecord, Untouched, Untold, OnWire, Handling
<1>3. Sending'
  BY <1>0 DEF Sending, Untouched, Untold, OnWire, Handling
<1>4. SendingDistinct'
  BY <1>0 DEF SendingDistinct
<1>5. GroupFirst'
  BY <1>0 DEF GroupFirst
<1>6. Wires'
  BY <1>0 DEF Wires, Untold
<1>7. WiresDistinct'
  BY <1>0 DEF WiresDistinct
<1>8. Handled'
  BY <1>0 DEF Handled, Handling, OnWire
<1>9. Requests'
  BY <1>0 DEF Requests
<1>10. Accepted'
  BY <1>0 DEF Accepted, Says
<1>11. Failed'
  BY <1>0 DEF Failed, Misread, Says
<1> QED
  BY <1>1, <1>2, <1>3, <1>4, <1>5, <1>6, <1>7, <1>8, <1>9, <1>10, <1>11 DEF IInv

\* An inject that is let through only puts an operation without a record in hand.
LEMMA InjectStep ==
  ASSUME NEW o \in Ops, IInv, Inject(o)
  PROVE  IInv'
<1>0. UNCHANGED <<broadcast, hub, state, result, group, active, timers, streams,
                  wire, node, posted, request, inbound, injected, faults, crashes,
                  connects>>
  BY DEF Inject, recordVars, streamVars, daemonVars
<1>a. /\ toReserve' = <<o>> /\ toSend' = <<o>> /\ state[o] = None
      /\ \A i \in DOMAIN broadcast : broadcast[i] # o
  BY DEF Inject
<1>b. hub
  BY Zenon DEF Inject, Idle
<1> USE DEF IInv
<1>1. TypeOK'
  <2>1. <<o>> \in Seq(Ops)
    OBVIOUS
  <2> QED
    BY <1>0, <1>a, <1>b, <2>1 DEF TypeOK
<1>2. NoRecord'
  BY <1>0 DEF NoRecord, Untouched, Untold, OnWire, Handling
<1>3. Sending'
  BY <1>0, <1>a DEF Sending, NoRecord, Untouched, Untold, OnWire, Handling
<1>4. SendingDistinct'
  BY <1>a DEF SendingDistinct
<1>5. GroupFirst'
  BY <1>0, <1>a DEF GroupFirst, TypeOK
<1>6. Wires'
  BY <1>0 DEF Wires, Untold
<1>7. WiresDistinct'
  BY <1>0 DEF WiresDistinct
<1>8. Handled'
  BY <1>0 DEF Handled, Handling, OnWire
<1>9. Requests'
  BY <1>0 DEF Requests
<1>10. Accepted'
  BY <1>0 DEF Accepted, Says
<1>11. Failed'
  BY <1>0 DEF Failed, Misread, Says
<1> QED
  BY <1>1, <1>2, <1>3, <1>4, <1>5, <1>6, <1>7, <1>8, <1>9, <1>10, <1>11 DEF IInv

\* A timeout makes a pending receipt unknown, which claims nothing.
LEMMA TimeoutStep ==
  ASSUME NEW o \in Ops, IInv, Timeout(o)
  PROVE  IInv'
<1>0. UNCHANGED <<broadcast, hub, result, group, toReserve, toSend, streams, wire,
                  node, posted, request, inbound, injected, crashes, connects>>
  BY DEF Timeout, recordVars, requestVars, streamVars, daemonVars
<1>a. /\ timers' \subseteq timers /\ active' \subseteq active
      /\ \E s \in States :
           /\ state' = [state EXCEPT ![o] = s]
           /\ s = state[o] \/ (state[o] = "pending" /\ s = "outcome_unknown")
      /\ toReserve = <<>> /\ toSend = <<>> /\ faults' \in 0..MaxFaults
  <2>1. /\ state \in [Ops -> States] /\ faults \in 0..MaxFaults
    BY DEF IInv, TypeOK
  <2>2. CASE state[o] = "pending"
    <3>1. PICK save \in Saves :
            /\ Meet(save)
            /\ state' = [state EXCEPT ![o] = Rewritten(save, state[o], "outcome_unknown")]
            /\ active' = active \ {o}
      BY <2>1, <2>2 DEF Timeout
    <3>2. Rewritten(save, state[o], "outcome_unknown") \in {"pending", "outcome_unknown"}
      BY <2>2 DEF Rewritten
    <3> QED
      BY <2>1, <2>2, <3>1, <3>2, MeetFacts DEF Timeout, Idle, States, Results
  <2>3. CASE state[o] # "pending"
    BY <2>1, <2>3 DEF Timeout, Idle
  <2> QED
    BY <2>2, <2>3
<1>b. PICK s \in States :
        /\ state' = [state EXCEPT ![o] = s]
        /\ s = state[o] \/ (state[o] = "pending" /\ s = "outcome_unknown")
  BY <1>a
<1>c. /\ state' \in [Ops -> States] /\ state'[o] = s
      /\ \A p \in Ops : p # o => state'[p] = state[p]
  BY <1>b DEF IInv, TypeOK
<1> USE DEF IInv
<1>1. TypeOK'
  <2>1. ASSUME NEW p \in active'  PROVE state'[p] \notin {None, "torn"}
    BY <1>a, <1>b, <1>c, <2>1 DEF TypeOK, None
  <2> QED
    BY <1>0, <1>a, <1>c, <2>1 DEF TypeOK
<1>2. NoRecord'
  <2>1. \A p \in Ops : state'[p] \in {None, "torn"} => Untouched(p)
    BY <1>b, <1>c DEF NoRecord, None
  <2> QED
    BY <1>0, <2>1 DEF NoRecord, Untouched, Untold, OnWire, Handling
<1>3. Sending'
  BY <1>0, <1>a DEF Sending
<1>4. SendingDistinct'
  BY <1>0, <1>a DEF SendingDistinct
<1>5. GroupFirst'
  BY <1>0, <1>a, <1>b, <1>c DEF GroupFirst, TypeOK, None
<1>6. Wires'
  <2>1. \A n \in Nodes : \A i \in 1..Len(wire[n]) : wire[n][i] \in Ops
    BY DEF TypeOK
  <2> QED
    BY <1>0, <1>b, <1>c, <2>1 DEF Wires, Untold
<1>7. WiresDistinct'
  BY <1>0 DEF WiresDistinct
<1>8. Handled'
  <2>1. \A n \in Nodes : Handling(n) => node[n].op \in Ops
    BY DEF TypeOK, Handling
  <2> QED
    BY <1>0, <1>b, <1>c, <2>1 DEF Handled, Handling, OnWire, None
<1>9. Requests'
  BY <1>0 DEF Requests
<1>10. Accepted'
  BY <1>0, <1>b, <1>c DEF Accepted, Says
<1>11. Failed'
  BY <1>0, <1>b, <1>c DEF Failed, Misread, Says
<1> QED
  BY <1>1, <1>2, <1>3, <1>4, <1>5, <1>6, <1>7, <1>8, <1>9, <1>10, <1>11 DEF IInv

\* A result that reaches the hub says no more than the one the node posted.
LEMMA ResultStep ==
  ASSUME NEW o \in Ops, IInv, Result(o)
  PROVE  IInv'
<1>0. UNCHANGED <<broadcast, hub, group, toReserve, toSend, streams, wire, request,
                  inbound, injected, crashes, connects>>
  BY DEF Result, requestVars, streamVars, daemonVars
<1>a. /\ toReserve = <<>> /\ toSend = <<>>
      /\ posted[o] # None /\ state[o] \notin {None, "torn"}
      /\ posted' = [posted EXCEPT ![o] = None]
  BY Zenon DEF Result, Idle
<1>t. /\ state \in [Ops -> States] /\ result \in [Ops -> {None} \cup Results]
      /\ posted \in [Ops -> {None} \cup Results] /\ faults \in 0..MaxFaults
      /\ node \in [Nodes -> [at : Places, op : Ops \cup {None}]]
      /\ Target[o] \in Nodes
  BY DEF IInv, TypeOK
<1>b. \E save \in Saves :
        /\ Meet(save)
        /\ \/ UNCHANGED <<state, result, active, timers>>
           \/ /\ state' = [state EXCEPT ![o] = Rewritten(save, @, posted[o])]
              /\ result' = [result EXCEPT ![o] = Rewritten(save, @, posted[o])]
              /\ active' = IF save = "done" THEN active \ {o} ELSE active
              /\ timers' = IF save = "done" THEN timers \ {o} ELSE timers
        /\ \/ UNCHANGED node
           \/ node' = [node EXCEPT ![Target[o]] = [at |-> "reading", op |-> None]]
  BY DEF Result
<1>c. /\ \/ UNCHANGED <<state, result>>
         \/ /\ state' = [state EXCEPT ![o] = posted[o]]
            /\ result' = [result EXCEPT ![o] = posted[o]]
      /\ active' \subseteq active /\ timers' \subseteq timers /\ faults' \in 0..MaxFaults
  BY <1>t, <1>b, MeetFacts DEF Rewritten
<1>d. /\ state' \in [Ops -> States] /\ state'[o] \in {state[o], posted[o]}
      /\ result' \in [Ops -> {None} \cup Results] /\ result'[o] \in {result[o], posted[o]}
      /\ posted' \in [Ops -> {None} \cup Results] /\ posted'[o] = None
      /\ \A p \in Ops : p # o => /\ state'[p] = state[p] /\ result'[p] = result[p]
                              /\ posted'[p] = posted[p]
  BY <1>a, <1>t, <1>c DEF States
<1>e. /\ node' \in [Nodes -> [at : Places, op : Ops \cup {None}]]
      /\ \A n \in Nodes : node'[n] = node[n] \/ node'[n] = [at |-> "reading", op |-> None]
  <2>1. [at |-> "reading", op |-> None] \in [at : Places, op : Ops \cup {None}]
    BY DEF Places
  <2> QED
    BY <1>t, <1>b, <2>1
<1>f. \A n \in Nodes : Handling(n)' => Handling(n) /\ node'[n] = node[n]
  BY <1>e DEF Handling
<1>g. posted[o] \in Results /\ ~Untouched(o)
  BY <1>a, <1>t DEF Untouched, Untold
<1> USE DEF IInv
<1>1. TypeOK'
  <2>1. ASSUME NEW p \in active'  PROVE state'[p] \notin {None, "torn"}
    BY <1>a, <1>c, <1>d, <1>g, <2>1 DEF TypeOK, None, Results
  <2>2. \A n \in Nodes : node'[n].at \in {"local", "posting"} => node'[n].op \in Ops
    BY <1>f DEF TypeOK, Handling
  <2> QED
    BY <1>0, <1>c, <1>d, <1>e, <2>1, <2>2 DEF TypeOK
<1>2. NoRecord'
  <2> SUFFICES ASSUME NEW p \in Ops, state'[p] \in {None, "torn"}
      PROVE  Untouched(p)'
    BY DEF NoRecord
  <2>1. p # o /\ Untouched(p)
    BY <1>a, <1>d, <1>g DEF NoRecord, None, Results
  <2> QED
    BY <1>0, <1>d, <1>f, <2>1 DEF Untouched, Untold, OnWire
<1>3. Sending'
  BY <1>0, <1>a DEF Sending
<1>4. SendingDistinct'
  BY <1>0, <1>a DEF SendingDistinct
<1>5. GroupFirst'
  BY <1>0, <1>a, <1>d DEF GroupFirst, TypeOK
<1>6. Wires'
  <2>1. \A n \in Nodes : \A i \in 1..Len(wire[n]) : wire[n][i] \in Ops /\ wire[n][i] # o
    BY <1>a DEF TypeOK, Wires, Untold
  <2> QED
    BY <1>0, <1>d, <2>1 DEF Wires, Untold
<1>7. WiresDistinct'
  BY <1>0 DEF WiresDistinct
<1>8. Handled'
  <2> SUFFICES ASSUME NEW n \in Nodes, Handling(n)'
      PROVE  /\ Target[node[n].op] = n /\ ~OnWire(node[n].op, n)
             /\ state'[node[n].op] \notin {None, "torn"}
    BY <1>0, <1>f DEF Handled, OnWire
  <2>1. Handling(n) /\ node[n].op \in Ops
    BY <1>f DEF TypeOK, Handling
  <2> QED
    BY <1>a, <1>d, <1>g, <2>1 DEF Handled, None, Results
<1>9. Requests'
  BY <1>0 DEF Requests
<1>10. Accepted'
  BY <1>0, <1>d DEF Accepted, Says, None
<1>11. Failed'
  BY <1>0, <1>d DEF Failed, Misread, Says, None
<1> QED
  BY <1>1, <1>2, <1>3, <1>4, <1>5, <1>6, <1>7, <1>8, <1>9, <1>10, <1>11 DEF IInv

(* What the three steps of a daemon have in common: an open request o ends *)
(* or goes on as reply, its receipt becomes receipt, its count hit.        *)
LEMMA DaemonStep ==
  ASSUME NEW o \in Ops, IInv, request[o] \in {"sent", "running"},
         NEW reply \in Replies, NEW receipt \in Receipts, NEW hit \in {0, 1},
         request' = [request EXCEPT ![o] = reply], inbound' = [inbound EXCEPT ![o] = receipt],
         injected' = [injected EXCEPT ![o] = hit],
         UNCHANGED <<broadcast, hub, state, result, group, active, timers, toReserve,
                  toSend, streams, wire, node, posted, crashes, connects>>,
         faults' \in 0..MaxFaults,
         reply # "sent", reply = "running" => hit = 0 /\ receipt = "pending",
         "accepted" \in {reply, receipt} => hit = 1,
         {reply, receipt} \cap {"refused", "gone"} # {} =>
           hit = 0 \/ receipt = "gone" \/ o \in SshSubmits
  PROVE  IInv'
<1>a. /\ request' \in [Ops -> Replies] /\ inbound' \in [Ops -> Receipts]
      /\ injected' \in [Ops -> Nat]
      /\ request'[o] = reply /\ inbound'[o] = receipt /\ injected'[o] = hit
      /\ \A p \in Ops : p # o => /\ request'[p] = request[p] /\ inbound'[p] = inbound[p]
                              /\ injected'[p] = injected[p]
  BY DEF IInv, TypeOK
<1>b. request[o] # None
  BY DEF None
<1>c. injected[o] = 0 /\ ~Says(o, "failed") /\ ~Says(o, "accepted")
  BY DEF IInv, Requests, Failed, Accepted
<1>f. /\ Classified(reply) = "accepted" \/ Classified(receipt) = "accepted" => hit = 1
      /\ Classified(reply) = "failed" \/ Classified(receipt) = "failed" =>
           hit = 0 \/ receipt = "gone" \/ o \in SshSubmits
      /\ reply = "running" => Classified(reply) = "outcome_unknown" /\ Classified(receipt) = "outcome_unknown"
  BY DEF Classified
<1>d. \A p \in Ops : Untold(p) => Untold(p)'
  BY <1>a, <1>b DEF Untold
<1>e. \A p \in Ops : Untouched(p) => Untouched(p)'
  BY <1>d DEF Untouched, OnWire, Handling
<1> USE DEF IInv
<1>1. TypeOK'
  BY <1>a DEF TypeOK
<1>2. NoRecord'
  BY <1>e DEF NoRecord
<1>3. Sending'
  <2>1. \A i \in 1..Len(toSend) : toSend[i] \in Ops
    BY DEF TypeOK
  <2> QED
    BY <1>e, <2>1 DEF Sending
<1>4. SendingDistinct'
  BY DEF SendingDistinct
<1>5. GroupFirst'
  BY DEF GroupFirst
<1>6. Wires'
  <2>1. \A n \in Nodes : \A i \in 1..Len(wire[n]) : wire[n][i] \in Ops
    BY DEF TypeOK
  <2> QED
    BY <1>d, <2>1 DEF Wires
<1>7. WiresDistinct'
  BY DEF WiresDistinct
<1>8. Handled'
  BY DEF Handled, Handling, OnWire
<1>9. Requests'
  BY <1>a DEF Requests
<1>10. Accepted'
  BY <1>a, <1>c, <1>f DEF Accepted, Says
<1>11. Failed'
  BY <1>a, <1>c, <1>f DEF Failed, Misread, Says
<1> QED
  BY <1>1, <1>2, <1>3, <1>4, <1>5, <1>6, <1>7, <1>8, <1>9, <1>10, <1>11

\* A forwarded request finds no receipt, or does not inject.
LEMMA ForwardedStep ==
  ASSUME NEW o \in Ops, IInv, Forwarded(o)
  PROVE  IInv'
<1>0. UNCHANGED <<broadcast, hub, state, result, group, active, timers, toReserve,
                  toSend, streams, wire, node, posted, injected, crashes, connects>>
  BY DEF Forwarded, recordVars, requestVars, streamVars
<1>1. request[o] = "sent" /\ injected[o] = 0 /\ inbound[o] = None
  BY DEF Forwarded, IInv, Requests
<1>2. /\ request \in [Ops -> Replies] /\ inbound \in [Ops -> Receipts]
      /\ injected \in [Ops -> Nat] /\ faults \in 0..MaxFaults
  BY DEF IInv, TypeOK
<1>3. injected' = [injected EXCEPT ![o] = 0]
  BY <1>0, <1>1, <1>2
<1>4. CASE (Answer(o, "refused") \/ Answer(o, "unsure")) /\ UNCHANGED <<inbound, faults>>
  <2>1. PICK reply \in {"refused", "unsure", None} : request' = [request EXCEPT ![o] = reply]
    BY <1>4 DEF Answer
  <2>2. inbound' = [inbound EXCEPT ![o] = None]
    BY <1>1, <1>2, <1>4
  <2> QED
    BY <1>0, <1>1, <1>2, <1>3, <1>4, <2>1, <2>2, DaemonStep DEF Replies, Receipts, Answers, None
<1>5. CASE \E save \in FirstSaves :
             /\ Meet(save)
             /\ inbound' = [inbound EXCEPT ![o] = FirstWritten(save)]
             /\ IF save = "done" THEN request' = [request EXCEPT ![o] = "running"]
                ELSE Answer(o, "unsure")
  <2>1. PICK save \in FirstSaves :
             /\ Meet(save)
             /\ inbound' = [inbound EXCEPT ![o] = FirstWritten(save)]
             /\ IF save = "done" THEN request' = [request EXCEPT ![o] = "running"]
                ELSE Answer(o, "unsure")
    BY <1>5
  <2>2. faults' \in 0..MaxFaults
    BY <1>2, <2>1, MeetFacts
  <2>3. PICK receipt \in {None, "torn", "pending"} :
          receipt = FirstWritten(save) /\ (save = "done" => receipt = "pending")
    BY FirstWrittenFacts
  <2>4. PICK reply \in {"running", "unsure", None} :
          /\ request' = [request EXCEPT ![o] = reply]
          /\ reply = "running" => receipt = "pending"
    BY <2>1, <2>3 DEF Answer, None
  <2>5. inbound' = [inbound EXCEPT ![o] = receipt]
    BY <2>1, <2>3
  <2> QED
    BY <1>0, <1>1, <1>3, <2>2, <2>4, <2>5, DaemonStep DEF Replies, Receipts, Answers, None
<1> QED
  BY <1>1, <1>4, <1>5 DEF Forwarded

\* A daemon saves and answers what its inject did; the receipt was pending.
LEMMA DeliveredStep ==
  ASSUME NEW o \in Ops, IInv, Delivered(o)
  PROVE  IInv'
<1>0. UNCHANGED <<broadcast, hub, state, result, group, active, timers, toReserve,
                  toSend, streams, wire, node, posted, crashes, connects>>
  BY DEF Delivered, recordVars, requestVars, streamVars
<1>1. request[o] = "running" /\ injected[o] = 0 /\ inbound[o] = "pending"
  BY DEF Delivered, IInv, Requests
<1>2. injected \in [Ops -> Nat] /\ faults \in 0..MaxFaults
  BY DEF IInv, TypeOK
<1>3. PICK answer \in Answers, hit \in {0, 1}, save \in Saves :
        /\ answer = "accepted" => hit = 1
        /\ answer = "refused" => hit = 0 \/ o \in SshSubmits
        /\ Meet(save)
        /\ injected' = [injected EXCEPT ![o] = injected[o] + hit]
        /\ inbound' = [inbound EXCEPT ![o] = Rewritten(save, inbound[o], answer)]
        /\ Answer(o, IF save = "done" THEN answer ELSE "unsure")
  BY DEF Delivered
<1>4. faults' \in 0..MaxFaults
  BY <1>2, <1>3, MeetFacts
<1>5. injected' = [injected EXCEPT ![o] = hit]
  BY <1>1, <1>3
<1>6. PICK receipt \in {"pending", answer} :
        /\ inbound' = [inbound EXCEPT ![o] = receipt]
        /\ save = "done" => receipt = answer
  BY <1>1, <1>3 DEF Rewritten
<1>7. PICK reply \in {answer, "unsure", None} :
        /\ request' = [request EXCEPT ![o] = reply]
        /\ reply = "gone" => receipt = "gone"
  BY <1>3, <1>6 DEF Answer, None
<1>8. reply \in Replies /\ receipt \in Receipts /\ reply \notin {"sent", "running"}
  BY DEF Replies, Receipts, Answers, None
<1>9. /\ "accepted" \in {reply, receipt} => hit = 1
      /\ {reply, receipt} \cap {"refused", "gone"} # {} =>
           hit = 0 \/ receipt = "gone" \/ o \in SshSubmits
  BY <1>3, <1>6, <1>7 DEF None

<1> QED
  BY <1>0, <1>1, <1>4, <1>5, <1>6, <1>7, <1>8, <1>9, DaemonStep

\* A daemon that dies over a request answers nothing it does not know.
LEMMA DaemonDiesStep ==
  ASSUME NEW o \in Ops, IInv, DaemonDies(o)
  PROVE  IInv'
<1>0. UNCHANGED <<broadcast, hub, state, result, group, active, timers, toReserve,
                  toSend, streams, wire, node, posted, inbound, faults, crashes,
                  connects>>
  BY DEF DaemonDies, recordVars, requestVars, streamVars
<1>1. request[o] \in {"sent", "running"} /\ injected[o] = 0
  BY DEF DaemonDies, IInv, Requests
<1>2. /\ injected \in [Ops -> Nat] /\ inbound \in [Ops -> Receipts]
      /\ faults' \in 0..MaxFaults
  BY <1>0 DEF IInv, TypeOK
<1>3. PICK hit \in {0, 1} : injected' = [injected EXCEPT ![o] = hit]
  <2>1. PICK hit \in {0, 1} : injected' = [injected EXCEPT ![o] = injected[o] + hit]
    BY DEF DaemonDies
  <2>2. injected[o] + hit = hit
    BY <1>1
  <2> QED
    BY <2>1, <2>2
<1>4. PICK reply \in {"unsure", None} : request' = [request EXCEPT ![o] = reply]
  BY DEF DaemonDies, Answer
<1>5. /\ inbound[o] \in Receipts \ Answers
      /\ inbound' = [inbound EXCEPT ![o] = inbound[o]]
  BY <1>0, <1>1, <1>2 DEF IInv, Requests, Answers, Receipts, None
<1>6. /\ reply \in Replies /\ reply \notin {"sent", "running"} /\ inbound[o] \in Receipts
      /\ "accepted" \notin {reply, inbound[o]} /\ {reply, inbound[o]} \cap {"refused", "gone"} = {}
  BY <1>4, <1>5 DEF Replies, Answers, None
<1> QED
  BY <1>0, <1>1, <1>2, <1>3, <1>4, <1>5, <1>6, DaemonStep

\* The end of a stream makes the receipts that wait for its node unknown.
LEMMA StreamLostStep ==
  ASSUME NEW n \in Nodes, IInv, StreamLost(n)
  PROVE  IInv'
<1>0. UNCHANGED <<broadcast, hub, result, group, toReserve, toSend, wire, node,
                  posted, request, inbound, injected, crashes, connects>>
  BY DEF StreamLost, requestVars, daemonVars
<1>a. streams' = streams \ {n} /\ toReserve = <<>> /\ toSend = <<>>
  BY Zenon DEF StreamLost, Idle
<1>t. /\ state \in [Ops -> States] /\ faults \in 0..MaxFaults /\ active \subseteq Ops
      /\ \A o \in active : state[o] \notin {None, "torn"}
  BY DEF IInv, TypeOK
<1>b. /\ state' \in [Ops -> States] /\ active' \subseteq active /\ timers' \subseteq timers
      /\ faults' \in 0..MaxFaults
  <2>1. \/ UNCHANGED <<state, active, timers, faults>>
        \/ \E save \in Saves, bad \in Ops :
             /\ Meet(save)
             /\ state' = [o \in Ops |->
                  IF o \notin Waiting(n) \/ (o = bad /\ save = "before")
                  THEN state[o] ELSE "outcome_unknown"]
             /\ active' = active \ Waiting(n)
             /\ timers' = timers \ {o \in Waiting(n) : o # bad \/ save = "done"}
    BY Zenon DEF StreamLost
  <2>2. CASE UNCHANGED <<state, active, timers, faults>>
    BY <1>t, <2>2
  <2>3. ASSUME NEW save \in Saves, NEW bad \in Ops,
               Meet(save),
               state' = [o \in Ops |->
                 IF o \notin Waiting(n) \/ (o = bad /\ save = "before")
                 THEN state[o] ELSE "outcome_unknown"],
               active' = active \ Waiting(n),
               timers' = timers \ {o \in Waiting(n) : o # bad \/ save = "done"}
        PROVE  /\ state' \in [Ops -> States] /\ active' \subseteq active /\ timers' \subseteq timers
               /\ faults' \in 0..MaxFaults
    <3>1. faults' \in 0..MaxFaults
      BY <1>t, <2>3, MeetFacts
    <3>2. state' \in [Ops -> States]
      BY <1>t, <2>3 DEF States, Results
    <3> QED
      BY <2>3, <3>1, <3>2
  <2> QED
    BY <2>1, <2>2, <2>3
<1>c. ASSUME NEW o \in Ops
      PROVE  \/ state'[o] = state[o]
             \/ state[o] \notin {None, "torn"} /\ state'[o] = "outcome_unknown"
  <2>1. UNCHANGED state \/ state'[o] = state[o] \/ (o \in Waiting(n) /\ state'[o] = "outcome_unknown")
    BY DEF StreamLost
  <2>2. o \in Waiting(n) => o \in active
    BY DEF Waiting
  <2> QED
    BY <1>t, <2>1, <2>2
<1> USE DEF IInv
<1>1. TypeOK'
  <2>1. \A o \in active' : state'[o] \notin {None, "torn"}
    BY <1>t, <1>b, <1>c DEF None
  <2> QED
    BY <1>0, <1>a, <1>b, <1>c, <2>1 DEF TypeOK
<1>2. NoRecord'
  <2>1. \A o \in Ops : state'[o] \in {None, "torn"} => Untouched(o)
    BY <1>c DEF NoRecord, None
  <2> QED
    BY <1>0, <2>1 DEF NoRecord, Untouched, Untold, OnWire, Handling
<1>3. Sending'
  BY <1>0, <1>a DEF Sending
<1>4. SendingDistinct'
  BY <1>0, <1>a DEF SendingDistinct
<1>5. GroupFirst'
  BY <1>0, <1>c DEF GroupFirst, TypeOK
<1>6. Wires'
  <2>1. \A m \in Nodes : \A i \in 1..Len(wire[m]) : wire[m][i] \in Ops
    BY DEF TypeOK
  <2> QED
    BY <1>0, <1>c, <2>1 DEF Wires, Untold
<1>7. WiresDistinct'
  BY <1>0 DEF WiresDistinct
<1>8. Handled'
  <2>1. \A m \in Nodes : Handling(m) => node[m].op \in Ops
    BY DEF TypeOK, Handling
  <2> QED
    BY <1>0, <1>c, <2>1 DEF Handled, Handling, OnWire, None
<1>9. Requests'
  BY <1>0 DEF Requests
<1>10. Accepted'
  BY <1>0, <1>c DEF Accepted, Says
<1>11. Failed'
  BY <1>0, <1>c DEF Failed, Misread, Says
<1> QED
  BY <1>1, <1>2, <1>3, <1>4, <1>5, <1>6, <1>7, <1>8, <1>9, <1>10, <1>11 DEF IInv

\* A node that connects finds an empty wire.
LEMMA ConnectStep ==
  ASSUME NEW n \in Nodes, IInv, Connect(n)
  PROVE  IInv'
<1>0. UNCHANGED <<broadcast, hub, state, result, group, active, timers, toReserve,
                  toSend, posted, request, inbound, injected, faults, crashes>>
  BY DEF Connect, recordVars, requestVars, daemonVars
<1>a. /\ wire' = [wire EXCEPT ![n] = <<>>]
      /\ node' = [node EXCEPT ![n] = [at |-> "reading", op |-> None]]
      /\ streams' = streams \cup {n} /\ connects < MaxConnects /\ connects' = connects + 1
  BY DEF Connect
<1>h. hub
  BY Zenon DEF Connect, Idle
<1>t. /\ wire \in [Nodes -> Seq(Ops)] /\ node \in [Nodes -> [at : Places, op : Ops \cup {None}]]
      /\ hub \in BOOLEAN
  BY DEF IInv, TypeOK
<1>b. /\ wire' \in [Nodes -> Seq(Ops)] /\ node' \in [Nodes -> [at : Places, op : Ops \cup {None}]]
      /\ wire'[n] = <<>> /\ ~Handling(n)'
      /\ \A m \in Nodes : m # n => wire'[m] = wire[m] /\ node'[m] = node[m]
  <2>1. <<>> \in Seq(Ops) /\ [at |-> "reading", op |-> None] \in [at : Places, op : Ops \cup {None}]
    BY DEF Places
  <2> QED
    BY <1>a, <1>t, <2>1 DEF Handling
<1>c. /\ \A m \in Nodes : Handling(m)' => Handling(m) /\ node'[m] = node[m] /\ wire'[m] = wire[m]
      /\ \A m \in Nodes : \A i \in 1..Len(wire'[m]) : i \in 1..Len(wire[m]) /\ wire'[m] = wire[m]
  BY <1>b DEF Handling
<1> USE DEF IInv
<1>1. TypeOK'
  <2>1. \A m \in Nodes : node'[m].at \in {"local", "posting"} => node'[m].op \in Ops
    BY <1>c DEF TypeOK, Handling
  <2> QED
    BY <1>0, <1>a, <1>b, <1>h, <2>1 DEF TypeOK
<1>d. \A o \in Ops : Untouched(o) => Untouched(o)'
  <2> SUFFICES ASSUME NEW o \in Ops, Untouched(o)  PROVE Untouched(o)'
    OBVIOUS
  <2>1. Untold(o)'
    BY <1>0 DEF Untouched, Untold
  <2>2. \A m \in Nodes : ~OnWire(o, m)'
    BY <1>c DEF Untouched, OnWire
  <2>3. \A m \in Nodes : Handling(m)' => node'[m].op # o
    BY <1>c DEF Untouched
  <2> QED
    BY <2>1, <2>2, <2>3 DEF Untouched
<1>2. NoRecord'
  BY <1>0, <1>d DEF NoRecord
<1>3. Sending'
  <2>1. \A i \in 1..Len(toSend) : toSend[i] \in Ops
    BY DEF TypeOK
  <2> QED
    BY <1>0, <1>d, <2>1 DEF Sending
<1>4. SendingDistinct'
  BY <1>0 DEF SendingDistinct
<1>5. GroupFirst'
  BY <1>0 DEF GroupFirst
<1>6. Wires'
  <2>1. \A m \in Nodes : \A i \in 1..Len(wire[m]) : wire[m][i] \in Ops
    BY <1>t
  <2> QED
    BY <1>0, <1>c, <2>1 DEF Wires, Untold
<1>7. WiresDistinct'
  BY <1>c DEF WiresDistinct
<1>8. Handled'
  BY <1>0, <1>c DEF Handled, OnWire
<1>9. Requests'
  BY <1>0 DEF Requests
<1>10. Accepted'
  BY <1>0 DEF Accepted, Says
<1>11. Failed'
  BY <1>0 DEF Failed, Misread, Says
<1> QED
  BY <1>1, <1>2, <1>3, <1>4, <1>5, <1>6, <1>7, <1>8, <1>9, <1>10, <1>11 DEF IInv

\* A node that leaves drops its wire and the answer it did not post.
LEMMA LeaveStep ==
  ASSUME NEW n \in Nodes, IInv, Leave(n)
  PROVE  IInv'
<1>0. UNCHANGED <<broadcast, hub, state, result, group, active, timers, toReserve,
                  toSend, streams, posted, inbound, injected, faults, crashes,
                  connects>>
  BY DEF Leave, recordVars, requestVars
<1>a. /\ wire' = [wire EXCEPT ![n] = <<>>]
      /\ node' = [node EXCEPT ![n] = [at |-> "off", op |-> None]]
      /\ request' = [o \in Ops |->
           IF o = node[n].op /\ request[o] \in Answers THEN None ELSE request[o]]
  BY DEF Leave
<1>d. \A o \in Ops : request'[o] \in {None, request[o]}
  BY <1>a
<1>t. /\ wire \in [Nodes -> Seq(Ops)] /\ node \in [Nodes -> [at : Places, op : Ops \cup {None}]]
      /\ hub \in BOOLEAN
  BY DEF IInv, TypeOK
<1>b. /\ wire' \in [Nodes -> Seq(Ops)] /\ node' \in [Nodes -> [at : Places, op : Ops \cup {None}]]
      /\ wire'[n] = <<>> /\ ~Handling(n)'
      /\ \A m \in Nodes : m # n => wire'[m] = wire[m] /\ node'[m] = node[m]
  <2>1. <<>> \in Seq(Ops) /\ [at |-> "off", op |-> None] \in [at : Places, op : Ops \cup {None}]
    BY DEF Places
  <2> QED
    BY <1>a, <1>t, <2>1 DEF Handling
<1>c. /\ \A m \in Nodes : Handling(m)' => Handling(m) /\ node'[m] = node[m] /\ wire'[m] = wire[m]
      /\ \A m \in Nodes : \A i \in 1..Len(wire'[m]) : i \in 1..Len(wire[m]) /\ wire'[m] = wire[m]
  BY <1>b DEF Handling
<1>e. \A o \in Ops : Untouched(o) => Untouched(o)'
  <2> SUFFICES ASSUME NEW o \in Ops, Untouched(o)  PROVE Untouched(o)'
    OBVIOUS
  <2>1. Untold(o)'
    BY <1>0, <1>d DEF Untouched, Untold
  <2>2. \A m \in Nodes : ~OnWire(o, m)'
    BY <1>c DEF Untouched, OnWire
  <2>3. \A m \in Nodes : Handling(m)' => node'[m].op # o
    BY <1>c DEF Untouched
  <2> QED
    BY <2>1, <2>2, <2>3 DEF Untouched
<1> USE DEF IInv
<1>1. TypeOK'
  <2>1. \A m \in Nodes : node'[m].at \in {"local", "posting"} => node'[m].op \in Ops
    BY <1>c DEF TypeOK, Handling
  <2> QED
    BY <1>0, <1>a, <1>b, <1>d, <2>1 DEF TypeOK, Replies
<1>2. NoRecord'
  BY <1>0, <1>e DEF NoRecord
<1>3. Sending'
  <2>1. \A i \in 1..Len(toSend) : toSend[i] \in Ops
    BY DEF TypeOK
  <2> QED
    BY <1>0, <1>e, <2>1 DEF Sending
<1>4. SendingDistinct'
  BY <1>0 DEF SendingDistinct
<1>5. GroupFirst'
  BY <1>0 DEF GroupFirst
<1>6. Wires'
  <2>1. \A m \in Nodes : \A i \in 1..Len(wire[m]) : wire[m][i] \in Ops
    BY <1>t
  <2> QED
    BY <1>0, <1>c, <1>d, <2>1 DEF Wires, Untold
<1>7. WiresDistinct'
  BY <1>c DEF WiresDistinct
<1>8. Handled'
  BY <1>0, <1>c DEF Handled, OnWire
<1>9. Requests'
  BY <1>0, <1>d DEF Requests, None
<1>10. Accepted'
  BY <1>0, <1>d DEF Accepted, Says, Classified, None
<1>11. Failed'
  BY <1>0, <1>d DEF Failed, Misread, Says, Classified, None
<1> QED
  BY <1>1, <1>2, <1>3, <1>4, <1>5, <1>6, <1>7, <1>8, <1>9, <1>10, <1>11 DEF IInv

\* A frame leaves the wire for good when its node starts to handle it.
LEMMA ReadStep ==
  ASSUME NEW n \in Nodes, IInv, Read(n)
  PROVE  IInv'
<1>0. UNCHANGED <<broadcast, hub, state, result, group, active, timers, toReserve,
                  toSend, streams, posted, inbound, injected, faults, crashes,
                  connects>>
  BY DEF Read, recordVars, requestVars
<1>t. /\ wire \in [Nodes -> Seq(Ops)] /\ node \in [Nodes -> [at : Places, op : Ops \cup {None}]]
      /\ request \in [Ops -> Replies] /\ wire[n] \in Seq(Ops)
  BY DEF IInv, TypeOK
<1>p. PICK h \in Ops : h = Head(wire[n])
  BY <1>t, TailFacts DEF Read
<1>a. /\ node' = [node EXCEPT ![n] = [at |-> "local", op |-> h]]
      /\ wire' = [wire EXCEPT ![n] = Tail(wire[n])]
      /\ request' = [request EXCEPT ![h] = "sent"]
      /\ node[n].at = "reading" /\ wire[n] # <<>>
  BY <1>p DEF Read
<1>b. /\ h = wire[n][1] /\ 1 \in 1..Len(wire[n]) /\ Tail(wire[n]) \in Seq(Ops)
      /\ \A i \in 1..Len(Tail(wire[n])) :
           i + 1 \in 1..Len(wire[n]) /\ Tail(wire[n])[i] = wire[n][i + 1]
  BY <1>a, <1>p, <1>t, TailFacts
<1>c. /\ Target[h] = n /\ Untold(h) /\ state[h] \in {"pending", "outcome_unknown"}
      /\ ~Untouched(h)
  BY <1>b DEF IInv, Wires, Untouched, OnWire
<1>d. /\ node' \in [Nodes -> [at : Places, op : Ops \cup {None}]]
      /\ node'[n] = [at |-> "local", op |-> h] /\ \A m \in Nodes : m # n => node'[m] = node[m]
      /\ wire' \in [Nodes -> Seq(Ops)] /\ wire'[n] = Tail(wire[n])
      /\ \A m \in Nodes : m # n => wire'[m] = wire[m]
      /\ request' \in [Ops -> Replies] /\ request'[h] = "sent"
      /\ \A o \in Ops : o # h => request'[o] = request[o]
  BY <1>a, <1>b, <1>t DEF Places, Replies
<1>e. \A m \in Nodes : \A i \in 1..Len(wire'[m]) :
        /\ wire'[m][i] \in Ops /\ wire'[m][i] # h
        /\ \E j \in 1..Len(wire[m]) :
             wire'[m][i] = wire[m][j] /\ j = (IF m = n THEN i + 1 ELSE i)
  <2> SUFFICES ASSUME NEW m \in Nodes, NEW i \in 1..Len(wire'[m])
      PROVE  /\ wire'[m][i] \in Ops /\ wire'[m][i] # h
             /\ \E j \in 1..Len(wire[m]) :
                  wire'[m][i] = wire[m][j] /\ j = (IF m = n THEN i + 1 ELSE i)
    OBVIOUS
  <2>1. wire'[m][i] \in Ops
    BY <1>d
  <2>2. CASE m = n
    <3>1. i + 1 \in 1..Len(wire[n]) /\ wire'[m][i] = wire[n][i + 1]
      BY <1>b, <1>d, <2>2
    <3>2. wire[n][i + 1] # h
      BY <1>b, <3>1 DEF IInv, WiresDistinct
    <3> QED
      BY <2>1, <2>2, <3>1, <3>2
  <2>3. CASE m # n
    <3>1. wire'[m] = wire[m]
      BY <1>d, <2>3
    <3>2. Target[wire[m][i]] = m
      BY <3>1 DEF IInv, Wires
    <3> QED
      BY <1>c, <2>1, <2>3, <3>1, <3>2
  <2> QED
    BY <2>2, <2>3
<1>f. \A o \in Ops : Untouched(o) => o # h /\ Untouched(o)'
  <2> SUFFICES ASSUME NEW o \in Ops, Untouched(o)  PROVE o # h /\ Untouched(o)'
    OBVIOUS
  <2>1. o # h
    BY <1>c
  <2>2. Untold(o)'
    BY <1>0, <1>d, <2>1 DEF Untouched, Untold
  <2>3. \A m \in Nodes : ~OnWire(o, m)'
    BY <1>e DEF Untouched, OnWire
  <2>4. ASSUME NEW m \in Nodes, Handling(m)'  PROVE node'[m].op # o
    <3>1. CASE m = n
      BY <1>d, <2>1, <3>1
    <3>2. CASE m # n
      BY <1>d, <2>4, <3>2 DEF Untouched, Handling
    <3> QED
      BY <3>1, <3>2
  <2> QED
    BY <2>1, <2>2, <2>3, <2>4 DEF Untouched
<1> USE DEF IInv
<1>1. TypeOK'
  <2>1. ASSUME NEW m \in Nodes, node'[m].at \in {"local", "posting"}
        PROVE  node'[m].op \in Ops
    <3>1. CASE m = n
      BY <1>d, <3>1
    <3>2. CASE m # n
      BY <1>d, <2>1, <3>2 DEF TypeOK
    <3> QED
      BY <3>1, <3>2
  <2> QED
    BY <1>0, <1>d, <2>1 DEF TypeOK
<1>2. NoRecord'
  BY <1>0, <1>f DEF NoRecord
<1>3. Sending'
  <2>1. \A i \in 1..Len(toSend) : toSend[i] \in Ops
    BY DEF TypeOK
  <2> QED
    BY <1>0, <1>f, <2>1 DEF Sending
<1>4. SendingDistinct'
  BY <1>0 DEF SendingDistinct
<1>5. GroupFirst'
  BY <1>0 DEF GroupFirst
<1>6. Wires'
  <2> SUFFICES ASSUME NEW m \in Nodes, NEW i \in 1..Len(wire'[m])
      PROVE  \E o \in Ops : /\ o = wire'[m][i] /\ Target[o] = m /\ Untold(o)'
                          /\ state[o] \in {"pending", "outcome_unknown"}
    BY <1>0 DEF Wires, Untold
  <2>1. PICK o \in Ops : o = wire'[m][i] /\ o # h /\ \E j \in 1..Len(wire[m]) : o = wire[m][j]
    BY <1>e
  <2>2. PICK j \in 1..Len(wire[m]) : o = wire[m][j]
    BY <2>1
  <2>3. Target[o] = m /\ Untold(o) /\ state[o] \in {"pending", "outcome_unknown"}
    <3>1. /\ Target[wire[m][j]] = m /\ Untold(wire[m][j])
          /\ state[wire[m][j]] \in {"pending", "outcome_unknown"}
      BY DEF Wires
    <3> QED
      BY <2>2, <3>1
  <2>4. Untold(o)'
    BY <1>0, <1>d, <2>1, <2>3 DEF Untold
  <2> QED
    BY <2>1, <2>3, <2>4
<1>7. WiresDistinct'
  <2> SUFFICES ASSUME NEW m \in Nodes, NEW i \in 1..Len(wire'[m]), NEW j \in 1..Len(wire'[m]),
                      wire'[m][i] = wire'[m][j]
      PROVE  i = j
    BY DEF WiresDistinct
  <2> DEFINE at(k) == IF m = n THEN k + 1 ELSE k
  <2>1. /\ at(i) \in 1..Len(wire[m]) /\ at(j) \in 1..Len(wire[m])
        /\ wire[m][at(i)] = wire[m][at(j)]
    BY <1>e
  <2>2. at(i) = at(j)
    BY <2>1 DEF WiresDistinct
  <2> QED
    BY <2>2
<1>8. Handled'
  <2> SUFFICES ASSUME NEW m \in Nodes, Handling(m)'
      PROVE  \E o \in Ops : /\ o = node'[m].op /\ Target[o] = m /\ ~OnWire(o, m)'
                          /\ state[o] \notin {None, "torn"}
    BY <1>0 DEF Handled, OnWire
  <2>1. CASE m = n
    <3>1. h = node'[m].op /\ Target[h] = m /\ state[h] \notin {None, "torn"}
      BY <1>c, <1>d, <2>1 DEF None
    <3>2. ~OnWire(h, m)'
      BY <1>e DEF OnWire
    <3> QED
      BY <3>1, <3>2
  <2>2. CASE m # n
    <3>1. node'[m] = node[m] /\ wire'[m] = wire[m] /\ Handling(m)
      BY <1>d, <2>2 DEF Handling
    <3>2. PICK o \in Ops : o = node[m].op
      BY <3>1 DEF Handling, TypeOK
    <3>3. Target[o] = m /\ ~OnWire(o, m) /\ state[o] \notin {None, "torn"}
      BY <3>1, <3>2 DEF Handled
    <3>4. ~OnWire(o, m)'
      BY <3>1, <3>3 DEF OnWire
    <3> QED
      BY <3>1, <3>2, <3>3, <3>4
  <2> QED
    BY <2>1, <2>2
<1>9. Requests'
  BY <1>0, <1>c, <1>d DEF Requests, Untold
<1>g. Classified("sent") = "outcome_unknown"
  BY DEF Classified
<1>10. Accepted'
  BY <1>0, <1>d, <1>g DEF Accepted, Says
<1>11. Failed'
  <2>1. ~Says(h, "failed")
    BY <1>c DEF Untold, Says, Classified, None
  <2> QED
    BY <1>0, <1>d, <1>g, <2>1 DEF Failed, Misread, Says
<1> QED
  BY <1>1, <1>2, <1>3, <1>4, <1>5, <1>6, <1>7, <1>8, <1>9, <1>10, <1>11 DEF IInv

\* A node posts what its daemon answered, or outcome_unknown.
LEMMA PostStep ==
  ASSUME NEW n \in Nodes, IInv, Post(n)
  PROVE  IInv'
<1>0. UNCHANGED <<broadcast, hub, state, result, group, active, timers, toReserve,
                  toSend, streams, wire, inbound, injected, faults, crashes,
                  connects>>
  BY DEF Post, recordVars, requestVars, streamVars
<1>t. /\ node \in [Nodes -> [at : Places, op : Ops \cup {None}]] /\ posted \in [Ops -> {None} \cup Results]
      /\ request \in [Ops -> Replies] /\ wire \in [Nodes -> Seq(Ops)]
  BY DEF IInv, TypeOK
<1>p. PICK o \in Ops : o = node[n].op
  BY DEF Post, IInv, TypeOK
<1>a. /\ node[n].at = "local"
      /\ posted' = [posted EXCEPT ![o] = Classified(request[o])]
      /\ request' = [request EXCEPT ![o] = IF request[o] \in Answers THEN None ELSE request[o]]
      /\ node' = [node EXCEPT ![n] = [at |-> "posting", op |-> o]]
  BY <1>p DEF Post
<1>b. /\ posted' \in [Ops -> {None} \cup Results] /\ request' \in [Ops -> Replies]
      /\ node' \in [Nodes -> [at : Places, op : Ops \cup {None}]]
      /\ \A p \in Ops : p # o => posted'[p] = posted[p] /\ request'[p] = request[p]
      /\ posted'[o] = Classified(request[o])
      /\ request'[o] \in {request[o], None}
      /\ node'[n] = [at |-> "posting", op |-> o] /\ \A m \in Nodes : m # n => node'[m] = node[m]
  <2>1. Classified(request[o]) \in Results
    BY DEF Classified, Results
  <2>2. [at |-> "posting", op |-> o] \in [at : Places, op : Ops \cup {None}]
    BY DEF Places
  <2> QED
    BY <1>a, <1>t, <2>1, <2>2 DEF Replies
<1>c. \A m \in Nodes : (Handling(m)' <=> Handling(m)) /\ node'[m].op = node[m].op
  BY <1>a, <1>b, <1>p DEF Handling
<1>d. /\ Handling(n) /\ ~Untouched(o) /\ Target[o] = n /\ ~OnWire(o, n)
  BY <1>a, <1>p DEF Handling, Untouched, IInv, Handled
<1>e. \A p \in Ops : Untouched(p) => Untouched(p)'
  BY <1>0, <1>b, <1>c, <1>d DEF Untouched, Untold, OnWire
<1>f. Classified(None) = "outcome_unknown"
  BY DEF Classified, None
<1> USE DEF IInv
<1>1. TypeOK'
  <2>1. \A m \in Nodes : node'[m].at \in {"local", "posting"} => node'[m].op \in Ops
    BY <1>c DEF TypeOK, Handling
  <2> QED
    BY <1>0, <1>b, <2>1 DEF TypeOK
<1>2. NoRecord'
  BY <1>0, <1>e DEF NoRecord
<1>3. Sending'
  <2>1. \A i \in 1..Len(toSend) : toSend[i] \in Ops
    BY DEF TypeOK
  <2> QED
    BY <1>0, <1>e, <2>1 DEF Sending
<1>4. SendingDistinct'
  BY <1>0 DEF SendingDistinct
<1>5. GroupFirst'
  BY <1>0 DEF GroupFirst
<1>6. Wires'
  <2> SUFFICES ASSUME NEW m \in Nodes, NEW i \in 1..Len(wire[m])
      PROVE  \E p \in Ops : /\ p = wire[m][i] /\ Target[p] = m /\ Untold(p)'
                          /\ state[p] \in {"pending", "outcome_unknown"}
    BY <1>0 DEF Wires, Untold
  <2>1. PICK p \in Ops : p = wire[m][i]
    BY <1>t
  <2>2. /\ Target[p] = m /\ Untold(p) /\ state[p] \in {"pending", "outcome_unknown"}
    BY <2>1 DEF Wires
  <2>3. p # o
    BY <1>d, <2>1, <2>2 DEF OnWire
  <2>4. Untold(p)'
    BY <1>0, <1>b, <2>2, <2>3 DEF Untold
  <2> QED
    BY <2>1, <2>2, <2>4
<1>7. WiresDistinct'
  BY <1>0 DEF WiresDistinct
<1>8. Handled'
  BY <1>0, <1>c DEF Handled, OnWire
<1>9. Requests'
  BY <1>0, <1>b DEF Requests, None
<1>10. Accepted'
  BY <1>0, <1>b, <1>f DEF Accepted, Says
<1>11. Failed'
  BY <1>0, <1>b, <1>f DEF Failed, Misread, Says, None
<1> QED
  BY <1>1, <1>2, <1>3, <1>4, <1>5, <1>6, <1>7, <1>8, <1>9, <1>10, <1>11 DEF IInv

-----------------------------------------------------------------------------
(* The invariant, and what follows from it                                 *)

\* Nothing has happened in the initial states, so every part of IInv holds.
LEMMA Initial ==
  Init => IInv
<1> SUFFICES ASSUME Init  PROVE IInv
  OBVIOUS
<1> USE DEF Init
<1>1. TypeOK
  <2>1. <<>> \in Seq(Ops)
    OBVIOUS
  <2>2. hub \in BOOLEAN /\ hub
    BY Zenon
  <2> QED
    BY <2>1, <2>2 DEF TypeOK, States, Results, Receipts, Replies, Places, None
<1>2. \A n \in Nodes : wire[n] = <<>> /\ ~Handling(n)
  BY DEF Handling
<1>3. \A o \in Ops : Untouched(o)
  BY <1>2 DEF Untouched, Untold, OnWire
<1>4. NoRecord /\ Sending /\ SendingDistinct
  BY <1>3 DEF NoRecord, Sending, SendingDistinct
<1>5. GroupFirst
  BY <1>1 DEF GroupFirst, TypeOK
<1>6. Wires /\ WiresDistinct /\ Handled
  BY <1>2 DEF Wires, WiresDistinct, Handled
<1>7. Requests /\ Accepted /\ Failed
  BY DEF Requests, Accepted, Failed, Says, Classified, None
<1> QED
  BY <1>1, <1>4, <1>5, <1>6, <1>7 DEF IInv

\* A stuttering step keeps every part of IInv.
LEMMA Stuttering ==
  ASSUME IInv, UNCHANGED vars
  PROVE  IInv'
<1> USE DEF vars, recordVars, requestVars, streamVars, daemonVars, IInv
<1>1. TypeOK'
  BY DEF TypeOK
<1>2. NoRecord' /\ Sending' /\ SendingDistinct'
  BY DEF NoRecord, Sending, SendingDistinct, Untouched, Untold, OnWire, Handling
<1>3. GroupFirst' /\ WiresDistinct'
  BY DEF GroupFirst, WiresDistinct
<1>4. Wires' /\ Handled'
  BY DEF Wires, Untold, Handled, Handling, OnWire
<1>5. Requests' /\ Accepted' /\ Failed'
  BY DEF Requests, Accepted, Failed, Misread, Says
<1> QED
  BY <1>1, <1>2, <1>3, <1>4, <1>5

\* Every step of hub, nodes and daemons keeps IInv.
LEMMA Inductive ==
  IInv /\ [Next]_vars => IInv'
<1> SUFFICES ASSUME IInv, [Next]_vars  PROVE IInv'
  OBVIOUS
<1>1. CASE BroadcastAll \/ Reserve \/ Dispatch \/ Crash \/ Restart
  BY <1>1, BroadcastAllStep, ReserveStep, DispatchStep, CrashStep, RestartStep
<1>2. CASE \E o \in Ops : Inject(o) \/ Timeout(o) \/ Result(o)
  BY <1>2, InjectStep, TimeoutStep, ResultStep
<1>3. CASE \E o \in Ops : Forwarded(o) \/ Delivered(o) \/ DaemonDies(o)
  BY <1>3, ForwardedStep, DeliveredStep, DaemonDiesStep
<1>4. CASE \E n \in Nodes : StreamLost(n) \/ Connect(n) \/ Leave(n) \/ Read(n) \/ Post(n)
  BY <1>4, StreamLostStep, ConnectStep, LeaveStep, ReadStep, PostStep
<1>5. CASE UNCHANGED vars
  BY <1>5, Stuttering
<1> QED
  BY <1>1, <1>2, <1>3, <1>4, <1>5 DEF Next

\* Accepted, Failed and Requests are ReceiptTruthful of every record, not only
\* of the hub's; a receipt the hub shows as unknown claims nothing.
LEMMA Truthful ==
  IInv => ReceiptTruthful
<1> SUFFICES ASSUME IInv, NEW o \in Ops
    PROVE  /\ injected[o] <= 1
           /\ Shown(o) = "accepted" => injected[o] = 1
           /\ Shown(o) = "failed" => injected[o] = 0 \/ Misread(o)
  BY DEF ReceiptTruthful
<1>1. injected[o] \in {0, 1}
  BY DEF IInv, Requests
<1>2. /\ Shown(o) = "accepted" => state[o] = "accepted"
      /\ Shown(o) = "failed" => state[o] = "failed"
  BY DEF Shown
<1>3. /\ state[o] = "accepted" => injected[o] = 1
      /\ state[o] = "failed" => injected[o] = 0 \/ Misread(o)
  BY DEF IInv, Accepted, Failed, Says
<1> QED
  BY <1>1, <1>2, <1>3

\* Hub, nodes and daemons keep to their types, a hub that is down waits for
\* nothing, and a receipt that holds a place under max_pending has a record.
THEOREM TypeCorrect == Spec => []TypeOK
<1>1. IInv => TypeOK
  BY DEF IInv
<1> QED
  BY <1>1, Initial, Inductive, PTL DEF Spec

\* Whatever is lost, retried, restarted or answered late: no operation is
\* injected twice, no receipt says "accepted" of a text that was not injected,
\* and none says "failed" of one that was, unless its daemon answered 410 of an
\* uncertain delivery or refused the return behind a text a remote shell took.
THEOREM ReceiptsTruthful == Spec => []ReceiptTruthful
BY Initial, Inductive, Truthful, PTL DEF Spec

=============================================================================
