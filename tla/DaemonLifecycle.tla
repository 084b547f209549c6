--------------------------- MODULE DaemonLifecycle ---------------------------
(***************************************************************************)
(* The daemons of one HOME, from their start to their end, and the three   *)
(* things they share: daemon-state.json, which names the daemon that       *)
(* claimed (daemon-control.js); tracked-injections.lock, made with O_EXCL  *)
(* before the ledger store is opened (ledger-lock.js); and the port.  The  *)
(* store is opened by a worker thread of the daemon, so a daemon has two   *)
(* activities, and a third while an open acquires the lock off the thread. *)
(*                                                                         *)
(* A daemon is one process: it is started at most once, and a restart is   *)
(* another element of Daemon.  Every call on a shared file is an action,   *)
(* since another process may act between any two.  The operator runs       *)
(* `telepty ledger unlock --confirm` and the clearing of a stale state     *)
(* file that ends `daemon stop`; the signals of `daemon stop` are Shutdown *)
(* and Kill, which happen at any time.                                     *)
(***************************************************************************)
CONSTANTS
  Daemon,      \* daemon processes: as many as are ever started
  Operator,    \* the process that runs the operator's commands, one at a time
  NoProcess,   \* no process
  MayReusePid  \* the pid of a dead daemon may be given to another process

ASSUME DaemonAssumption == Operator \notin Daemon /\ NoProcess \notin Daemon \cup {Operator} /\ MayReusePid \in BOOLEAN

VARIABLES
  stateFile,  \* the pid in daemon-state.json
  lock,       \* the daemon whose lock file is there
  lockText,   \* the lock file has its text
  port,       \* the daemon that listens
  pc,         \* where a process is
  seen,       \* the pid that a process read from the state file, or expects there
  lockSeen,   \* the pid that the operator read from the lock
  after,      \* where a process goes on after a clear or a release
  acquiring,  \* the next call of a daemon's acquisition of the lock
  refusal,    \* why the acquisition of the load failed, until the store is opened
  held,       \* lockHeld
  worker,     \* its worker thread
  met         \* the faults that a daemon met

lifecycleVars == <<stateFile, lock, lockText, port, pc, seen, lockSeen, after, acquiring, refusal, held, worker, met>>
files == <<stateFile, lock, lockText>>
reads == <<seen, lockSeen, after>>
client == <<acquiring, refusal, held, worker>>

Process == Daemon \cup {Operator}
At(p, l) == pc[p] = l
Goto(p, l) == pc' = [pc EXCEPT ![p] = l]
Alive(d) == d \in Daemon /\ pc[d] \notin {"off", "gone"}

Clearing == {"exists", "compare", "remove"}
Unlocking == {"readLock", "checkState", "health", "checkLock", "unlinkLock"}
\* The part of daemon.js that runs before its signal handlers are registered.
Loading(d) ==
  \/ pc[d] \in {"claim", "probe", "publish", "acquire", "config", "open"}
  \/ pc[d] \in Clearing /\ after[d] = "publish"

LifecycleInit ==
  /\ stateFile = NoProcess /\ lock = NoProcess /\ lockText = FALSE /\ port = NoProcess
  /\ pc = [p \in Process |-> IF p = Operator THEN "idle" ELSE "off"]
  /\ seen = [p \in Process |-> NoProcess] /\ lockSeen = NoProcess
  /\ after = [p \in Process |-> "idle"]
  /\ acquiring = [d \in Daemon |-> "none"] /\ refusal = [d \in Daemon |-> "none"]
  /\ held = [d \in Daemon |-> FALSE] /\ worker = [d \in Daemon |-> "none"]
  /\ met = [d \in Daemon |-> {}]

\* isProcessRunning: a pid that is reused is taken for the process that had it.
Running(d) == IF Alive(d) THEN {TRUE} ELSE IF d # NoProcess /\ MayReusePid THEN BOOLEAN ELSE {FALSE}

Meets(d, f) == met' = [met EXCEPT ![d] = @ \cup {f}]

\* What a process has read and where it returns is of no use any more.
Forget(p) ==
  /\ seen' = [seen EXCEPT ![p] = NoProcess]
  /\ after' = [after EXCEPT ![p] = "idle"]
  /\ lockSeen' = IF p = Operator THEN NoProcess ELSE lockSeen

\* The process ends: its threads and its listener end with it, the files stay.
Gone(d) ==
  /\ Goto(d, "gone")
  /\ port' = IF port = d THEN NoProcess ELSE port
  /\ acquiring' = [acquiring EXCEPT ![d] = "none"]
  /\ held' = [held EXCEPT ![d] = FALSE]
  /\ worker' = [worker EXCEPT ![d] = "none"]
  /\ refusal' = [refusal EXCEPT ![d] = "none"]
  /\ Forget(d)

-----------------------------------------------------------------------------
(* clearDaemonState(expectedPid): three calls on the state file. *)

Clear(p, expected, next) ==
  /\ Goto(p, "exists")
  /\ seen' = [seen EXCEPT ![p] = expected]
  /\ after' = [after EXCEPT ![p] = next]
  /\ UNCHANGED lockSeen

\* A clear or a release is over: the caller goes on, or its process ends.
Return(p) ==
  IF after[p] = "gone" THEN Gone(p)
  ELSE Goto(p, after[p]) /\ Forget(p) /\ UNCHANGED <<port, client>>

Exists(p) ==
  /\ At(p, "exists")
  /\ IF stateFile = NoProcess THEN Return(p) ELSE Goto(p, "compare") /\ UNCHANGED <<port, reads, client>>
  /\ UNCHANGED <<files, met>>

\* A state file that is not there any more compares like the expected one.
Compare(p) ==
  /\ At(p, "compare")
  /\ IF stateFile \in {NoProcess, seen[p]} THEN Goto(p, "remove") /\ UNCHANGED <<port, reads, client>> ELSE Return(p)
  /\ UNCHANGED <<files, met>>

Remove(p) ==
  /\ At(p, "remove")
  /\ stateFile' = NoProcess
  /\ Return(p)
  /\ UNCHANGED <<lock, lockText, met>>

-----------------------------------------------------------------------------
(* daemon.js is loaded: the claim, the lock, the configuration, the store. *)

\* Nobody starts a daemon while the operator unlocks.
Start(d) ==
  /\ At(d, "off") /\ pc[Operator] \notin Unlocking
  /\ Goto(d, "claim")
  /\ UNCHANGED <<files, port, reads, client, met>>

ReadClaim(d) ==
  /\ At(d, "claim")
  /\ seen' = [seen EXCEPT ![d] = stateFile]
  /\ Goto(d, IF stateFile = NoProcess THEN "publish" ELSE "probe")
  /\ UNCHANGED <<files, port, lockSeen, after, client, met>>

\* The daemon that claimed runs: exit.  Otherwise its claim is stale and is cleared.
ProbeClaim(d) ==
  /\ At(d, "probe")
  /\ \E running \in Running(seen[d]) :
       IF running THEN Gone(d) ELSE Clear(d, seen[d], "publish") /\ UNCHANGED <<port, client>>
  /\ UNCHANGED <<files, met>>

\* writeDaemonState renames a complete file into place, or throws and the process ends.
Publish(d) ==
  /\ At(d, "publish")
  /\ \/ /\ stateFile' = d
        /\ Goto(d, "acquire")
        /\ acquiring' = [acquiring EXCEPT ![d] = "create"]
        /\ UNCHANGED <<port, reads, refusal, held, worker, met>>
     \/ Gone(d) /\ Meets(d, "failed") /\ UNCHANGED stateFile
  /\ UNCHANGED <<lock, lockText>>

\* acquireLock blocks the load; the acquisition of open() does not.
Acquired(d) == pc' = IF At(d, "acquire") THEN [pc EXCEPT ![d] = "config"] ELSE pc
Refused(d, why) ==
  /\ Acquired(d)
  /\ acquiring' = [acquiring EXCEPT ![d] = "none"]
  /\ refusal' = IF At(d, "acquire") THEN [refusal EXCEPT ![d] = why] ELSE refusal
  /\ UNCHANGED <<held, worker>>

\* The exclusive create: only a lock that is there is lock_present.
CreateLock(d) ==
  /\ acquiring[d] = "create"
  /\ \/ /\ lock = NoProcess /\ lock' = d /\ lockText' = FALSE
        /\ acquiring' = [acquiring EXCEPT ![d] = "write"]
        /\ UNCHANGED <<pc, refusal, held, worker>>
     \/ lock # NoProcess /\ Refused(d, "lock_present") /\ UNCHANGED <<lock, lockText>>
     \/ Refused(d, "lock_error") /\ UNCHANGED <<lock, lockText>>
  /\ UNCHANGED <<stateFile, port, reads, met>>

\* The text is written, synced and closed.  An open that waited for it spawns its worker.
WriteLock(d) ==
  /\ acquiring[d] = "write"
  /\ lockText' = (lock = d \/ lockText)
  /\ Acquired(d)
  /\ acquiring' = [acquiring EXCEPT ![d] = "none"]
  /\ held' = [held EXCEPT ![d] = TRUE]
  /\ worker' = [worker EXCEPT ![d] = IF pc[d] \in {"acquire", "closing"} THEN @ ELSE "opening"]
  /\ UNCHANGED <<stateFile, lock, port, reads, refusal, met>>

\* The file stays, with its text or without.
WriteLockFails(d) ==
  /\ acquiring[d] = "write"
  /\ \E text \in BOOLEAN : lockText' = IF lock = d THEN text ELSE lockText
  /\ Refused(d, "lock_error") /\ Meets(d, "failed")
  /\ UNCHANGED <<stateFile, lock, port, reads>>

\* A configuration that cannot be read: the lock is released and the process exits.
ReadConfig(d) ==
  /\ At(d, "config")
  /\ \/ Goto(d, "open") /\ UNCHANGED <<after, met>>
     \/ Goto(d, "verify") /\ after' = [after EXCEPT ![d] = "gone"] /\ Meets(d, "config")
  /\ UNCHANGED <<files, port, seen, lockSeen, client>>

\* A store whose lock is present is not opened; after a lock error open() tries once more.
OpenStore(d) ==
  /\ At(d, "open") /\ Goto(d, "bind")
  /\ worker' = [worker EXCEPT ![d] = IF held[d] THEN "opening" ELSE @]
  /\ acquiring' = [acquiring EXCEPT ![d] = IF held[d] \/ refusal[d] = "lock_present" THEN @ ELSE "create"]
  /\ refusal' = [refusal EXCEPT ![d] = "none"]
  /\ UNCHANGED <<files, port, reads, held, met>>

-----------------------------------------------------------------------------
(* The worker thread. *)

\* It reads the lock once more before it opens a file of the store.
VerifyLock(d) ==
  /\ worker[d] = "opening"
  /\ worker' = [worker EXCEPT ![d] = IF lock = d /\ lockText THEN "open" ELSE "unavailable"]
  /\ UNCHANGED <<files, port, pc, reads, acquiring, refusal, held, met>>

\* It is replaced within its budget, but by a client that closes.
WorkerExits(d) ==
  /\ worker[d] # "none"
  /\ \E next \in {"none"} \cup IF At(d, "closing") THEN {} ELSE {"opening"} : worker' = [worker EXCEPT ![d] = next]
  /\ UNCHANGED <<files, port, pc, reads, acquiring, refusal, held, met>>

-----------------------------------------------------------------------------
(* The listener and the end. *)

Listen(d) ==
  /\ At(d, "bind") /\ port = NoProcess
  /\ port' = d
  /\ Goto(d, "up")
  /\ UNCHANGED <<files, reads, client, met>>

\* Mutant: the process exits without closing the ledger client, as before #1207.
AddressInUseNotClosing(d) ==
  /\ At(d, "bind")
  /\ Clear(d, d, "exit")
  /\ UNCHANGED <<files, port, client, met>>

\* The port is another daemon's or another program's.
AddressInUse(d) ==
  /\ At(d, "bind")
  /\ Clear(d, d, "bailout")
  /\ UNCHANGED <<files, port, client, met>>

\* Any other error of the listener is thrown again, uncaught.
ListenFails(d) ==
  /\ At(d, "bind")
  /\ Clear(d, d, "exit") /\ Meets(d, "failed")
  /\ UNCHANGED <<files, port, client>>

\* SIGTERM or SIGINT.
Shutdown(d) ==
  /\ At(d, "up")
  /\ port' = NoProcess
  /\ Goto(d, "drain")
  /\ UNCHANGED <<files, reads, client, met>>

\* ledgerClient.close: no open after this.
Close(d) ==
  /\ pc[d] \in {"drain", "bailout"}
  /\ Goto(d, "closing")
  /\ after' = [after EXCEPT ![d] = IF At(d, "drain") THEN "clear" ELSE "exit"]
  /\ UNCHANGED <<files, port, seen, lockSeen, client, met>>

\* Mutant: the worker's answer is awaited without a deadline.
StopWorkerAnswered(d) ==
  /\ At(d, "closing") /\ acquiring[d] = "none" /\ worker[d] = "open"
  /\ worker' = [worker EXCEPT ![d] = "none"]
  /\ Goto(d, "verify")
  /\ UNCHANGED <<files, port, reads, acquiring, refusal, held, met>>

\* An acquisition is awaited, and the worker until it answers or for two seconds; then it is terminated.
StopWorker(d) ==
  /\ At(d, "closing") /\ acquiring[d] = "none"
  /\ worker' = [worker EXCEPT ![d] = "none"]
  /\ Goto(d, "verify")
  /\ UNCHANGED <<files, port, reads, acquiring, refusal, held, met>>

\* release: verify, then unlink.
Verify(d) ==
  /\ At(d, "verify")
  /\ IF held[d] /\ lock = d /\ lockText THEN Goto(d, "unlink") /\ UNCHANGED <<port, reads, client>> ELSE Return(d)
  /\ UNCHANGED <<files, met>>

\* It may fail; the lock stays.
Unlink(d) ==
  /\ At(d, "unlink") /\ Goto(d, "released")
  /\ \/ /\ lock' = NoProcess /\ lockText' = FALSE
        /\ held' = [held EXCEPT ![d] = FALSE]
        /\ UNCHANGED met
     \/ Meets(d, "failed") /\ UNCHANGED <<lock, lockText, held>>
  /\ UNCHANGED <<stateFile, port, reads, acquiring, refusal, worker>>

Released(d) == At(d, "released") /\ Return(d) /\ UNCHANGED <<files, met>>

\* shutdown clears its state, and so does the handler of 'exit'.
ClearOwn(d) ==
  /\ pc[d] \in {"clear", "exit"}
  /\ Clear(d, d, IF At(d, "clear") THEN "exit" ELSE "gone")
  /\ UNCHANGED <<files, port, client, met>>

\* SIGKILL, a crash, or a signal before there are handlers.
Kill(d) ==
  /\ Alive(d)
  /\ Gone(d) /\ Meets(d, "killed")
  /\ UNCHANGED files

-----------------------------------------------------------------------------
(* The operator's commands. *)

OperatorGoes(l) == Goto(Operator, l) /\ UNCHANGED <<files, port, after, client, met>>
OperatorStops == Goto(Operator, "idle") /\ Forget(Operator) /\ UNCHANGED <<files, port, client, met>>

\* `telepty ledger unlock --confirm`, while no daemon starts.
Unlock ==
  /\ At(Operator, "idle") /\ \A d \in Daemon : ~Loading(d) /\ acquiring[d] = "none"
  /\ seen' = [seen EXCEPT ![Operator] = stateFile]
  /\ OperatorGoes("readLock") /\ UNCHANGED lockSeen

ReadLock ==
  /\ At(Operator, "readLock")
  /\ IF lock = NoProcess THEN OperatorStops
     ELSE lockSeen' = (IF lockText THEN lock ELSE NoProcess) /\ OperatorGoes("checkState") /\ UNCHANGED seen

\* No daemon has the pid that was read: the next check.
UnlessRunning(pid, next) ==
  \E running \in Running(pid) :
    IF running THEN OperatorStops ELSE OperatorGoes(next) /\ UNCHANGED <<seen, lockSeen>>

CheckState == At(Operator, "checkState") /\ UnlessRunning(seen[Operator], "health")

\* A daemon that listens may answer too late.
ProbeHealth ==
  /\ At(Operator, "health")
  /\ \/ port # NoProcess /\ OperatorStops
     \/ OperatorGoes("checkLock") /\ UNCHANGED <<seen, lockSeen>>

\* Mutant: only the daemon of the state file is asked about, not the one in the lock.
CheckLockUnasked == At(Operator, "checkLock") /\ OperatorGoes("unlinkLock") /\ UNCHANGED <<seen, lockSeen>>

CheckLock == At(Operator, "checkLock") /\ UnlessRunning(lockSeen, "unlinkLock")

\* The unlink fails as well when the lock is gone meanwhile.
UnlinkLock ==
  /\ At(Operator, "unlinkLock")
  /\ \/ lock' = NoProcess /\ lockText' = FALSE
     \/ UNCHANGED <<lock, lockText>>
  /\ Goto(Operator, "idle") /\ Forget(Operator)
  /\ UNCHANGED <<stateFile, port, client, met>>

\* The end of cleanupDaemonProcesses: a state file whose daemon does not run is cleared.
Sweep ==
  /\ At(Operator, "idle") /\ stateFile # NoProcess
  /\ seen' = [seen EXCEPT ![Operator] = stateFile]
  /\ OperatorGoes("sweep") /\ UNCHANGED lockSeen

ProbeSweep ==
  /\ At(Operator, "sweep")
  /\ \E running \in Running(seen[Operator]) :
       IF running THEN OperatorStops
       ELSE Clear(Operator, seen[Operator], "idle") /\ UNCHANGED <<files, port, client, met>>

-----------------------------------------------------------------------------
Load(d) == ReadClaim(d) \/ ProbeClaim(d) \/ Publish(d) \/ ReadConfig(d) \/ OpenStore(d)
Acquire(d) == CreateLock(d) \/ WriteLock(d) \/ WriteLockFails(d)
Serve(d) == Listen(d) \/ AddressInUse(d) \/ ListenFails(d)
End(d) == Close(d) \/ StopWorker(d) \/ Verify(d) \/ Unlink(d) \/ Released(d) \/ ClearOwn(d)
ClearStep(p) == Exists(p) \/ Compare(p) \/ Remove(p)
Environment(d) == Start(d) \/ WorkerExits(d) \/ Shutdown(d) \/ Kill(d)
Command == Unlock \/ ReadLock \/ CheckState \/ ProbeHealth \/ CheckLock \/ UnlinkLock \/ Sweep \/ ProbeSweep

LifecycleNext ==
  \/ \E d \in Daemon :
       Load(d) \/ Acquire(d) \/ VerifyLock(d) \/ Serve(d) \/ End(d) \/ ClearStep(d) \/ Environment(d)
  \/ Command \/ ClearStep(Operator)

LifecycleSpec == LifecycleInit /\ [][LifecycleNext]_lifecycleVars

\* A daemon runs and its calls on files return; nobody has to start, stop or kill one.
LifecycleFairness ==
  \A d \in Daemon :
    WF_lifecycleVars(Load(d) \/ Serve(d) \/ End(d) \/ ClearStep(d)) /\ WF_lifecycleVars(Acquire(d)) /\ WF_lifecycleVars(VerifyLock(d))

LifecycleFairSpec == LifecycleSpec /\ LifecycleFairness

-----------------------------------------------------------------------------
\* Types of the variables.
LifecycleTypeOK ==
  /\ stateFile \in Daemon \cup {NoProcess} /\ lock \in Daemon \cup {NoProcess} /\ port \in Daemon \cup {NoProcess}
  /\ lockText \in BOOLEAN /\ (lockText => lock # NoProcess)
  /\ pc \in [Process ->
       {"off", "claim", "probe", "publish", "acquire", "config", "open", "bind", "up", "drain", "bailout",
        "closing", "verify", "unlink", "released", "clear", "exit", "gone", "idle", "sweep"}
       \cup Clearing \cup Unlocking]
  /\ seen \in [Process -> Daemon \cup {NoProcess}] /\ lockSeen \in Daemon \cup {NoProcess}
  /\ after \in [Process -> {"publish", "bailout", "clear", "exit", "gone", "idle"}]
  /\ acquiring \in [Daemon -> {"none", "create", "write"}]
  /\ refusal \in [Daemon -> {"none", "lock_present", "lock_error"}]
  /\ held \in [Daemon -> BOOLEAN]
  /\ worker \in [Daemon -> {"none", "opening", "open", "unavailable"}]
  /\ met \in [Daemon -> SUBSET {"config", "failed", "killed"}]

\* A worker that has the store open has its daemon's lock on the disk, whatever other daemons
\* claim, fail and exit meanwhile and whatever the operator unlocks; so two workers, of one
\* daemon's restart or of two daemons, never write the store together (ledger-lock.js:3-7).
OwnerHoldsLock == \A d \in Daemon : worker[d] = "open" => lock = d /\ lockText

\* A daemon that ends by itself, and was neither killed nor failed by a call, leaves no lock, so
\* the next one is not lock_present (daemon.js:1154, 2534, 2616); and unless it could not read its
\* configuration it leaves no claim.
ExitLeavesNothing ==
  \A d \in Daemon : At(d, "gone") =>
    /\ lock = d => met[d] \cap {"failed", "killed"} # {}
    /\ stateFile = d => met[d] # {}

\* A daemon that is told to stop, or finds its port taken, ends: neither an acquisition nor a
\* worker that is gone or does not answer holds it up (ledger-client.js:494-525).
StopCompletes == \A d \in Daemon : (pc[d] \in {"drain", "bailout"}) ~> At(d, "gone")
=============================================================================
