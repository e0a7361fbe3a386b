------------------------------- MODULE RunLock -------------------------------
(***************************************************************************)
(* The run lock (runlock.py): a file in the repository's state directory   *)
(* that names the process running there.  It is read to refuse a second    *)
(* run and to refuse cleaning; it is never removed for a crashed process,  *)
(* so what counts is whether the process it names still is the one that    *)
(* wrote it, in this directory.                                            *)
(***************************************************************************)
EXTENDS Naturals

CONSTANTS
    Process,    \* process ids; the system reuses them
    Dir,        \* directories that hold a repository, copies included
    MaxBorn     \* bound: processes started, hence start times

ASSUME LockAssumption == MaxBorn \in Nat

Born == 1..MaxBorn

\* What the lock file of a directory says.
Record == [pid: Process, born: Born, dir: Dir]
NoLock == [none |-> "lock"]

VARIABLES
    lock,       \* lock[d]: the lock file in directory d
    state,      \* state[p]: "dead", "starting", "checked", "running"
    born,       \* born[p]: the start time of the process with id p, 0 if none
    cwd,        \* cwd[p]: the repository it works on
    births      \* processes started so far

lockVars == <<lock, state, born, cwd, births>>

-------------------------------------------------------------------------------
Alive(p) == state[p] # "dead"

\* Mutant: the start time is not compared.
Live_AnyStart(d) ==
    lock[d] # NoLock /\ Alive(lock[d].pid) /\ lock[d].dir = d

\* live_lock: the process is alive, is the one that wrote the lock (start time),
\* and wrote it for this directory.
Live(d) ==
    /\ lock[d] # NoLock
    /\ Alive(lock[d].pid)
    /\ born[lock[d].pid] = lock[d].born
    /\ lock[d].dir = d

LockInit ==
    /\ lock = [d \in Dir |-> NoLock]
    /\ state = [p \in Process |-> "dead"]
    /\ born = [p \in Process |-> 0]
    /\ cwd \in [Process -> Dir]
    /\ births = 0

\* capybase manual, run or rebase is started in d; its id may have been used.
Launch(p, d) ==
    /\ ~Alive(p) /\ births < MaxBorn
    /\ births' = births + 1
    /\ state' = [state EXCEPT ![p] = "starting"]
    /\ born' = [born EXCEPT ![p] = births + 1]
    /\ cwd' = [cwd EXCEPT ![p] = d]
    /\ UNCHANGED lock

\* run_lock_guard.__enter__ reads the lock: refused, or free to go on.
Refuse(p) ==
    /\ state[p] = "starting" /\ Live(cwd[p])
    /\ state' = [state EXCEPT ![p] = "dead"] /\ born' = [born EXCEPT ![p] = 0]
    /\ UNCHANGED <<lock, cwd, births>>

\* Mutant: a live lock is overwritten like a stale one.
Check_Unasked(p) ==
    /\ state[p] = "starting"
    /\ state' = [state EXCEPT ![p] = "checked"]
    /\ UNCHANGED <<lock, born, cwd, births>>

Check(p) ==
    /\ state[p] = "starting" /\ ~Live(cwd[p])
    /\ state' = [state EXCEPT ![p] = "checked"]
    /\ UNCHANGED <<lock, born, cwd, births>>

\* ... and writes it, over whatever is there.  A write that fails is ignored.
Enter(p, written) ==
    /\ state[p] = "checked"
    /\ state' = [state EXCEPT ![p] = "running"]
    /\ lock' = IF written
               THEN [lock EXCEPT ![cwd[p]] = [pid |-> p, born |-> born[p], dir |-> cwd[p]]]
               ELSE lock
    /\ UNCHANGED <<born, cwd, births>>

\* __exit__ removes the lock file, whoever wrote it, and the process ends.
Exit(p) ==
    /\ state[p] = "running"
    /\ state' = [state EXCEPT ![p] = "dead"] /\ born' = [born EXCEPT ![p] = 0]
    /\ lock' = [lock EXCEPT ![cwd[p]] = NoLock]
    /\ UNCHANGED <<cwd, births>>

\* Killed, or the machine rebooted: the lock file stays.
Crash(p) ==
    /\ Alive(p)
    /\ state' = [state EXCEPT ![p] = "dead"] /\ born' = [born EXCEPT ![p] = 0]
    /\ UNCHANGED <<lock, cwd, births>>

\* cp -r: a directory nobody works in becomes a copy of another, lock included.
CopyDirectory(d, e) ==
    /\ d # e
    /\ \A p \in Process : Alive(p) => cwd[p] # e
    /\ lock' = [lock EXCEPT ![e] = lock[d]]
    /\ UNCHANGED <<state, born, cwd, births>>

LockStep(p) == Refuse(p) \/ Check(p) \/ (\E written \in BOOLEAN : Enter(p, written)) \/ Exit(p)

LockNext ==
    \/ \E p \in Process : LockStep(p) \/ Crash(p) \/ \E d \in Dir : Launch(p, d)
    \/ \E d, e \in Dir : CopyDirectory(d, e)

LockSpec == LockInit /\ [][LockNext]_lockVars

-------------------------------------------------------------------------------
\* Every variable has its type; a process that is alive has a start time.
LockTypeOK ==
    /\ lock \in [Dir -> Record \union {NoLock}]
    /\ state \in [Process -> {"dead", "starting", "checked", "running"}]
    /\ born \in [Process -> Born \union {0}]
    /\ cwd \in [Process -> Dir]
    /\ births \in 0..MaxBorn
    /\ \A p \in Process : Alive(p) => born[p] # 0

\* A lock that reads as live stands for a run that is under way in this very
\* directory: no crash, reuse of its process id or copy of the directory makes
\* clean or a new run refuse for a process that is not there.
LiveMeansRunning ==
    \A d \in Dir : Live(d) => state[lock[d].pid] = "running" /\ cwd[lock[d].pid] = d
===============================================================================
