-------------------------------- MODULE Clean --------------------------------
(***************************************************************************)
(* capybase clean (cleanup.py) beside in-place runs: what they leave in    *)
(* the repository (session journals, recovery refs, backup branches, a     *)
(* stopped rebase), and the checks clean makes before it removes all of    *)
(* it: the run lock of module RunLock, git's rebase in progress and the    *)
(* attribution of that rebase to a crashed session.  Candidate branches    *)
(* and their worktrees are module CandidateRef's.                          *)
(***************************************************************************)
EXTENDS RunLock, FiniteSets

CONSTANTS
    Repo,       \* the directory that is cleaned
    MaxTime,    \* bound: the clock of the file times
    Slack       \* how much older than the rebase a journal may be (300 s)

ASSUME CleanAssumption == Repo \in Dir /\ MaxTime \in Nat /\ Slack \in Nat

Time == 0..MaxTime

\* A session is named by the birth of the process that ran it; 0 is the user.
Session == Born
User == 0

\* The last event of a session's journal closes the session, or does not.
Entry     == [closed: BOOLEAN, at: Time]
NoJournal == [none |-> "journal"]

Rebase   == [by: Session \union {User}, at: Time]
NoRebase == [none |-> "rebase"]

VARIABLES
    journal,    \* journal[s]: the journal of session s in .rebase-agent/sessions
    startRefs,  \* sessions with a recovery ref refs/rebase-agent/<s>/start
    backups,    \* sessions with a branch capybase/backup/...
    rebase,     \* the rebase in progress in the repository
    at,         \* at[p]: whether p has begun to write, and to work on a rebase
    clock,      \* file times
    cleaning,   \* where clean is
    found,      \* the recovery refs and backup branches it took stock of
    \* History, for the properties:
    crossed,    \* directories where runs that have passed their check missed a lock
    beside,     \* sessions under way while clean had looked for a rebase, but not
                \* taken stock yet
    recent      \* sessions that left something new since clean last took stock

sessions == <<journal, startRefs, backups, rebase, at>>
cleanVars == <<cleaning, found>>
history == <<crossed, beside, recent>>
repoVars == <<lockVars, sessions, clock, cleanVars, history>>

Nothing == [refs |-> {}, branches |-> {}]

CleanInit ==
    /\ LockInit
    /\ journal = [s \in Session |-> NoJournal]
    /\ startRefs = {} /\ backups = {}
    /\ rebase = NoRebase
    /\ at = [p \in Process |-> "outset"]
    /\ clock = 0
    /\ cleaning = "no" /\ found = Nothing
    /\ crossed = {} /\ beside = {} /\ recent = {}

-------------------------------------------------------------------------------
\* Runs.

LaunchRun(p, d) ==
    /\ Launch(p, d)
    /\ UNCHANGED <<sessions, clock, cleanVars>>

\* A process checks the lock, is refused, or takes it.
LockRun(p, written) ==
    /\ Refuse(p) \/ Check(p) \/ Enter(p, written)
    /\ UNCHANGED <<sessions, clock, cleanVars>>

Running(p) == state[p] = "running" /\ cwd[p] = Repo

Journal(p, closed) == [journal EXCEPT ![born[p]] = [closed |-> closed, at |-> clock]]

\* rebase --in-place: journal, recovery ref and backup branch; the baseline of the
\* tests is taken after them.
Prepare(p) ==
    /\ Running(p) /\ at[p] = "outset"
    /\ journal' = Journal(p, FALSE)
    /\ startRefs' = startRefs \union {born[p]}
    /\ backups' = backups \union {born[p]}
    /\ at' = [at EXCEPT ![p] = "prepared"]
    /\ UNCHANGED <<lockVars, rebase, clock, cleanVars>>

\* Git stops at the first conflict.
BeginRebase(p) ==
    /\ Running(p) /\ at[p] = "prepared" /\ rebase = NoRebase
    /\ journal' = Journal(p, FALSE)
    /\ rebase' = [by |-> born[p], at |-> clock]
    /\ at' = [at EXCEPT ![p] = "works"]
    /\ UNCHANGED <<lockVars, startRefs, backups, clock, cleanVars>>

\* capybase run on a rebase that is stopped: a journal, no recovery ref.
Attach(p) ==
    /\ Running(p) /\ at[p] = "outset" /\ rebase # NoRebase
    /\ journal' = Journal(p, FALSE)
    /\ at' = [at EXCEPT ![p] = "works"]
    /\ UNCHANGED <<lockVars, startRefs, backups, rebase, clock, cleanVars>>

Works(p) == Running(p) /\ at[p] = "works"
Forget(p) == at' = [at EXCEPT ![p] = "outset"]

\* Journal events while the conflicts are resolved.  Each makes the journal anew if
\* it has been removed.
Progress(p) ==
    /\ Works(p) /\ rebase # NoRebase
    /\ journal' = Journal(p, FALSE)
    /\ rebase' = [rebase EXCEPT !.at = clock]
    /\ UNCHANGED <<lockVars, startRefs, backups, at, clock, cleanVars>>

\* session_completed is the last event only of a session that completed, or found
\* its rebase gone.  An escalated one ends with rebase_aborted, or, when the rebase
\* is left stopped for the user, with whatever came last.
Close(p, completed, leaves) ==
    /\ Works(p) /\ ~(completed /\ leaves)
    /\ journal' = Journal(p, completed)
    /\ rebase' = IF leaves THEN rebase ELSE NoRebase
    /\ Forget(p) /\ Exit(p)
    /\ UNCHANGED <<startRefs, backups, clock, cleanVars>>

\* A run that never came to a rebase ends; one whose rebase git would not start says so.
EndWithoutRebase(p) ==
    /\ state[p] = "running" /\ ~Works(p)
    /\ journal' = IF Running(p) /\ at[p] = "prepared" THEN Journal(p, FALSE) ELSE journal
    /\ Forget(p) /\ Exit(p)
    /\ UNCHANGED <<startRefs, backups, rebase, clock, cleanVars>>

CrashRun(p) ==
    /\ Forget(p) /\ Crash(p)
    /\ UNCHANGED <<journal, startRefs, backups, rebase, clock, cleanVars>>

\* The user rebases on their own, and finishes or aborts what is stopped.
UserRebases ==
    /\ rebase = NoRebase
    /\ rebase' = [by |-> User, at |-> clock]
    /\ UNCHANGED <<lockVars, journal, startRefs, backups, at, clock, cleanVars>>

UserSettles ==
    /\ rebase # NoRebase
    /\ ~\E p \in Process : Running(p)
    /\ rebase' = NoRebase
    /\ UNCHANGED <<lockVars, journal, startRefs, backups, at, clock, cleanVars>>

Tick ==
    /\ clock < MaxTime
    /\ clock' = clock + 1
    /\ UNCHANGED <<lockVars, sessions, cleanVars>>

CopyRepository(d, e) ==
    /\ d = Repo \/ e # Repo
    /\ CopyDirectory(d, e)
    /\ UNCHANGED <<sessions, clock, cleanVars>>

-------------------------------------------------------------------------------
\* clean.

\* The lock first: an active run is never touched.
StartClean ==
    /\ cleaning = "no"
    /\ ~Live(Repo)
    /\ cleaning' = "operation"
    /\ UNCHANGED <<lockVars, sessions, clock, found>>

\* _unfinished_capybase_session: the newest journal whose last event does not
\* close its session.
Open == {s \in Session : journal[s] # NoJournal /\ ~journal[s].closed}
Newest(s) == s \in Open /\ \A t \in Open : journal[t].at <= journal[s].at

\* _try_abort_capybase_rebase: that session has a recovery ref, and its journal
\* is not older than the rebase by more than the slack.
Attributed ==
    \E s \in Session :
        Newest(s) /\ s \in startRefs /\ journal[s].at + Slack >= rebase.at

\* Mutant: an operation in progress that is not attributed is no obstacle.
CheckOperation_Proceeds(flag) ==
    /\ cleaning = "operation"
    /\ rebase' = IF rebase # NoRebase /\ (Attributed \/ flag) THEN NoRebase ELSE rebase
    /\ cleaning' = "inventory"
    /\ UNCHANGED <<lockVars, journal, startRefs, backups, at, clock, found>>

\* A rebase in progress is aborted when it is attributed, or with
\* --abort-in-progress (flag); otherwise clean refuses.
CheckOperation(flag) ==
    /\ cleaning = "operation"
    /\ \/ /\ rebase = NoRebase
          /\ cleaning' = "inventory" /\ UNCHANGED rebase
       \/ /\ rebase # NoRebase /\ (Attributed \/ flag)
          /\ rebase' = NoRebase
          /\ cleaning' = "inventory"
       \/ /\ rebase # NoRebase /\ ~Attributed /\ ~flag
          /\ cleaning' = "no" /\ UNCHANGED rebase
    /\ UNCHANGED <<lockVars, journal, startRefs, backups, at, clock, found>>

\* Mutant: only what crashed sessions left is taken stock of.
Inventory_OfCrashed ==
    /\ cleaning = "inventory"
    /\ found' = [refs |-> startRefs \cap Open, branches |-> backups \cap Open]
    /\ cleaning' = "branches"
    /\ UNCHANGED <<lockVars, sessions, clock>>

Inventory ==
    /\ cleaning = "inventory"
    /\ found' = [refs |-> startRefs, branches |-> backups]
    /\ cleaning' = "branches"
    /\ UNCHANGED <<lockVars, sessions, clock>>

RemoveBranches ==
    /\ cleaning = "branches"
    /\ backups' = backups \ found.branches
    /\ cleaning' = "refs"
    /\ UNCHANGED <<lockVars, journal, startRefs, rebase, at, clock, found>>

RemoveRefs ==
    /\ cleaning = "refs"
    /\ startRefs' = startRefs \ found.refs
    /\ cleaning' = "state"
    /\ UNCHANGED <<lockVars, journal, backups, rebase, at, clock, found>>

\* rmtree(.rebase-agent): every journal, and the run lock with them.
RemoveState ==
    /\ cleaning = "state"
    /\ journal' = [s \in Session |-> NoJournal]
    /\ lock' = [lock EXCEPT ![Repo] = NoLock]
    /\ cleaning' = "done"
    /\ UNCHANGED <<state, born, cwd, births, startRefs, backups, rebase, at, clock, found>>

\* clean is over, or was killed on the way.
EndClean ==
    /\ cleaning # "no"
    /\ cleaning' = "no" /\ found' = Nothing
    /\ UNCHANGED <<lockVars, sessions, clock>>

-------------------------------------------------------------------------------
RunStep(p) ==
    \/ \E d \in Dir : LaunchRun(p, d)
    \/ \E written \in BOOLEAN : LockRun(p, written)
    \/ Prepare(p) \/ BeginRebase(p) \/ Attach(p) \/ Progress(p)
    \/ \E completed, leaves \in BOOLEAN : Close(p, completed, leaves)
    \/ EndWithoutRebase(p) \/ CrashRun(p)

CleanStep ==
    \/ StartClean \/ (\E flag \in BOOLEAN : CheckOperation(flag)) \/ Inventory
    \/ RemoveBranches \/ RemoveRefs \/ RemoveState \/ EndClean

RepoStep ==
    \/ \E p \in Process : RunStep(p)
    \/ CleanStep
    \/ UserRebases \/ UserSettles \/ Tick
    \/ \E d, e \in Dir : CopyRepository(d, e)

\* The three ways in which a run in d comes to be without a lock the others can see:
\* it is checked for between another's check and write, its write fails, or a clean
\* that looked before takes it.
Missed(d) ==
    \/ \E p, q \in Process :
         /\ p # q /\ cwd[p] = d /\ cwd[q] = d
         /\ state[p] = "starting" /\ state'[p] = "checked" /\ state[q] = "checked"
    \/ \E p \in Process :
         cwd[p] = d /\ state[p] = "checked" /\ state'[p] = "running" /\ UNCHANGED lock
    \/ d = Repo /\ cleaning = "state" /\ cleaning' = "done" /\ \E p \in Process : Running(p)

Past(p) == state[p] \in {"checked", "running"}
Active == {born[p] : p \in {q \in Process : Running(q)}}
Under == Active \union {s \in Session : rebase # NoRebase /\ rebase.by = s}
TookStock == cleaning \in {"branches", "refs", "state", "done"}

\* What a directory went through is over once nobody is past the check there.
Remember ==
    /\ crossed' = {d \in Dir : /\ (d \in crossed \/ Missed(d))
                               /\ (\E p \in Process : Past(p)' /\ cwd'[p] = d)}
    /\ beside' = IF cleaning' = "inventory" THEN (beside \cap Under') \union Active'
                  ELSE beside \cap Under'
    /\ recent' = IF ~TookStock \/ ~TookStock' THEN {}
                  ELSE recent \union (startRefs' \ startRefs) \union (backups' \ backups)
                       \union {s \in Session : journal[s] = NoJournal /\ journal'[s] # NoJournal}

CleanNext == RepoStep /\ Remember

CleanSpec == CleanInit /\ [][CleanNext]_repoVars

-------------------------------------------------------------------------------
\* Every variable has its type.
CleanTypeOK ==
    /\ LockTypeOK
    /\ journal \in [Session -> Entry \union {NoJournal}]
    /\ startRefs \subseteq Session /\ backups \subseteq Session
    /\ rebase \in Rebase \union {NoRebase}
    /\ at \in [Process -> {"outset", "prepared", "works"}]
    /\ clock \in Time
    /\ cleaning \in {"no", "operation", "inventory", "branches", "refs", "state", "done"}
    /\ found \in [refs: SUBSET Session, branches: SUBSET Session]
    /\ crossed \subseteq Dir /\ beside \subseteq Session /\ recent \subseteq Session

\* Whatever crashes, copies, cleans and starts interleave, a second run comes into a
\* directory only while a run there has missed the lock or been robbed of it, in one
\* of the three ways of Missed.
SecondRunMissedTheLock ==
    \A p, q \in Process :
        state[p] = "running" /\ state[q] = "running" /\ cwd[p] = cwd[q] /\ p # q
          => cwd[p] \in crossed

\* While a rebase a session started is in progress, running, left for the user
\* or crashed, its recovery ref and its backup branch are there, also when clean runs
\* beside it: only a session that was under way just when clean had found no rebase
\* and was about to take stock can lose them.
RecoveryWhileRebasing ==
    rebase # NoRebase /\ rebase.by \notin beside \union {User}
        => rebase.by \in startRefs /\ rebase.by \in backups

\* A clean that ran to its end leaves no journal, recovery ref or backup branch but
\* what sessions have written since it took stock, whether theirs completed, escalated
\* or crashed, and whatever an earlier, killed clean had begun to remove.
CleanLeavesNothing ==
    cleaning = "done" =>
        startRefs \union backups \union {s \in Session : journal[s] # NoJournal} \subseteq recent
===============================================================================
