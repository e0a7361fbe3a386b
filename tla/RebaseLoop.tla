------------------------------ MODULE RebaseLoop ------------------------------
(***************************************************************************)
(* One session of `capybase rebase` (orchestrator.py: rebase, run and      *)
(* interactive_resolve): git replays the picks of a branch and stops at    *)
(* each one that conflicts; every stop is resolved, gated and continued,   *)
(* escalations go to the human at the terminal and then to git rebase      *)
(* --abort.  Git itself is modelled from how git_backend.py uses it.       *)
(***************************************************************************)
EXTENDS Naturals, FiniteSets

CONSTANTS
    File,           \* the files of the repository
    Picks,          \* the number of commits to replay
    MultiUnit,      \* files whose conflicts have more than one unit
    Misleading,     \* the sets of picks whose subject lines may read like git's
                    \* "nothing to commit"
    Policies,       \* the policies of the completion scans: "warn", "stop"
    MaxGlitch       \* bound: what fails for a passing reason (a lock held by another
                    \* process, a file half written): continues, reads of the position

ASSUME RebaseAssumption ==
    /\ Picks \in Nat \ {0} /\ MaxGlitch \in Nat
    /\ MultiUnit \subseteq File /\ Misleading \subseteq SUBSET (1..Picks)
    /\ Policies \subseteq {"warn", "stop"}

Pick == 1..Picks

\* How a pick meets a file: no conflict, one capybase can extract units from,
\* or one it does not support.
Conflict == {"none", "units", "unsupported"}

\* A file at a stop: not in conflict; unmerged with markers; unmerged but already
\* written without markers; unmerged and unsupported; staged; staged with
\* markers left in it.
FileState == {"none", "raw", "written", "opaque", "staged", "marked"}

\* What became of a pick: not replayed yet; committed; committed with conflict
\* markers; dropped because its resolution left nothing; dropped although it
\* still had changes to make.
Fate == {"todo", "applied", "marked", "empty", "lost"}

VARIABLES
    conflicts,  \* conflicts[p][f]: how pick p meets file f
    mode,       \* --no-interactive, --no-abort-on-escalation, the scan policy, and
                \* the picks with a misleading subject
    git,        \* git's state: place, pos, fate, file, and whether it refuses to
                \* continue from this index for good (a hook)
    pc,         \* where capybase is
    guarded,    \* inside the try block that aborts on an interruption
    menu,       \* files whose units the current result carries
    stuck,      \* consecutive continues without progress
    known,      \* whether the head and position of the last continue are known
    fresh,      \* whether run() made a step since the human was last asked
    glitches,   \* what failed for a passing reason so far
    outcome     \* how the session ended

vars == <<conflicts, mode, git, pc, guarded, menu, stuck, known, fresh, glitches, outcome>>
setup == <<conflicts, mode>>

Mode == [interactive: BOOLEAN, abort: BOOLEAN, policy: Policies, subjects: Misleading]

Conflicting(p) == \E f \in File : conflicts[p][f] # "none"

InProgress(g) == g.place = "stopped"
Committed(g) == {p \in Pick : g.fate[p] \in {"applied", "marked"}}
Unmerged(g) == {f \in File : g.file[f] \in {"raw", "written", "opaque"}}
Units(g)    == {f \in File : g.file[f] = "raw"}

NoFiles == [f \in File |-> "none"]
Start   == [place |-> "start", pos |-> 0, fate |-> [p \in Pick |-> "todo"], file |-> NoFiles,
            refuses |-> FALSE]

-------------------------------------------------------------------------------
\* Git.

\* Replaying goes on after pick q: up to the next conflicting pick, or to the end.
Proceed(g, q) ==
    LET stops == {p \in Pick : p > q /\ Conflicting(p)}
        next  == CHOOSE p \in stops : \A r \in stops : p <= r
        clean == {p \in Pick : p > q /\ \A r \in stops : p < r}
        fate  == [p \in Pick |-> IF p \in clean THEN "applied" ELSE g.fate[p]]
        AtStop(f) == CASE conflicts[next][f] = "none" -> "none"
                       [] conflicts[next][f] = "units" -> "raw"
                       [] conflicts[next][f] = "unsupported" -> "opaque"
    IN  IF stops = {}
        THEN [place |-> "rebased", pos |-> 0, fate |-> fate, file |-> NoFiles,
              refuses |-> FALSE]
        ELSE [place |-> "stopped", pos |-> next, fate |-> fate,
              file |-> [f \in File |-> AtStop(f)], refuses |-> FALSE]

\* The current pick is committed, or leaves the series, and replaying goes on.
Leave(g, fate) == Proceed([g EXCEPT !.fate[g.pos] = fate], g.pos)

\* git rebase --continue: the new state, whether it returned 0, whether it said
\* that the pick is empty, and the picks whose subject lines it printed.
Answer(g, ok, empty, printed) == [git |-> g, ok |-> ok, empty |-> empty, printed |-> printed]

Replayed(g, fate, printed) ==
    LET after == Leave(g, fate)
    IN  Answer(after, ~InProgress(after), FALSE,
               IF InProgress(after) THEN printed \union {after.pos} ELSE printed)

Refuses(g) == Answer(g, FALSE, FALSE, {})

\* With everything staged git commits, drops an empty pick or refuses it as
\* empty, depending on its version, or refuses to commit from now on.
Answers(g) ==
    LET refused == Refuses([g EXCEPT !.refuses = TRUE]) IN
    IF Unmerged(g) # {} \/ g.refuses THEN {Refuses(g)}
    ELSE IF \E f \in File : g.file[f] = "marked"
    THEN {Replayed(g, "marked", {g.pos}), refused}
    ELSE {Replayed(g, "applied", {g.pos}), refused,
          Replayed(g, "empty", {}), Answer(g, FALSE, TRUE, {})}

\* git rebase --skip: fair for a pick that is empty, a loss for one that is not.
Skip(g, empty) == Leave(g, IF empty THEN "empty" ELSE "lost")

-------------------------------------------------------------------------------
Init ==
    /\ conflicts \in [Pick -> [File -> Conflict]]
    /\ mode \in Mode
    /\ git = Start
    /\ pc = "start" /\ guarded = FALSE /\ menu = {}
    /\ stuck = 0 /\ known = FALSE /\ fresh = TRUE /\ glitches = 0
    /\ outcome = "none"

End(how) == pc' = "ended" /\ outcome' = how /\ guarded' = FALSE

\* A step of run() escalates; its result carries the units of files.
Escalate(files) ==
    /\ pc' = "offer" /\ guarded' = FALSE
    /\ menu' = files

\* run() is entered: no earlier continue to compare with.
EnterRun == pc' = "resolve" /\ stuck' = 0 /\ known' = FALSE /\ fresh' = TRUE

\* git rebase is started; it may refuse, finish at once, or stop.
StartRebase(accepted) ==
    /\ pc = "start"
    /\ git' = IF accepted THEN Proceed(git, 0) ELSE git
    /\ \/ ~accepted /\ End("error") /\ UNCHANGED <<stuck, known, fresh>>
       \/ accepted /\ ~InProgress(git') /\ pc' = "scan"
             /\ UNCHANGED <<guarded, stuck, known, fresh, outcome>>
       \/ InProgress(git') /\ EnterRun /\ guarded' = TRUE /\ UNCHANGED outcome
    /\ UNCHANGED <<setup, menu, glitches>>

\* The resurrection scan of a rebase without conflicts; under "stop" the branch
\* is reset to its backup.
ScanClean(found) ==
    /\ pc = "scan"
    /\ IF found /\ mode.policy = "stop"
       THEN git' = Start /\ End("escalated")
       ELSE git' = git /\ End("completed")
    /\ UNCHANGED <<setup, menu, stuck, known, fresh, glitches>>

-------------------------------------------------------------------------------
\* run(): one step.  _resolve_step gathers the conflicted files again, resolves
\* and writes all of them, then validates and stages them one by one.

NothingToResolve ==
    /\ pc = "resolve" /\ Unmerged(git) = {}
    /\ pc' = "gate" /\ menu' = {}
    /\ UNCHANGED <<setup, git, guarded, stuck, known, fresh, glitches, outcome>>

\* Unsupported files, and files left unmerged but without markers, have no units.
NoUnits ==
    /\ pc = "resolve" /\ Unmerged(git) # {} /\ Units(git) = {}
    /\ Escalate({})
    /\ UNCHANGED <<setup, git, stuck, known, fresh, glitches, outcome>>

Files(staged, written) ==
    [git EXCEPT !.file = [f \in File |-> IF f \in staged THEN "staged"
                                         ELSE IF f \in written THEN "written" ELSE @[f]]]

\* A unit of some file is not resolved; the files before it are written, and
\* a probe may have written over that file, too.
ResolutionFails(written) ==
    /\ pc = "resolve" /\ Units(git) # {}
    /\ written \subseteq Units(git)
    /\ git' = Files({}, written)
    /\ Escalate(Units(git))
    /\ UNCHANGED <<setup, stuck, known, fresh, glitches, outcome>>

\* A file fails its validation; the files before it are staged.  With the ship
\* gate's fresh pass the step returns at the same place, not escalated.
ValidationFails(staged, gatePasses) ==
    /\ pc = "resolve"
    /\ staged \subseteq Units(git) /\ staged # Units(git)
    /\ git' = Files(staged, Units(git))
    /\ IF gatePasses THEN pc' = "gate" /\ menu' = Units(git) /\ UNCHANGED guarded
                     ELSE Escalate(Units(git))
    /\ UNCHANGED <<setup, stuck, known, fresh, glitches, outcome>>

\* Every file is staged; an unsupported one still escalates the step.
Resolves ==
    /\ pc = "resolve" /\ Units(git) # {}
    /\ git' = Files(Units(git), {})
    /\ IF Unmerged(git') = {} THEN pc' = "gate" /\ menu' = Units(git) /\ UNCHANGED guarded
                              ELSE Escalate(Units(git))
    /\ UNCHANGED <<setup, stuck, known, fresh, glitches, outcome>>

\* The pre-continue tests, the compiler's authority and its one repair, and the
\* future-apply probe: together they let the step pass or escalate it.
Gate(passes) ==
    /\ pc = "gate"
    /\ IF passes THEN pc' = "continue" /\ UNCHANGED <<guarded, menu>> ELSE Escalate(menu)
    /\ UNCHANGED <<setup, git, stuck, known, fresh, glitches, outcome>>

\* Mutant: the CONFLICT hint, "... run git rebase --skip", counts as empty.
ReadsEmpty_Hint(a) == a.empty \/ a.printed # {}

\* _rebase_continue_empty looks for "nothing to commit" and the like anywhere in
\* what git printed, subject lines included.
ReadsEmpty(a) == a.empty \/ a.printed \cap mode.subjects # {}

MaxStuck == 3

Wedged(n) == n >= MaxStuck

\* The head moved, or the position of a rebase still in progress did: a rebase
\* that has finished has no position.
Progressed(before, after) ==
    \/ Committed(after) # Committed(before)
    \/ InProgress(after) /\ after.pos # before.pos

\* continue_rebase, the skip of an empty pick, and the stuck-loop guard; a
\* position that cannot be read counts as progress.
Continue(a, unread) ==
    LET skips == ~a.ok /\ InProgress(a.git) /\ ReadsEmpty(a)
        g == IF skips THEN Skip(a.git, a.empty) ELSE a.git
        unknown == unread /\ InProgress(g)
        count == IF a.ok \/ ~known \/ Progressed(git, g) \/ unknown THEN 0 ELSE stuck + 1
    IN  /\ git' = g
        /\ stuck' = count
        /\ known' = ~unknown
        /\ \/ Wedged(count) /\ Escalate(menu) /\ UNCHANGED fresh
           \/ ~Wedged(count) /\ InProgress(g) /\ pc' = "resolve" /\ menu' = {} /\ fresh' = TRUE
                 /\ UNCHANGED guarded
           \/ ~Wedged(count) /\ ~InProgress(g) /\ pc' = "completion"
                 /\ UNCHANGED <<guarded, menu, fresh>>
        /\ UNCHANGED <<setup, outcome>>

\* The resurrection scan and the cross-commit guardian after the last pick.
Complete(found) ==
    /\ pc = "completion"
    /\ IF found /\ mode.policy = "stop"
       THEN Escalate({}) /\ UNCHANGED outcome
       ELSE End("completed") /\ UNCHANGED menu
    /\ UNCHANGED <<setup, git, stuck, known, fresh, glitches>>

-------------------------------------------------------------------------------
\* The interactive fallback.

\* Mutant: the step the human was last asked about is not remembered.
Offers_EveryTime == mode.interactive /\ InProgress(git)

\* Whether an escalation is brought before the human at all.
Offers == mode.interactive /\ InProgress(git) /\ fresh

\* interactive_resolve: the units the escalation carries, or what is found again.
Presented == IF menu # {} THEN menu ELSE Units(git)

OpenMenu ==
    /\ pc = "offer" /\ Offers /\ Presented # {}
    /\ pc' = "human" /\ menu' = Presented /\ fresh' = FALSE
    /\ UNCHANGED <<setup, git, guarded, stuck, known, glitches, outcome>>

\* Nothing to present: interactive_resolve returns at once, and is asked again
\* unless the step is the one it was last asked about.
Bail ==
    /\ pc = "offer" /\ Offers /\ Presented = {}
    /\ fresh' = FALSE
    /\ UNCHANGED <<setup, git, pc, guarded, menu, stuck, known, glitches, outcome>>

DontOffer ==
    /\ pc = "offer" /\ ~Offers
    /\ pc' = "settle"
    /\ UNCHANGED <<setup, git, guarded, menu, stuck, known, fresh, glitches, outcome>>

\* Mutant: a file edited by hand is staged without looking for markers.
Left_Unchecked(f) == {"staged", "marked"}

\* What the human can make of file f.  An edit is taken only without markers;
\* of several units some may be pasted and others skipped, and the file is then
\* written and staged as a whole.
Left(f) == {"staged"} \union (IF f \in MultiUnit THEN {"marked"} ELSE {})

HumanResolves(f, left) ==
    /\ pc = "human" /\ f \in menu
    /\ left \in Left(f)
    /\ git' = [git EXCEPT !.file[f] = left]
    /\ menu' = menu \ {f}
    /\ UNCHANGED <<setup, pc, guarded, stuck, known, fresh, glitches, outcome>>

\* Skipped, or an edit given up after the markers were put back.
HumanSkips(f, restored) ==
    /\ pc = "human" /\ f \in menu
    /\ git' = IF restored /\ git.file[f] = "written" THEN [git EXCEPT !.file[f] = "raw"] ELSE git
    /\ menu' = menu \ {f}
    /\ UNCHANGED <<setup, pc, guarded, stuck, known, fresh, glitches, outcome>>

HumanAborts ==
    /\ pc = "human" /\ menu # {}
    /\ git' = Start
    /\ pc' = "offer" /\ menu' = {}
    /\ UNCHANGED <<setup, guarded, stuck, known, fresh, glitches, outcome>>

\* Every file was presented: run() goes on unless something is still unmerged.
HumanDone ==
    /\ pc = "human" /\ menu = {}
    /\ IF Unmerged(git) # {} THEN pc' = "offer" /\ UNCHANGED <<stuck, known, fresh>>
                             ELSE EnterRun
    /\ UNCHANGED <<setup, git, guarded, menu, glitches, outcome>>

-------------------------------------------------------------------------------
\* Mutant: abort-on-escalation only where nobody can be asked.
Aborts_Unattended == mode.abort /\ InProgress(git) /\ ~mode.interactive

Aborts == mode.abort /\ InProgress(git)

\* Abort-on-escalation, the last thing rebase() does.
Settle ==
    /\ pc = "settle"
    /\ git' = IF Aborts THEN Start ELSE git
    /\ End("escalated")
    /\ UNCHANGED <<setup, menu, stuck, known, fresh, glitches>>

\* Ctrl-C, SIGTERM, SIGHUP or an exception while the first run() is under way.
Interrupt ==
    /\ guarded
    /\ git' = IF InProgress(git) THEN Start ELSE git
    /\ End("interrupted")
    /\ UNCHANGED <<setup, menu, stuck, known, fresh, glitches>>

\* SIGKILL at any time, or any signal outside the try block.
Die ==
    /\ pc # "ended"
    /\ End("killed")
    /\ UNCHANGED <<setup, git, menu, stuck, known, fresh, glitches>>

-------------------------------------------------------------------------------
ResolveStep ==
    \/ NothingToResolve \/ NoUnits \/ Resolves
    \/ \E written \in SUBSET File : ResolutionFails(written)
    \/ \E staged \in SUBSET File, gatePasses \in BOOLEAN : ValidationFails(staged, gatePasses)

Glitch == glitches < MaxGlitch /\ glitches' = glitches + 1

ContinueStep ==
    /\ pc = "continue"
    /\ \/ \E a \in Answers(git) : Continue(a, FALSE) /\ UNCHANGED glitches
       \/ \E a \in Answers(git) : Continue(a, TRUE) /\ Glitch
       \/ Continue(Refuses(git), FALSE) /\ Glitch

Step ==
    \/ \E accepted \in BOOLEAN : StartRebase(accepted)
    \/ \E found \in BOOLEAN : ScanClean(found) \/ Complete(found)
    \/ ResolveStep
    \/ \E passes \in BOOLEAN : Gate(passes)
    \/ ContinueStep
    \/ OpenMenu \/ Bail \/ DontOffer \/ HumanDone \/ Settle

HumanStep ==
    \/ \E f \in File, left \in FileState : HumanResolves(f, left)
    \/ \E f \in File, restored \in BOOLEAN : HumanSkips(f, restored)
    \/ HumanAborts

Next == Step \/ HumanStep \/ Interrupt \/ Die

\* capybase is a sequential program that runs on, and a human at the terminal
\* answers every prompt.
Spec == Init /\ [][Next]_vars /\ WF_vars(Step) /\ WF_vars(HumanStep)

-------------------------------------------------------------------------------
GitState == [place: {"start", "stopped", "rebased"}, pos: 0..Picks,
             fate: [Pick -> Fate], file: [File -> FileState], refuses: BOOLEAN]

\* Every variable has its type; the picks after the current stop are untouched.
TypeOK ==
    /\ conflicts \in [Pick -> [File -> Conflict]] /\ mode \in Mode
    /\ git \in GitState
    /\ InProgress(git) => git.pos \in Pick /\ \A p \in Pick : p >= git.pos => git.fate[p] = "todo"
    /\ pc \in {"start", "scan", "resolve", "gate", "continue", "completion", "offer",
               "human", "settle", "ended"}
    /\ guarded \in BOOLEAN /\ known \in BOOLEAN /\ fresh \in BOOLEAN
    /\ menu \subseteq File
    /\ stuck \in 0..MaxStuck
    /\ glitches \in 0..MaxGlitch
    /\ outcome \in {"none", "completed", "escalated", "interrupted", "killed", "error"}
    /\ (pc = "ended" <=> outcome # "none")

\* A session that reports success has replayed every pick or dropped it. --skip
\* takes a commit that still has changes only where _rebase_continue_empty misreads
\* a subject line: its own, or that of the last pick git stopped at before it.
NoPickLost ==
    \A p \in Pick :
        /\ outcome = "completed" => git.fate[p] # "todo"
        /\ git.fate[p] = "lost" =>
             \E q \in mode.subjects :
                 q <= p /\ \A r \in Pick : q < r /\ r < p => ~Conflicting(r)

\* Nothing capybase does by itself, and no file the human edits, skips or has one
\* unit of, brings conflict markers into a commit: only a file of several units does,
\* at the hands of a human who pasted some of them.
MarkersOnlyByHand ==
    \A p \in Pick : git.fate[p] = "marked" =>
        mode.interactive /\ \E f \in MultiUnit : conflicts[p][f] = "units"

\* The rebase is over and cannot be aborted any more: a completion scan escalated
\* under "stop", or the continue that finished it was the third in a row without a
\* position to show for it, two passing failures before it.
TooLate == git.place = "rebased" /\ (mode.policy = "stop" \/ glitches >= 2)

\* Where a session leaves the branch: rebased when it reports success; when it
\* escalated, at the commit it started from, or stopped if it was told not to abort;
\* never stopped when it was interrupted.
EndedWhereClaimed ==
    /\ outcome = "completed" => git.place = "rebased"
    /\ outcome = "escalated" =>
         git.place = "start" \/ (git.place = "stopped" /\ ~mode.abort) \/ TooLate
    /\ outcome = "interrupted" => ~InProgress(git)

\* Every session ends, however often git refuses and the human is asked.
Terminates == <>(pc = "ended")
===============================================================================
