----------------------------- MODULE CandidateRef -----------------------------
(***************************************************************************)
(* Candidate mode (candidate_ref.py): a run rebases a source branch on a   *)
(* candidate branch in a linked worktree, promote lands a retained         *)
(* candidate with a compare-and-swap, publish pushes one under a lease.    *)
(* Runs are serialised by the CLI's run lock (module RunLock); promote and *)
(* publish take no lock and interleave with runs, with each other and with *)
(* the owner of the repository.                                            *)
(*                                                                         *)
(* A commit is a record of what its tree holds: the owner's edits to its   *)
(* branch, the upstream version it sits on and the run that made it (0 for *)
(* the owner).  Two commits with the same record are the same object.      *)
(***************************************************************************)
EXTENDS Naturals, FiniteSets

CONSTANTS
    Branch,         \* source branches
    Edit,           \* edits the owner commits to a source branch
    Foreign,        \* commits other people push to the remote
    Promoter,       \* concurrent invocations of capybase promote
    Publisher,      \* concurrent invocations of capybase publish
    StepTier,       \* the tiers the steps of a series may be graded with
    MaxUpstream,    \* bound: versions of the rebase target
    MaxRun,         \* bound: candidate runs
    MaxTime,        \* bound: seconds of the clock names are made from
    MaxUndo,        \* bound: resets of a source branch by its owner
    OwnerRaces      \* whether the owner uses the worktree or moves the branch
                    \* between the check and the reset of promote --checkout

ASSUME BoundsAssumption ==
    /\ MaxUpstream \in Nat \ {0} /\ MaxRun \in Nat /\ MaxTime \in Nat \ {0} /\ MaxUndo \in Nat
    /\ OwnerRaces \in BOOLEAN
    /\ Branch # {} /\ StepTier \subseteq {"A", "B", "C"}

Upstream == 0..MaxUpstream
RunId    == 1..MaxRun
Time     == 1..MaxTime
Tier     == {"A", "B", "C"}

Commit   == [branch: Branch, edits: SUBSET Edit, onto: Upstream, by: 0..MaxRun]
NoCommit == [none |-> "commit"]

\* capybase/candidate/<branch>@<second>[-k]; the suffix is absent when k = 1.
Name == [branch: Branch, second: Time, k: RunId]
\* .rebase-agent/candidates/<branch>@<second>/session_state.json: no suffix.
Path == [branch: Branch, second: Time]

\* What a remote branch holds: the last commit published, others' pushes on top.
RemoteTip == [base: Commit, extra: SUBSET Foreign]

\* The contents of a state file.
State == [run: RunId, branch: Branch, from: Commit, target: Upstream, name: Name,
          outcome: {"success", "escalated"}, candidate: Commit \union {NoCommit},
          tier: Tier, lease: RemoteTip, promoted: BOOLEAN, published: BOOLEAN]
NoState == [none |-> "state"]

\* A run in progress: its snapshot, what its rebase was started on, whether it
\* would succeed.
Job == [id: RunId, name: Name, from: Commit, target: Upstream, lease: RemoteTip,
        onto: Upstream, ok: BOOLEAN]
NoJob == [none |-> "job"]

\* A promote or publish in progress: the state file it read, whether it was
\* approved, whether promote is to refresh the worktree.
Deal == [state: State, approve: BOOLEAN, checkout: BOOLEAN]
NoDeal == [none |-> "deal"]

VARIABLES
    source,     \* source[b]: the commit branch b points to
    branch,     \* branch[n]: the commit candidate branch n points to, or NoCommit
    backups,    \* capybase/backup/<candidate branch>@<second>: the branch and second
    worktrees,  \* candidate branches checked out in a linked worktree
    file,       \* file[p]: the state file at path p, or NoState
    objects,    \* the commits in the object store
    upstream,   \* the version the rebase target points to
    remote,     \* remote[b]: the tip of branch b on the remote
    tracking,   \* tracking[b]: the remote-tracking ref of branch b
    head,       \* the branch checked out in the owner's worktree
    dirty,      \* how that worktree differs from its branch: "no", "work"
                \* (uncommitted changes) or "stale" (the branch was moved under it)
    clock,      \* the second candidate names are made from
    stage,      \* where the live candidate run is
    job,        \* its record, or NoJob
    runs,       \* how many runs were started
    step,       \* step[p]: where promote invocation p is
    deal,       \* deal[p]: its record, or NoDeal
    pushing,    \* pushing[q]: where publish invocation q is
    order,      \* order[q]: its record, or NoDeal
    undos       \* how often the owner reset a branch

\* What happened, for the properties; no guard reads it.
VARIABLES
    wanted,     \* wanted[b]: the edits the owner expects on branch b
    made,       \* the edits committed and the commits pushed by others so far
    offers,     \* the candidates runs completed, as module Promotion has them
    landed,     \* the offers promote landed, and whether with --approve
    seen,       \* seen[r]: others' pushes run r's snapshot knew of
    fate        \* fate[n]: whether the run of n had its rebase accepted or was killed

refs    == <<source, branch, backups, worktrees, file, objects>>
world   == <<upstream, remote, tracking, clock, undos>>
owner   == <<head, dirty>>
runner  == <<stage, job, runs>>
promote == <<step, deal>>
publish == <<pushing, order>>
ghosts  == <<wanted, made, offers, landed, seen, fate>>
vars    == <<refs, world, owner, runner, promote, publish, ghosts>>

-------------------------------------------------------------------------------
\* The tier of a whole series from the tiers its steps were graded with.
AggregateTier(tiers) ==
    CASE "C" \in tiers -> "C"
      [] "C" \notin tiers /\ "B" \in tiers -> "B"
      [] tiers = {"A"} -> "A"
      [] OTHER -> "B"

\* git rebase on version u, in run r: nothing to do when c already sits on u.
Rebased(c, u, r) == IF c.onto = u THEN c ELSE [c EXCEPT !.onto = u, !.by = r]

\* The state files a new request for (b, source[b], u) may be answered from.
Matching(b, u) ==
    {p \in Path : /\ file[p] # NoState
                  /\ file[p].outcome = "success"
                  /\ file[p].branch = b
                  /\ file[p].from = source[b]
                  /\ file[p].target = u
                  /\ ~file[p].promoted}

\* The name probe: the first suffix no branch has.
IsFreeName(n) ==
    /\ branch[n] = NoCommit
    /\ \A j \in RunId : j < n.k => branch[[n EXCEPT !.k = j]] # NoCommit

\* _delete_candidate_refs deletes every backup whose name contains the part of
\* the candidate's name after the "@": "<second>" matches every suffix too.
BackupsOf(n) ==
    {b \in backups : \/ b.name.second = n.second /\ (n.k = 1 \/ b.name.k = n.k)
                     \/ b.second = n.second /\ n.k = 1}

TreeClean == dirty = "no"

PathOf(s) == [branch |-> s.name.branch, second |-> s.name.second]
OfferOf(s) == [branch |-> s.branch, from |-> s.from, to |-> s.candidate, tier |-> s.tier]

Init ==
    /\ source = [b \in Branch |-> [branch |-> b, edits |-> {}, onto |-> 0, by |-> 0]]
    /\ branch = [n \in Name |-> NoCommit]
    /\ backups = {} /\ worktrees = {}
    /\ file = [p \in Path |-> NoState]
    /\ objects = {source[b] : b \in Branch}
    /\ upstream = 1
    /\ remote = [b \in Branch |-> [base |-> source[b], extra |-> {}]]
    /\ tracking = remote
    /\ head \in Branch /\ dirty = "no"
    /\ clock = 1 /\ undos = 0
    /\ stage = "idle" /\ job = NoJob /\ runs = 0
    /\ step = [p \in Promoter |-> "idle"] /\ deal = [p \in Promoter |-> NoDeal]
    /\ pushing = [q \in Publisher |-> "idle"] /\ order = [q \in Publisher |-> NoDeal]
    /\ wanted = [b \in Branch |-> {}]
    /\ made = {} /\ offers = {} /\ landed = {}
    /\ seen = [r \in RunId |-> {}]
    /\ fate = [n \in Name |-> "none"]

-------------------------------------------------------------------------------
\* run_candidate_rebase: snapshot of source, target and remote-tracking ref, the
\* name probe, and git worktree add -b <name> <source_oid>, unless a retained
\* candidate answers the request.
StartRun(fresh, n) ==
    /\ stage = "idle" /\ runs < MaxRun
    /\ fresh \/ Matching(head, upstream) = {}
    /\ n.branch = head /\ n.second = clock /\ IsFreeName(n)
    /\ stage' = "worktree"
    /\ runs' = runs + 1
    /\ job' = [id |-> runs + 1, name |-> n, from |-> source[head], target |-> upstream,
               lease |-> tracking[head], onto |-> upstream, ok |-> FALSE]
    /\ branch' = [branch EXCEPT ![n] = source[head]]
    /\ worktrees' = worktrees \union {n}
    /\ seen' = [seen EXCEPT ![runs + 1] = tracking[head].extra]
    /\ fate' = [fate EXCEPT ![n] = "none"]
    /\ UNCHANGED <<source, backups, file, objects, world, owner, promote, publish,
                   wanted, made, offers, landed>>

\* Orchestrator.rebase in the worktree: it makes its backup branch and resolves
\* the target, which it is given by name, a second time.
StartRebase ==
    /\ stage = "worktree"
    /\ backups' = backups \union {[name |-> job.name, second |-> clock]}
    /\ job' = [job EXCEPT !.onto = upstream]
    /\ stage' = "rebasing"
    /\ UNCHANGED <<source, branch, worktrees, file, objects, world, owner, runs,
                   promote, publish, ghosts>>

\* The rebase completes: git moves the candidate branch only now.  The result is
\* not accepted when a completion scan stops the session or an interruption
\* comes before it is returned.
RebaseCompletes(accepted) ==
    LET result == Rebased(job.from, job.onto, job.id) IN
    /\ stage = "rebasing"
    /\ branch' = [branch EXCEPT ![job.name] = result]
    /\ objects' = objects \union {result}
    /\ job' = [job EXCEPT !.ok = accepted]
    /\ stage' = "rebased"
    /\ fate' = [fate EXCEPT ![job.name] = IF accepted THEN "rebased" ELSE @]
    /\ UNCHANGED <<source, backups, worktrees, file, world, owner, runs, promote, publish,
                   wanted, made, offers, landed, seen>>

\* It escalates before that: the candidate branch is where it was.
RebaseEscalates ==
    /\ stage = "rebasing"
    /\ stage' = "rebased"
    /\ UNCHANGED <<refs, world, owner, job, runs, promote, publish, ghosts>>

\* The tiers of the journal are aggregated, the audit bundle and the state file
\* are written.  The directory is named after the second alone.
WriteBundle(tiers) ==
    LET state == [run |-> job.id, branch |-> job.name.branch, from |-> job.from,
                  target |-> job.target, name |-> job.name,
                  outcome |-> IF job.ok THEN "success" ELSE "escalated",
                  candidate |-> IF job.ok THEN branch[job.name] ELSE NoCommit,
                  tier |-> AggregateTier(tiers), lease |-> job.lease,
                  promoted |-> FALSE, published |-> FALSE]
    IN  /\ stage = "rebased"
        /\ file' = [file EXCEPT ![PathOf(state)] = state]
        /\ offers' = IF job.ok THEN offers \union {OfferOf(state)} ELSE offers
        /\ stage' = "cleanup"
        /\ UNCHANGED <<source, branch, backups, worktrees, objects, world, owner, job, runs,
                       promote, publish, wanted, made, landed, seen, fate>>

\* SIGTERM, SIGHUP, Ctrl-C or an exception: the finally clause runs at once.
Interrupt ==
    /\ stage \in {"worktree", "rebasing", "rebased"}
    /\ stage' = "cleanup"
    /\ UNCHANGED <<refs, world, owner, job, runs, promote, publish, ghosts>>

\* git worktree remove --force, git worktree prune.
RemoveWorktree ==
    /\ stage = "cleanup"
    /\ worktrees' = worktrees \ {job.name}
    /\ stage' = "removed"
    /\ UNCHANGED <<source, branch, backups, file, objects, world, owner, job, runs,
                   promote, publish, ghosts>>

\* Mutants: the branch is deleted in both outcomes; a retained candidate keeps
\* its run's backup branches too.
DeleteRefs_InBothOutcomes ==
    /\ stage = "removed"
    /\ branch' = [branch EXCEPT ![job.name] = NoCommit]
    /\ backups' = backups \ BackupsOf(job.name)
    /\ stage' = "idle" /\ job' = NoJob
    /\ UNCHANGED <<source, worktrees, file, objects, world, owner, runs,
                   promote, publish, ghosts>>

DeleteRefs_OnEscalationOnly ==
    /\ stage = "removed"
    /\ branch' = IF job.ok THEN branch ELSE [branch EXCEPT ![job.name] = NoCommit]
    /\ backups' = IF job.ok THEN backups ELSE backups \ BackupsOf(job.name)
    /\ stage' = "idle" /\ job' = NoJob
    /\ UNCHANGED <<source, worktrees, file, objects, world, owner, runs,
                   promote, publish, ghosts>>

\* _delete_candidate_refs.  git refuses to delete a branch a worktree has
\* checked out.
DeleteRefs ==
    /\ stage = "removed"
    /\ branch' = IF ~job.ok /\ job.name \notin worktrees
                 THEN [branch EXCEPT ![job.name] = NoCommit] ELSE branch
    /\ backups' = backups \ BackupsOf(job.name)
    /\ stage' = "idle" /\ job' = NoJob
    /\ UNCHANGED <<source, worktrees, file, objects, world, owner, runs,
                   promote, publish, ghosts>>

\* SIGKILL, or a second signal inside the finally clause: nothing is cleaned up.
Kill ==
    /\ stage # "idle"
    /\ fate' = [fate EXCEPT ![job.name] = "killed"]
    /\ stage' = "idle" /\ job' = NoJob
    /\ UNCHANGED <<refs, world, owner, runs, promote, publish,
                   wanted, made, offers, landed, seen>>

-------------------------------------------------------------------------------
\* promote_candidate reads the state file it is given, or the latest one.  An
\* outcome other than success is refused here.
Promote(p, path) ==
    /\ step[p] = "idle"
    /\ file[path] # NoState
    /\ file[path].outcome = "success"
    /\ step' = [step EXCEPT ![p] = "check"]
    /\ deal' = [deal EXCEPT ![p] = [state |-> file[path], approve |-> FALSE, checkout |-> FALSE]]
    /\ UNCHANGED <<refs, world, owner, runner, publish, ghosts>>

EndPromote(p) ==
    /\ step' = [step EXCEPT ![p] = "idle"]
    /\ deal' = [deal EXCEPT ![p] = NoDeal]

\* Mutant: the acceptance tier is not asked.
MayPromote_AnyTier(s, approve, checkout) ==
    /\ source[s.branch] = s.from
    /\ s.candidate \in objects
    /\ checkout /\ head = s.branch => TreeClean

\* The checks before the swap: drift, existence, the tier, a clean worktree.
MayPromote(s, approve, checkout) ==
    /\ source[s.branch] = s.from
    /\ s.candidate \in objects
    /\ s.tier = "A" \/ approve
    /\ checkout /\ head = s.branch => TreeClean

\* The worktree is refreshed later when the branch is checked out now.
CheckPromote(p, approve, checkout) ==
    LET s == deal[p].state IN
    /\ step[p] = "check"
    /\ MayPromote(s, approve, checkout)
    /\ step' = [step EXCEPT ![p] = "swap"]
    /\ deal' = [deal EXCEPT ![p] = [state |-> s, approve |-> approve,
                                   checkout |-> checkout /\ head = s.branch]]
    /\ UNCHANGED <<refs, world, owner, runner, publish, ghosts>>

\* Refused, interrupted or killed: nothing was changed, or the rest is not done.
AbandonPromote(p) ==
    /\ step[p] # "idle"
    /\ EndPromote(p)
    /\ UNCHANGED <<refs, world, owner, runner, publish, ghosts>>

\* Mutant: update-ref without the expected old value.
CanSwap_Unconditional(s) == s.candidate \in objects

\* git update-ref <source> <candidate> <expected>: atomic.
CanSwap(s) == source[s.branch] = s.from /\ s.candidate \in objects

Swap(p) ==
    LET s == deal[p].state IN
    /\ step[p] = "swap"
    /\ CanSwap(s)
    /\ source' = [source EXCEPT ![s.branch] = s.candidate]
    /\ step' = [step EXCEPT ![p] = IF deal[p].checkout THEN "reset" ELSE "record"]
    /\ landed' = landed \union {[offer |-> OfferOf(s), consent |-> deal[p].approve]}
    /\ dirty' = IF head = s.branch THEN "stale" ELSE dirty
    /\ UNCHANGED <<branch, backups, worktrees, file, objects, world, head, runner, deal,
                   publish, wanted, made, offers, seen, fate>>

\* git reset --hard <candidate>: it moves whatever branch is checked out.
ResetCheckout(p) ==
    /\ step[p] = "reset"
    /\ source' = [source EXCEPT ![head] = deal[p].state.candidate]
    /\ dirty' = "no"
    /\ step' = [step EXCEPT ![p] = "record"]
    /\ UNCHANGED <<branch, backups, worktrees, file, objects, world, head, runner, deal,
                   publish, wanted, made, offers, landed, seen, fate>>

\* The promotion is recorded in the state as it was read; a failure to write is
\* ignored.
RecordPromotion(p, written) ==
    /\ step[p] = "record"
    /\ file' = IF written
               THEN [file EXCEPT ![PathOf(deal[p].state)] =
                                [deal[p].state EXCEPT !.promoted = TRUE]]
               ELSE file
    /\ step' = [step EXCEPT ![p] = "consume"]
    /\ UNCHANGED <<source, branch, backups, worktrees, objects, world, owner, runner, deal,
                   publish, ghosts>>

\* git branch -D <candidate branch>, unless --keep-ref.
ConsumeBranch(p, keep) ==
    LET n == deal[p].state.name IN
    /\ step[p] = "consume"
    /\ branch' = IF ~keep /\ n \notin worktrees
                 THEN [branch EXCEPT ![n] = NoCommit] ELSE branch
    /\ EndPromote(p)
    /\ UNCHANGED <<source, backups, worktrees, file, objects, world, owner, runner, publish,
                   ghosts>>

-------------------------------------------------------------------------------
\* publish_candidate: read the state file, gate on the tier.
Publish(q, path, approve) ==
    /\ pushing[q] = "idle"
    /\ file[path] # NoState
    /\ file[path].outcome = "success"
    /\ file[path].tier = "A" \/ approve
    /\ pushing' = [pushing EXCEPT ![q] = "push"]
    /\ order' = [order EXCEPT ![q] =
                     [state |-> file[path], approve |-> approve, checkout |-> FALSE]]
    /\ UNCHANGED <<refs, world, owner, runner, promote, ghosts>>

EndPublish(q) ==
    /\ pushing' = [pushing EXCEPT ![q] = "idle"]
    /\ order' = [order EXCEPT ![q] = NoDeal]

\* Mutant: the implicit lease, on what the last fetch saw.
Lease_Implicit(s) == tracking[s.branch]

\* What --force-with-lease=<ref>:<expected> makes the remote compare its tip with.
Lease(s) == s.lease

\* git push; with --dry-run nothing is transferred.
Push(q, dry) ==
    LET s   == order[q].state
        tip == [base |-> s.candidate, extra |-> {}]
    IN  /\ pushing[q] = "push"
        /\ s.candidate \in objects
        /\ remote[s.branch] = Lease(s)
        /\ remote' = IF dry THEN remote ELSE [remote EXCEPT ![s.branch] = tip]
        /\ tracking' = IF dry THEN tracking ELSE [tracking EXCEPT ![s.branch] = tip]
        /\ pushing' = [pushing EXCEPT ![q] = "record"]
        /\ UNCHANGED <<refs, upstream, clock, undos, owner, runner, promote, order, ghosts>>

\* The push was refused, or the publish was killed.
AbandonPublish(q) ==
    /\ pushing[q] # "idle"
    /\ EndPublish(q)
    /\ UNCHANGED <<refs, world, owner, runner, promote, ghosts>>

\* The publication is recorded in the state as it was read.
RecordPublication(q) ==
    LET s == order[q].state IN
    /\ pushing[q] = "record"
    /\ file' = [file EXCEPT ![PathOf(s)] = [s EXCEPT !.published = TRUE]]
    /\ EndPublish(q)
    /\ UNCHANGED <<source, branch, backups, worktrees, objects, world, owner, runner, promote,
                   ghosts>>

-------------------------------------------------------------------------------
\* The owner of the repository, other people, git and time.

\* Promote is between its check of the worktree and its reset.
InCheckout == \E p \in Promoter : step[p] \in {"swap", "reset"} /\ deal[p].checkout

OwnerFree == OwnerRaces \/ ~InCheckout

\* A commit on branch b; on the checked out branch, from an up-to-date worktree.
OwnerCommits(b, e) ==
    LET c == [source[b] EXCEPT !.edits = @ \union {e}, !.by = 0] IN
    /\ OwnerFree
    /\ e \notin made
    /\ head = b => dirty # "stale"
    /\ source' = [source EXCEPT ![b] = c]
    /\ objects' = objects \union {c}
    /\ made' = made \union {e}
    /\ wanted' = [wanted EXCEPT ![b] = @ \union {e}]
    /\ dirty' = IF head = b THEN "no" ELSE dirty
    /\ UNCHANGED <<branch, backups, worktrees, file, world, head, runner, promote, publish,
                   offers, landed, seen, fate>>

\* git reset --hard to any commit of the branch that still exists.
OwnerResets(c) ==
    /\ OwnerFree
    /\ undos < MaxUndo
    /\ c \in objects /\ source[c.branch] # c
    /\ undos' = undos + 1
    /\ source' = [source EXCEPT ![c.branch] = c]
    /\ wanted' = [wanted EXCEPT ![c.branch] = c.edits]
    /\ dirty' = IF head = c.branch THEN "no" ELSE dirty
    /\ UNCHANGED <<branch, backups, worktrees, file, objects, upstream, remote, tracking, clock,
                   head, runner, promote, publish, made, offers, landed, seen,
                   fate>>

\* Uncommitted changes; checking out a branch; refreshing a stale worktree.
OwnerWorks ==
    /\ OwnerFree
    /\ dirty # "stale"
    /\ dirty' = "work"
    /\ UNCHANGED <<refs, world, head, runner, promote, publish, ghosts>>

OwnerChecksOut(b) ==
    /\ OwnerFree
    /\ head' = b /\ dirty' = "no"
    /\ UNCHANGED <<refs, world, runner, promote, publish, ghosts>>

UpstreamMoves(u) ==
    /\ u # upstream /\ u > 0
    /\ upstream' = u
    /\ UNCHANGED <<refs, remote, tracking, clock, undos, owner, runner, promote, publish,
                   ghosts>>

ForeignPush(b, f) ==
    /\ f \notin made
    /\ made' = made \union {f}
    /\ remote' = [remote EXCEPT ![b].extra = @ \union {f}]
    /\ UNCHANGED <<refs, upstream, tracking, clock, undos, owner, runner, promote, publish,
                   wanted, offers, landed, seen, fate>>

Fetch ==
    /\ tracking # remote
    /\ tracking' = remote
    /\ UNCHANGED <<refs, upstream, remote, clock, undos, owner, runner, promote, publish,
                   ghosts>>

\* git gc, long enough after the last reflog entry.
CollectGarbage ==
    /\ objects' = {source[b] : b \in Branch}
                   \union ({branch[n] : n \in Name} \ {NoCommit})
    /\ objects' # objects
    /\ UNCHANGED <<source, branch, backups, worktrees, file, world, owner, runner, promote,
                   publish, ghosts>>

Tick ==
    /\ clock < MaxTime
    /\ clock' = clock + 1
    /\ UNCHANGED <<refs, upstream, remote, tracking, undos, owner, runner, promote, publish,
                   ghosts>>

-------------------------------------------------------------------------------
RunStep ==
    \/ \E fresh \in BOOLEAN, n \in Name : StartRun(fresh, n)
    \/ StartRebase \/ RebaseEscalates
    \/ \E accepted \in BOOLEAN : RebaseCompletes(accepted)
    \/ \E tiers \in SUBSET StepTier : WriteBundle(tiers)
    \/ Interrupt \/ RemoveWorktree \/ DeleteRefs \/ Kill

PromoteStep(p) ==
    \/ \E path \in Path : Promote(p, path)
    \/ \E approve, checkout \in BOOLEAN : CheckPromote(p, approve, checkout)
    \/ Swap(p) \/ ResetCheckout(p) \/ AbandonPromote(p)
    \/ \E written \in BOOLEAN : RecordPromotion(p, written)
    \/ \E keep \in BOOLEAN : ConsumeBranch(p, keep)

PublishStep(q) ==
    \/ \E path \in Path, approve \in BOOLEAN : Publish(q, path, approve)
    \/ \E dry \in BOOLEAN : Push(q, dry)
    \/ AbandonPublish(q) \/ RecordPublication(q)

OwnerStep ==
    \/ \E b \in Branch, e \in Edit : OwnerCommits(b, e)
    \/ \E c \in objects : OwnerResets(c)
    \/ OwnerWorks
    \/ \E b \in Branch : OwnerChecksOut(b)

WorldStep ==
    \/ \E u \in Upstream : UpstreamMoves(u)
    \/ \E b \in Branch, f \in Foreign : ForeignPush(b, f)
    \/ Fetch \/ CollectGarbage \/ Tick

Next ==
    \/ RunStep \/ OwnerStep \/ WorldStep
    \/ \E p \in Promoter : PromoteStep(p)
    \/ \E q \in Publisher : PublishStep(q)

Spec == Init /\ [][Next]_vars

-------------------------------------------------------------------------------
Stages == {"idle", "worktree", "rebasing", "rebased", "cleanup", "removed"}
Steps  == {"idle", "check", "swap", "reset", "record", "consume"}
Pushes == {"idle", "push", "record"}
Offer  == [branch: Branch, from: Commit, to: Commit, tier: Tier]

RefsTyped ==
    /\ source \in [Branch -> Commit]
    /\ branch \in [Name -> Commit \union {NoCommit}]
    /\ backups \subseteq [name: Name, second: Time]
    /\ worktrees \subseteq Name
    /\ file \in [Path -> State \union {NoState}]
    /\ objects \subseteq Commit

WorldTyped ==
    /\ upstream \in Upstream
    /\ remote \in [Branch -> RemoteTip] /\ tracking \in [Branch -> RemoteTip]
    /\ clock \in Time /\ undos \in Nat

OwnerTyped == head \in Branch /\ dirty \in {"no", "stale", "work"}

RunnerTyped ==
    /\ stage \in Stages /\ runs \in 0..MaxRun
    /\ job \in Job \union {NoJob}
    /\ stage = "idle" <=> job = NoJob

PromoteTyped ==
    /\ step \in [Promoter -> Steps] /\ deal \in [Promoter -> Deal \union {NoDeal}]
    /\ \A p \in Promoter : step[p] = "idle" <=> deal[p] = NoDeal

PublishTyped ==
    /\ pushing \in [Publisher -> Pushes] /\ order \in [Publisher -> Deal \union {NoDeal}]
    /\ \A q \in Publisher : pushing[q] = "idle" <=> order[q] = NoDeal

GhostsTyped ==
    /\ wanted \in [Branch -> SUBSET Edit] /\ made \subseteq Edit \union Foreign
    /\ offers \subseteq Offer /\ landed \subseteq [offer: Offer, consent: BOOLEAN]
    /\ seen \in [RunId -> SUBSET Foreign]
    /\ fate \in [Name -> {"none", "rebased", "killed"}]

\* Every variable has its type, and a record is there exactly while it is used.
TypeOK ==
    /\ RefsTyped /\ WorldTyped /\ OwnerTyped /\ RunnerTyped
    /\ PromoteTyped /\ PublishTyped /\ GhostsTyped

\* No edit its owner committed to a source branch is lost, whatever promotes,
\* runs, resets by the owner and kills interleave: promote_candidate replaces
\* only the commit the candidate was rebased from.
NoLostEdit == \A b \in Branch : wanted[b] \subseteq source[b].edits

Landed(o) == \E l \in landed : l.offer = o

\* A state file that says success names a commit that can still be promoted,
\* or one that was promoted: neither clean-up nor gc takes a tested candidate
\* away before it landed.
TestedCandidateNotLost ==
    \A p \in Path :
        file[p] # NoState /\ file[p].outcome = "success" =>
            file[p].candidate \in objects \/ Landed(OfferOf(file[p]))

\* A run that ended in any way but a kill leaves no worktree, no backup of its
\* own, and a candidate branch only when its rebase had succeeded.
TidyUnlessKilled ==
    /\ \A n \in worktrees : fate[n] = "killed" \/ (stage # "idle" /\ n = job.name)
    /\ stage = "idle" =>
          /\ \A b \in backups : fate[b.name] = "killed"
          /\ \A n \in Name : branch[n] # NoCommit => fate[n] # "none"

\* A publish takes off the remote only others' pushes that the run it publishes
\* knew of at its snapshot, however many fetches happen in between.
PublishDropsOnlySeenPushes ==
    [][\A b \in Branch : \A f \in remote[b].extra \ remote'[b].extra :
          \E q \in Publisher : pushing[q] = "push" /\ f \in seen[order[q].state.run]]_vars

\* What candidate mode promises.
Promise ==
    INSTANCE Promotion WITH Branch <- Branch, Commit <- Commit, Tier <- Tier,
                            source <- source, offers <- offers, landed <- landed
Promised == Promise!Spec
=============================================================================
