-------------------------- MODULE CandidateRefProofs --------------------------
(***************************************************************************)
(* Proofs about candidate mode, for any branches, edits, promoters,        *)
(* publishers and bounds: types, that it implements module Promotion, that *)
(* no edit of the owner and no tested candidate is lost, that a publish    *)
(* drops only what its run saw, and that runs tidy up.                     *)
(*                                                                         *)
(* The argument.  A candidate holds the edits of the commit it was rebased *)
(* from, and git keeps other processes' hands off its branch while the     *)
(* run's worktree has it checked out (RunOwnsBranch).  State files and the *)
(* copies promote works with describe such candidates (FilesAreOffered,    *)
(* DealsAreOffered), so the compare-and-swap replaces a commit by one with *)
(* the same edits.  The reset of promote --checkout is the only other      *)
(* write to a source branch, and is safe as long as the owner stays away   *)
(* between the check and the reset (CheckoutStable).                       *)
(*                                                                         *)
(* Every state that is about is a copy of one a run wrote (LiveStep), so   *)
(* what a run knew at its snapshot (LeasesKnown) and where its result is   *)
(* (KeptInv) need to be followed only for the run.                         *)
(***************************************************************************)
EXTENDS CandidateRef, TLAPS

Successful(s) == s # NoState /\ s.outcome = "success"

\* A candidate named by a successful state is a commit with the same edits as
\* the one it was rebased from, and was offered.
GoodState(s) ==
    /\ s.candidate \in Commit
    /\ s.candidate.edits = s.from.edits
    /\ OfferOf(s) \in offers

FilesAreOffered == \A p \in Path : Successful(file[p]) => GoodState(file[p])

DealsAreOffered ==
    /\ \A p \in Promoter :
          step[p] # "idle" => Successful(deal[p].state) /\ GoodState(deal[p].state)
    /\ \A q \in Publisher :
          pushing[q] # "idle" => Successful(order[q].state) /\ GoodState(order[q].state)

\* From the check of the tier on, promote has the consent it needs.
Consented ==
    \A p \in Promoter :
        step[p] \in {"swap", "reset"} => deal[p].state.tier = "A" \/ deal[p].approve

\* While the run's worktree exists its branch is a commit with the edits of the
\* snapshot.
RunOwnsBranch ==
    stage \in {"worktree", "rebasing", "rebased"} =>
        /\ job.name \in worktrees
        /\ branch[job.name] \in Commit
        /\ branch[job.name].edits = job.from.edits

ImplInv == TypeOK /\ FilesAreOffered /\ DealsAreOffered /\ Consented /\ RunOwnsBranch

\* Between its swap and its reset, promote --checkout is about to write what is
\* wanted on the branch that is checked out.
CheckoutStable ==
    \A p \in Promoter :
        /\ step[p] = "swap" /\ deal[p].checkout => head = deal[p].state.branch
        /\ step[p] = "reset" =>
              /\ deal[p].checkout
              /\ head = deal[p].state.branch
              /\ wanted[head] \subseteq deal[p].state.candidate.edits

EditInv == NoLostEdit /\ CheckoutStable

-------------------------------------------------------------------------------
\* The records that stand for "none" are none of the others; types a step leaves
\* alone, or changes in one place.

LEMMA NotState == NoState \notin State
  BY DEF NoState, State
LEMMA NotJob == NoJob \notin Job
  BY DEF NoJob, Job
LEMMA NotDeal == NoDeal \notin Deal
  BY DEF NoDeal, Deal
LEMMA NotCommit == NoCommit \notin Commit
  BY DEF NoCommit, Commit
LEMMA RefsFrame == RefsTyped /\ UNCHANGED refs => RefsTyped'
  BY DEF RefsTyped, refs
LEMMA WorldFrame == WorldTyped /\ UNCHANGED world => WorldTyped'
  BY DEF WorldTyped, world
LEMMA OwnerFrame == OwnerTyped /\ UNCHANGED owner => OwnerTyped'
  BY DEF OwnerTyped, owner
LEMMA RunnerFrame == RunnerTyped /\ UNCHANGED runner => RunnerTyped'
  BY DEF RunnerTyped, runner
LEMMA PromoteFrame == PromoteTyped /\ UNCHANGED promote => PromoteTyped'
  BY DEF PromoteTyped, promote
LEMMA PublishFrame == PublishTyped /\ UNCHANGED publish => PublishTyped'
  BY DEF PublishTyped, publish
LEMMA GhostsFrame == GhostsTyped /\ UNCHANGED ghosts => GhostsTyped'
  BY DEF GhostsTyped, ghosts

LEMMA PromoteMoves ==
  ASSUME PromoteTyped, NEW p \in Promoter, NEW s \in Steps, NEW d \in Deal \union {NoDeal},
         s = "idle" <=> d = NoDeal,
         step' = [step EXCEPT ![p] = s], deal' = [deal EXCEPT ![p] = d]
  PROVE  PromoteTyped'
  BY DEF PromoteTyped

LEMMA PublishMoves ==
  ASSUME PublishTyped, NEW q \in Publisher, NEW s \in Pushes, NEW d \in Deal \union {NoDeal},
         s = "idle" <=> d = NoDeal,
         pushing' = [pushing EXCEPT ![q] = s], order' = [order EXCEPT ![q] = d]
  PROVE  PublishTyped'
  BY DEF PublishTyped

-------------------------------------------------------------------------------
\* The parts of the invariant that a step leaves alone.

LEMMA FilesFrame == FilesAreOffered /\ UNCHANGED <<file, offers>> => FilesAreOffered'
  BY DEF FilesAreOffered, GoodState, Successful

LEMMA DealsFrame ==
  DealsAreOffered /\ UNCHANGED <<promote, publish, offers>> => DealsAreOffered'
  BY DEF DealsAreOffered, GoodState, Successful, promote, publish

LEMMA ConsentFrame == Consented /\ UNCHANGED promote => Consented'
  BY DEF Consented, promote

LEMMA RunFrame ==
  RunOwnsBranch /\ UNCHANGED <<stage, job, worktrees, branch>> => RunOwnsBranch'
  BY DEF RunOwnsBranch

-------------------------------------------------------------------------------
\* The steps of a run.

LEMMA StartRunKeeps ==
  ASSUME ImplInv, NEW fresh \in BOOLEAN, NEW n \in Name, StartRun(fresh, n)
  PROVE  ImplInv'
<1>0. TypeOK /\ RefsTyped /\ WorldTyped /\ OwnerTyped /\ RunnerTyped /\ GhostsTyped
  BY DEF ImplInv, TypeOK
<1>1. runs + 1 \in RunId
  BY <1>0, BoundsAssumption DEF StartRun, RunnerTyped, RunId
<1>2. job' \in Job
  BY <1>0, <1>1 DEF StartRun, Job, RefsTyped, WorldTyped, OwnerTyped
<1>3. RunnerTyped'
  <2>1. runs' \in 0..MaxRun
    BY <1>1, BoundsAssumption DEF StartRun, RunId
  <2>2. job' # NoJob
    BY <1>2, NotJob
  <2> QED
    BY <1>2, <2>1, <2>2 DEF StartRun, RunnerTyped, Stages
<1>4. RefsTyped'
  BY <1>0 DEF StartRun, RefsTyped, OwnerTyped
<1>5. GhostsTyped'
  <2>1. tracking[head].extra \in SUBSET Foreign
    BY <1>0 DEF WorldTyped, OwnerTyped, RemoteTip
  <2>2. seen' \in [RunId -> SUBSET Foreign]
    BY <1>0, <1>1, <2>1 DEF StartRun, GhostsTyped
  <2>3. fate' \in [Name -> {"none", "rebased", "killed"}]
    BY <1>0 DEF StartRun, GhostsTyped
  <2> QED
    BY <1>0, <2>2, <2>3 DEF StartRun, GhostsTyped
<1>6. TypeOK'
  BY <1>0, <1>3, <1>4, <1>5, WorldFrame, OwnerFrame, PromoteFrame, PublishFrame
     DEF StartRun, TypeOK
<1>7. RunOwnsBranch'
  BY <1>0, NotCommit DEF StartRun, RunOwnsBranch, RefsTyped, OwnerTyped
<1> QED
  BY <1>6, <1>7, FilesFrame, DealsFrame, ConsentFrame DEF StartRun, ImplInv

LEMMA StartRebaseKeeps ==
  ASSUME ImplInv, StartRebase
  PROVE  ImplInv'
<1>0. TypeOK /\ RefsTyped /\ WorldTyped /\ RunnerTyped
  BY DEF ImplInv, TypeOK
<1>1. job \in Job
  BY <1>0 DEF StartRebase, RunnerTyped
<1>2. job' \in Job /\ job'.name = job.name /\ job'.from = job.from
  BY <1>0, <1>1 DEF StartRebase, Job, WorldTyped
<1>3. RunnerTyped'
  BY <1>0, <1>2, NotJob DEF StartRebase, RunnerTyped, Stages
<1>4. RefsTyped'
  BY <1>0, <1>1 DEF StartRebase, RefsTyped, WorldTyped, Job
<1>5. TypeOK'
  BY <1>0, <1>3, <1>4, WorldFrame, OwnerFrame, PromoteFrame, PublishFrame, GhostsFrame
     DEF StartRebase, TypeOK
<1>6. RunOwnsBranch'
  BY <1>2 DEF StartRebase, RunOwnsBranch, ImplInv
<1> QED
  BY <1>5, <1>6, FilesFrame, DealsFrame, ConsentFrame DEF StartRebase, ImplInv, ghosts

LEMMA RebaseCompletesKeeps ==
  ASSUME ImplInv, NEW accepted \in BOOLEAN, RebaseCompletes(accepted)
  PROVE  ImplInv'
<1> DEFINE result == Rebased(job.from, job.onto, job.id)
<1>0. TypeOK /\ RefsTyped /\ RunnerTyped /\ GhostsTyped
  BY DEF ImplInv, TypeOK
<1>1. job \in Job /\ job.name \in Name
  BY <1>0 DEF RebaseCompletes, RunnerTyped, Job
<1>2. result \in Commit /\ result.edits = job.from.edits
  <2>1. job.from \in Commit /\ job.onto \in Upstream /\ job.id \in 0..MaxRun
    BY <1>1, BoundsAssumption DEF Job, RunId
  <2>2. [job.from EXCEPT !.onto = job.onto, !.by = job.id] \in Commit
    BY <2>1 DEF Commit
  <2>3. [job.from EXCEPT !.onto = job.onto, !.by = job.id].edits = job.from.edits
    BY <2>1 DEF Commit
  <2> QED
    BY <2>1, <2>2, <2>3 DEF Rebased
<1>3. job' \in Job /\ job'.name = job.name /\ job'.from = job.from
  BY <1>1 DEF RebaseCompletes, Job
<1>4. RunnerTyped'
  BY <1>0, <1>3, NotJob DEF RebaseCompletes, RunnerTyped, Stages
<1>5. RefsTyped'
  BY <1>0, <1>1, <1>2 DEF RebaseCompletes, RefsTyped
<1>6. GhostsTyped'
  BY <1>0, <1>1 DEF RebaseCompletes, GhostsTyped
<1>7. TypeOK'
  BY <1>0, <1>4, <1>5, <1>6, WorldFrame, OwnerFrame, PromoteFrame, PublishFrame
     DEF RebaseCompletes, TypeOK
<1>8. branch'[job.name] = result
  BY <1>0, <1>1 DEF RebaseCompletes, RefsTyped
<1>9. RunOwnsBranch'
  BY <1>2, <1>3, <1>8 DEF RebaseCompletes, RunOwnsBranch, ImplInv
<1> QED
  BY <1>7, <1>9, FilesFrame, DealsFrame, ConsentFrame DEF RebaseCompletes, ImplInv

\* The steps that only change the stage.
LEMMA StageKeeps ==
  ASSUME ImplInv, RebaseEscalates \/ Interrupt
  PROVE  ImplInv'
<1>1. RunnerTyped'
  BY DEF ImplInv, TypeOK, RebaseEscalates, Interrupt, RunnerTyped, Stages
<1>2. TypeOK'
  BY <1>1, RefsFrame, WorldFrame, OwnerFrame, PromoteFrame, PublishFrame, GhostsFrame
     DEF ImplInv, TypeOK, RebaseEscalates, Interrupt
<1>3. RunOwnsBranch'
  BY DEF RebaseEscalates, Interrupt, RunOwnsBranch, ImplInv, refs
<1> QED
  BY <1>2, <1>3, FilesFrame, DealsFrame, ConsentFrame
     DEF RebaseEscalates, Interrupt, ImplInv, refs, ghosts

LEMMA AggregateTierIsTier ==
  ASSUME NEW tiers \in SUBSET StepTier
  PROVE  AggregateTier(tiers) \in Tier
  BY DEF AggregateTier, Tier

\* The state file WriteBundle writes.
LEMMA BundleState ==
  ASSUME ImplInv, NEW tiers \in SUBSET StepTier, WriteBundle(tiers)
  PROVE  \E s \in State :
            /\ file' = [file EXCEPT ![PathOf(s)] = s]
            /\ PathOf(s) \in Path
            /\ Successful(s) => /\ s.candidate \in Commit
                                /\ s.candidate.edits = s.from.edits
                                /\ OfferOf(s) \in Offer
                                /\ offers' = offers \union {OfferOf(s)}
            /\ ~Successful(s) => offers' = offers
<1> DEFINE s == [run |-> job.id, branch |-> job.name.branch, from |-> job.from,
                 target |-> job.target, name |-> job.name,
                 outcome |-> IF job.ok THEN "success" ELSE "escalated",
                 candidate |-> IF job.ok THEN branch[job.name] ELSE NoCommit,
                 tier |-> AggregateTier(tiers), lease |-> job.lease,
                 promoted |-> FALSE, published |-> FALSE]
<1>1. job \in Job /\ job.name \in Name
  BY DEF ImplInv, TypeOK, RunnerTyped, WriteBundle, Job
<1>2. branch[job.name] \in Commit /\ branch[job.name].edits = job.from.edits
  BY DEF ImplInv, RunOwnsBranch, WriteBundle
<1>3. s \in State
  BY <1>1, <1>2, AggregateTierIsTier DEF State, Job, Name
<1>4. PathOf(s) \in Path
  BY <1>1 DEF PathOf, Path, Name
<1>5. file' = [file EXCEPT ![PathOf(s)] = s]
  BY DEF WriteBundle
<1>6. offers' = IF job.ok THEN offers \union {OfferOf(s)} ELSE offers
  BY DEF WriteBundle
<1>7. Successful(s) <=> job.ok
  BY <1>1, <1>3, NotState DEF Successful, Job
<1>8. job.ok => s.candidate \in Commit /\ s.candidate.edits = s.from.edits
  BY <1>2
<1>9. job.ok => OfferOf(s) \in Offer
  BY <1>3, <1>8 DEF OfferOf, Offer, State
<1> QED
  BY <1>3, <1>4, <1>5, <1>6, <1>7, <1>8, <1>9

LEMMA WriteBundleKeeps ==
  ASSUME ImplInv, NEW tiers \in SUBSET StepTier, WriteBundle(tiers)
  PROVE  ImplInv'
<1>0. TypeOK /\ RefsTyped /\ RunnerTyped /\ GhostsTyped
  BY DEF ImplInv, TypeOK
<1>1. PICK s \in State :
         /\ file' = [file EXCEPT ![PathOf(s)] = s]
         /\ PathOf(s) \in Path
         /\ Successful(s) => /\ s.candidate \in Commit
                             /\ s.candidate.edits = s.from.edits
                             /\ OfferOf(s) \in Offer
                             /\ offers' = offers \union {OfferOf(s)}
         /\ ~Successful(s) => offers' = offers
  BY BundleState
<1>2. RefsTyped'
  BY <1>0, <1>1 DEF WriteBundle, RefsTyped
<1>3. RunnerTyped'
  BY <1>0 DEF WriteBundle, RunnerTyped, Stages
<1>4. offers \subseteq offers' /\ offers' \subseteq Offer
  BY <1>0, <1>1 DEF GhostsTyped
<1>5. GhostsTyped'
  BY <1>0, <1>4 DEF WriteBundle, GhostsTyped
<1>6. TypeOK'
  BY <1>0, <1>2, <1>3, <1>5, WorldFrame, OwnerFrame, PromoteFrame, PublishFrame
     DEF WriteBundle, TypeOK
<1>7. FilesAreOffered'
  <2>1. SUFFICES ASSUME NEW path \in Path, Successful(file'[path])
                 PROVE  GoodState(file[path])'
    BY DEF FilesAreOffered, Successful
  <2>2. CASE path = PathOf(s)
    BY <1>0, <1>1, <2>1, <2>2 DEF RefsTyped, GoodState
  <2>3. CASE path # PathOf(s)
    BY <1>0, <1>1, <1>4, <2>1, <2>3 DEF RefsTyped, GoodState, ImplInv, FilesAreOffered
  <2> QED
    BY <2>2, <2>3
<1>8. DealsAreOffered'
  BY <1>4 DEF WriteBundle, DealsAreOffered, GoodState, Successful, ImplInv, promote, publish
<1>9. Consented' /\ RunOwnsBranch'
  BY ConsentFrame DEF WriteBundle, ImplInv, RunOwnsBranch
<1> QED
  BY <1>6, <1>7, <1>8, <1>9 DEF ImplInv

\* Clean-up and kill.
LEMMA CleanupKeeps ==
  ASSUME ImplInv, RemoveWorktree \/ DeleteRefs \/ Kill
  PROVE  ImplInv'
<1>0. RefsTyped /\ RunnerTyped /\ GhostsTyped
  BY DEF ImplInv, TypeOK
<1>1. job \in Job /\ job.name \in Name
  BY <1>0 DEF RunnerTyped, RemoveWorktree, DeleteRefs, Kill, Job
<1>2. RefsTyped'
  BY <1>0, <1>1, RefsFrame DEF RemoveWorktree, DeleteRefs, Kill, RefsTyped
<1>3. RunnerTyped'
  BY <1>0, NotJob DEF RemoveWorktree, DeleteRefs, Kill, RunnerTyped, Stages
<1>4. GhostsTyped'
  BY <1>0, <1>1, GhostsFrame DEF RemoveWorktree, DeleteRefs, Kill, GhostsTyped
<1>5. TypeOK'
  BY <1>2, <1>3, <1>4, WorldFrame, OwnerFrame, PromoteFrame, PublishFrame
     DEF ImplInv, TypeOK, RemoveWorktree, DeleteRefs, Kill
<1>6. RunOwnsBranch'
  BY DEF RunOwnsBranch, RemoveWorktree, DeleteRefs, Kill
<1> QED
  BY <1>5, <1>6, FilesFrame, DealsFrame, ConsentFrame
     DEF ImplInv, RemoveWorktree, DeleteRefs, Kill, refs, ghosts

-------------------------------------------------------------------------------
\* The steps of promote and publish.

\* What the invariant says of a promote that is under way.
LEMMA DealAtHand ==
  ASSUME ImplInv, NEW p \in Promoter, step[p] # "idle"
  PROVE  /\ deal[p] \in Deal /\ deal[p].state \in State
         /\ Successful(deal[p].state) /\ GoodState(deal[p].state)
         /\ deal[p].state.branch \in Branch /\ deal[p].state.name \in Name
<1>1. deal[p] \in Deal
  BY DEF ImplInv, TypeOK, PromoteTyped
<1>2. deal[p].state \in State
  BY <1>1 DEF Deal
<1> QED
  BY <1>1, <1>2 DEF ImplInv, DealsAreOffered, State

LEMMA OrderAtHand ==
  ASSUME ImplInv, NEW q \in Publisher, pushing[q] # "idle"
  PROVE  /\ order[q] \in Deal /\ order[q].state \in State
         /\ Successful(order[q].state) /\ GoodState(order[q].state)
         /\ order[q].state.branch \in Branch /\ order[q].state.name \in Name
<1>1. order[q] \in Deal
  BY DEF ImplInv, TypeOK, PublishTyped
<1>2. order[q].state \in State
  BY <1>1 DEF Deal
<1> QED
  BY <1>1, <1>2 DEF ImplInv, DealsAreOffered, State

\* An invocation whose state is offered, and whose consent is in order, may be
\* moved to any step.
LEMMA PromoteDealsKeep ==
  ASSUME ImplInv, NEW p \in Promoter, NEW s \in Steps, NEW d \in Deal \union {NoDeal},
         step' = [step EXCEPT ![p] = s], deal' = [deal EXCEPT ![p] = d],
         UNCHANGED <<publish, offers>>,
         s # "idle" => Successful(d.state) /\ GoodState(d.state),
         s \in {"swap", "reset"} => d.state.tier = "A" \/ d.approve
  PROVE  DealsAreOffered' /\ Consented'
<1>0. step \in [Promoter -> Steps] /\ deal \in [Promoter -> Deal \union {NoDeal}]
  BY DEF ImplInv, TypeOK, PromoteTyped
<1>1. \A r \in Promoter :
         step'[r] # "idle" => Successful(deal'[r].state) /\ GoodState(deal'[r].state)
  BY <1>0 DEF ImplInv, DealsAreOffered
<1>2. DealsAreOffered'
  BY <1>1 DEF ImplInv, DealsAreOffered, GoodState, Successful, publish
<1>3. Consented'
  BY <1>0 DEF ImplInv, Consented
<1> QED
  BY <1>2, <1>3

LEMMA PublishDealsKeep ==
  ASSUME ImplInv, NEW q \in Publisher, NEW s \in Pushes, NEW d \in Deal \union {NoDeal},
         pushing' = [pushing EXCEPT ![q] = s], order' = [order EXCEPT ![q] = d],
         UNCHANGED <<promote, offers>>,
         s # "idle" => Successful(d.state) /\ GoodState(d.state)
  PROVE  DealsAreOffered'
<1>0. pushing \in [Publisher -> Pushes] /\ order \in [Publisher -> Deal \union {NoDeal}]
  BY DEF ImplInv, TypeOK, PublishTyped
<1>1. \A r \in Publisher :
         pushing'[r] # "idle" => Successful(order'[r].state) /\ GoodState(order'[r].state)
  BY <1>0 DEF ImplInv, DealsAreOffered
<1> QED
  BY <1>1 DEF ImplInv, DealsAreOffered, GoodState, Successful, promote

\* Writing back a state that is offered.
LEMMA WriteStateKeeps ==
  ASSUME ImplInv, NEW path \in Path, NEW s \in State, Successful(s), GoodState(s),
         file' = [file EXCEPT ![path] = s], UNCHANGED offers
  PROVE  FilesAreOffered'
<1>0. file \in [Path -> State \union {NoState}]
  BY DEF ImplInv, TypeOK, RefsTyped
<1>1. \A r \in Path : Successful(file'[r]) => GoodState(file'[r])
  BY <1>0 DEF ImplInv, FilesAreOffered
<1> QED
  BY <1>1 DEF FilesAreOffered, GoodState, Successful

LEMMA PromoteKeeps ==
  ASSUME ImplInv, NEW p \in Promoter, NEW path \in Path, Promote(p, path)
  PROVE  ImplInv'
<1> DEFINE d == [state |-> file[path], approve |-> FALSE, checkout |-> FALSE]
<1>1. file[path] \in State /\ Successful(file[path])
  BY DEF ImplInv, TypeOK, RefsTyped, Promote, Successful
<1>2. d \in Deal /\ d # NoDeal
  <2>1. d \in Deal
    BY <1>1 DEF Deal
  <2> QED
    BY <2>1, NotDeal
<1>3. deal' = [deal EXCEPT ![p] = d] /\ step' = [step EXCEPT ![p] = "check"]
  BY DEF Promote
<1>4. GoodState(d.state) /\ Successful(d.state)
  BY <1>1 DEF ImplInv, FilesAreOffered
<1> HIDE DEF d
<1>5. PromoteTyped'
  BY <1>2, <1>3, PromoteMoves DEF ImplInv, TypeOK, Steps
<1>6. TypeOK'
  BY <1>5, RefsFrame, WorldFrame, OwnerFrame, RunnerFrame, PublishFrame, GhostsFrame
     DEF ImplInv, TypeOK, Promote
<1>7. DealsAreOffered' /\ Consented'
  BY <1>2, <1>3, <1>4, PromoteDealsKeep DEF Promote, ghosts, Steps
<1> QED
  BY <1>6, <1>7, FilesFrame, RunFrame DEF ImplInv, Promote, refs, runner, ghosts

LEMMA CheckPromoteKeeps ==
  ASSUME ImplInv, NEW p \in Promoter, NEW approve \in BOOLEAN, NEW checkout \in BOOLEAN,
         CheckPromote(p, approve, checkout)
  PROVE  ImplInv'
<1> DEFINE d == [state |-> deal[p].state, approve |-> approve,
                 checkout |-> checkout /\ head = deal[p].state.branch]
<1>1. deal[p].state \in State /\ Successful(deal[p].state) /\ GoodState(deal[p].state)
  BY DealAtHand DEF CheckPromote
<1>2. d \in Deal /\ d # NoDeal
  <2>1. d \in Deal
    BY <1>1 DEF Deal
  <2> QED
    BY <2>1, NotDeal
<1>3. deal' = [deal EXCEPT ![p] = d] /\ step' = [step EXCEPT ![p] = "swap"]
  BY DEF CheckPromote
<1>4. GoodState(d.state) /\ Successful(d.state) /\ (d.state.tier = "A" \/ d.approve)
  BY <1>1 DEF CheckPromote, MayPromote
<1> HIDE DEF d
<1>5. PromoteTyped'
  BY <1>2, <1>3, PromoteMoves DEF ImplInv, TypeOK, Steps
<1>6. TypeOK'
  BY <1>5, RefsFrame, WorldFrame, OwnerFrame, RunnerFrame, PublishFrame, GhostsFrame
     DEF ImplInv, TypeOK, CheckPromote
<1>7. DealsAreOffered' /\ Consented'
  BY <1>2, <1>3, <1>4, PromoteDealsKeep DEF CheckPromote, ghosts, Steps
<1> QED
  BY <1>6, <1>7, FilesFrame, RunFrame DEF ImplInv, CheckPromote, refs, runner, ghosts

LEMMA AbandonPromoteKeeps ==
  ASSUME ImplInv, NEW p \in Promoter, AbandonPromote(p)
  PROVE  ImplInv'
<1>1. deal' = [deal EXCEPT ![p] = NoDeal] /\ step' = [step EXCEPT ![p] = "idle"]
  BY DEF AbandonPromote, EndPromote
<1>2. PromoteTyped'
  BY <1>1, PromoteMoves DEF ImplInv, TypeOK, Steps
<1>3. TypeOK'
  BY <1>2, RefsFrame, WorldFrame, OwnerFrame, RunnerFrame, PublishFrame, GhostsFrame
     DEF ImplInv, TypeOK, AbandonPromote
<1>4. DealsAreOffered' /\ Consented'
  BY <1>1, PromoteDealsKeep DEF AbandonPromote, ghosts, Steps
<1> QED
  BY <1>3, <1>4, FilesFrame, RunFrame DEF ImplInv, AbandonPromote, refs, runner, ghosts

LEMMA SwapKeeps ==
  ASSUME ImplInv, NEW p \in Promoter, Swap(p)
  PROVE  ImplInv'
<1> DEFINE s == deal[p].state
           next == IF deal[p].checkout THEN "reset" ELSE "record"
<1>0. RefsTyped /\ OwnerTyped /\ PromoteTyped /\ GhostsTyped
  BY DEF ImplInv, TypeOK
<1>1. deal[p] \in Deal /\ s \in State /\ Successful(s) /\ GoodState(s) /\ s.branch \in Branch
  BY DealAtHand DEF Swap
<1>2. deal' = [deal EXCEPT ![p] = deal[p]] /\ step' = [step EXCEPT ![p] = next]
  BY <1>0 DEF Swap, PromoteTyped
<1>3. PromoteTyped'
  BY <1>0, <1>1, <1>2, NotDeal, PromoteMoves DEF Steps
<1>4. RefsTyped'
  BY <1>0, <1>1 DEF Swap, RefsTyped, GoodState
<1>5. OwnerTyped'
  BY <1>0 DEF Swap, OwnerTyped
<1>6. [offer |-> OfferOf(s), consent |-> deal[p].approve] \in [offer: Offer, consent: BOOLEAN]
  BY <1>0, <1>1 DEF GoodState, Deal, GhostsTyped
<1>7. GhostsTyped'
  BY <1>0, <1>6 DEF Swap, GhostsTyped
<1>8. TypeOK'
  BY <1>3, <1>4, <1>5, <1>7, WorldFrame, RunnerFrame, PublishFrame DEF ImplInv, TypeOK, Swap
<1>9. s.tier = "A" \/ deal[p].approve
  BY DEF Swap, ImplInv, Consented
<1>10. DealsAreOffered' /\ Consented'
  BY <1>1, <1>2, <1>9, PromoteDealsKeep DEF Swap, Steps
<1> QED
  BY <1>8, <1>10, FilesFrame, RunFrame DEF ImplInv, Swap, runner

LEMMA ResetCheckoutKeeps ==
  ASSUME ImplInv, NEW p \in Promoter, ResetCheckout(p)
  PROVE  ImplInv'
<1> DEFINE s == deal[p].state
<1>0. RefsTyped /\ OwnerTyped /\ PromoteTyped /\ GhostsTyped
  BY DEF ImplInv, TypeOK
<1>1. deal[p] \in Deal /\ s \in State /\ Successful(s) /\ GoodState(s)
  BY DealAtHand DEF ResetCheckout
<1>2. deal' = [deal EXCEPT ![p] = deal[p]] /\ step' = [step EXCEPT ![p] = "record"]
  BY <1>0 DEF ResetCheckout, PromoteTyped
<1>3. PromoteTyped'
  BY <1>0, <1>1, <1>2, NotDeal, PromoteMoves DEF Steps
<1>4. RefsTyped'
  BY <1>0, <1>1 DEF ResetCheckout, RefsTyped, OwnerTyped, GoodState
<1>5. OwnerTyped' /\ GhostsTyped'
  BY <1>0 DEF ResetCheckout, OwnerTyped, GhostsTyped
<1>6. TypeOK'
  BY <1>3, <1>4, <1>5, WorldFrame, RunnerFrame, PublishFrame DEF ImplInv, TypeOK, ResetCheckout
<1>7. DealsAreOffered' /\ Consented'
  BY <1>1, <1>2, PromoteDealsKeep DEF ResetCheckout, Steps
<1> QED
  BY <1>6, <1>7, FilesFrame, RunFrame DEF ImplInv, ResetCheckout, runner

LEMMA RecordPromotionKeeps ==
  ASSUME ImplInv, NEW p \in Promoter, NEW written \in BOOLEAN, RecordPromotion(p, written)
  PROVE  ImplInv'
<1> DEFINE s == [deal[p].state EXCEPT !.promoted = TRUE]
           path == PathOf(deal[p].state)
<1>0. RefsTyped /\ PromoteTyped
  BY DEF ImplInv, TypeOK
<1>1. /\ deal[p] \in Deal /\ deal[p].state \in State /\ deal[p].state.name \in Name
      /\ Successful(deal[p].state) /\ GoodState(deal[p].state)
  BY DealAtHand DEF RecordPromotion
<1>2. s \in State /\ path \in Path
  BY <1>1 DEF State, PathOf, Path, Name
<1>3. Successful(s) /\ GoodState(s)
  BY <1>1, <1>2, NotState DEF Successful, GoodState, OfferOf, State
<1>4. file' = [file EXCEPT ![path] = s] \/ file' = file
  BY DEF RecordPromotion
<1> HIDE DEF s, path
<1>5. FilesAreOffered'
  BY <1>2, <1>3, <1>4, WriteStateKeeps, FilesFrame DEF RecordPromotion, ghosts, ImplInv
<1>6. RefsTyped'
  BY <1>0, <1>2, <1>4 DEF RecordPromotion, RefsTyped
<1>7. deal' = [deal EXCEPT ![p] = deal[p]] /\ step' = [step EXCEPT ![p] = "consume"]
  BY <1>0 DEF RecordPromotion, PromoteTyped
<1>8. PromoteTyped'
  BY <1>0, <1>1, <1>7, NotDeal, PromoteMoves DEF Steps
<1>9. TypeOK'
  BY <1>6, <1>8, WorldFrame, OwnerFrame, RunnerFrame, PublishFrame, GhostsFrame
     DEF ImplInv, TypeOK, RecordPromotion
<1>10. DealsAreOffered' /\ Consented'
  BY <1>1, <1>7, PromoteDealsKeep DEF RecordPromotion, ghosts, Steps
<1> QED
  BY <1>5, <1>9, <1>10, RunFrame DEF ImplInv, RecordPromotion, runner

\* The branch of a live run is checked out in its worktree: promote cannot
\* delete it.
LEMMA ConsumeBranchKeeps ==
  ASSUME ImplInv, NEW p \in Promoter, NEW keep \in BOOLEAN, ConsumeBranch(p, keep)
  PROVE  ImplInv'
<1>0. RefsTyped /\ RunnerTyped
  BY DEF ImplInv, TypeOK
<1>1. deal[p].state.name \in Name
  BY DealAtHand DEF ConsumeBranch
<1>2. RefsTyped'
  BY <1>0, <1>1 DEF ConsumeBranch, RefsTyped
<1>3. deal' = [deal EXCEPT ![p] = NoDeal] /\ step' = [step EXCEPT ![p] = "idle"]
  BY DEF ConsumeBranch, EndPromote
<1>4. PromoteTyped'
  BY <1>3, PromoteMoves DEF ImplInv, TypeOK, Steps
<1>5. TypeOK'
  BY <1>2, <1>4, WorldFrame, OwnerFrame, RunnerFrame, PublishFrame, GhostsFrame
     DEF ImplInv, TypeOK, ConsumeBranch
<1>6. DealsAreOffered' /\ Consented'
  BY <1>3, PromoteDealsKeep DEF ConsumeBranch, ghosts, Steps
<1>7. \A n \in worktrees \intersect Name : branch'[n] = branch[n]
  BY <1>0, <1>1 DEF ConsumeBranch, RefsTyped
<1>8. RunOwnsBranch'
  BY <1>0, <1>7 DEF ConsumeBranch, RunOwnsBranch, ImplInv, runner, RefsTyped
<1> QED
  BY <1>5, <1>6, <1>8, FilesFrame DEF ImplInv, ConsumeBranch, ghosts

LEMMA PublishKeeps ==
  ASSUME ImplInv, NEW q \in Publisher, NEW path \in Path, NEW approve \in BOOLEAN,
         Publish(q, path, approve)
  PROVE  ImplInv'
<1> DEFINE d == [state |-> file[path], approve |-> approve, checkout |-> FALSE]
<1>1. file[path] \in State /\ Successful(file[path])
  BY DEF ImplInv, TypeOK, RefsTyped, Publish, Successful
<1>2. d \in Deal /\ d # NoDeal
  <2>1. d \in Deal
    BY <1>1 DEF Deal
  <2> QED
    BY <2>1, NotDeal
<1>3. order' = [order EXCEPT ![q] = d] /\ pushing' = [pushing EXCEPT ![q] = "push"]
  BY DEF Publish
<1>4. GoodState(d.state) /\ Successful(d.state)
  BY <1>1 DEF ImplInv, FilesAreOffered
<1> HIDE DEF d
<1>5. PublishTyped'
  BY <1>2, <1>3, PublishMoves DEF ImplInv, TypeOK, Pushes
<1>6. TypeOK'
  BY <1>5, RefsFrame, WorldFrame, OwnerFrame, RunnerFrame, PromoteFrame, GhostsFrame
     DEF ImplInv, TypeOK, Publish
<1>7. DealsAreOffered'
  BY <1>2, <1>3, <1>4, PublishDealsKeep DEF Publish, ghosts, Pushes
<1> QED
  BY <1>6, <1>7, FilesFrame, ConsentFrame, RunFrame DEF ImplInv, Publish, refs, runner, ghosts

LEMMA PushKeeps ==
  ASSUME ImplInv, NEW q \in Publisher, NEW dry \in BOOLEAN, Push(q, dry)
  PROVE  ImplInv'
<1> DEFINE s == order[q].state
           tip == [base |-> s.candidate, extra |-> {}]
<1>0. WorldTyped /\ PublishTyped
  BY DEF ImplInv, TypeOK
<1>1. order[q] \in Deal /\ Successful(s) /\ GoodState(s) /\ s.branch \in Branch
  BY OrderAtHand DEF Push
<1>2. tip \in RemoteTip
  BY <1>1 DEF RemoteTip, GoodState
<1>3. WorldTyped'
  BY <1>0, <1>1, <1>2 DEF Push, WorldTyped
<1>4. order' = [order EXCEPT ![q] = order[q]] /\ pushing' = [pushing EXCEPT ![q] = "record"]
  BY <1>0 DEF Push, PublishTyped
<1>5. PublishTyped'
  BY <1>0, <1>1, <1>4, NotDeal, PublishMoves DEF Pushes
<1>6. TypeOK'
  BY <1>3, <1>5, RefsFrame, OwnerFrame, RunnerFrame, PromoteFrame, GhostsFrame
     DEF ImplInv, TypeOK, Push
<1>7. DealsAreOffered'
  BY <1>1, <1>4, PublishDealsKeep DEF Push, ghosts, Pushes
<1> QED
  BY <1>6, <1>7, FilesFrame, ConsentFrame, RunFrame DEF ImplInv, Push, refs, runner, ghosts

LEMMA AbandonPublishKeeps ==
  ASSUME ImplInv, NEW q \in Publisher, AbandonPublish(q)
  PROVE  ImplInv'
<1>1. order' = [order EXCEPT ![q] = NoDeal] /\ pushing' = [pushing EXCEPT ![q] = "idle"]
  BY DEF AbandonPublish, EndPublish
<1>2. PublishTyped'
  BY <1>1, PublishMoves DEF ImplInv, TypeOK, Pushes
<1>3. TypeOK'
  BY <1>2, RefsFrame, WorldFrame, OwnerFrame, RunnerFrame, PromoteFrame, GhostsFrame
     DEF ImplInv, TypeOK, AbandonPublish
<1>4. DealsAreOffered'
  BY <1>1, PublishDealsKeep DEF AbandonPublish, ghosts, Pushes
<1> QED
  BY <1>3, <1>4, FilesFrame, ConsentFrame, RunFrame
     DEF ImplInv, AbandonPublish, refs, runner, ghosts

LEMMA RecordPublicationKeeps ==
  ASSUME ImplInv, NEW q \in Publisher, RecordPublication(q)
  PROVE  ImplInv'
<1> DEFINE s == [order[q].state EXCEPT !.published = TRUE]
           path == PathOf(order[q].state)
<1>0. RefsTyped
  BY DEF ImplInv, TypeOK
<1>1. /\ order[q].state \in State /\ order[q].state.name \in Name
      /\ Successful(order[q].state) /\ GoodState(order[q].state)
  BY OrderAtHand DEF RecordPublication
<1>2. s \in State /\ path \in Path
  BY <1>1 DEF State, PathOf, Path, Name
<1>3. Successful(s) /\ GoodState(s)
  BY <1>1, <1>2, NotState DEF Successful, GoodState, OfferOf, State
<1>4. file' = [file EXCEPT ![path] = s]
  BY DEF RecordPublication
<1> HIDE DEF s, path
<1>5. FilesAreOffered'
  BY <1>2, <1>3, <1>4, WriteStateKeeps DEF RecordPublication, ghosts
<1>6. RefsTyped'
  BY <1>0, <1>2, <1>4 DEF RecordPublication, RefsTyped
<1>7. order' = [order EXCEPT ![q] = NoDeal] /\ pushing' = [pushing EXCEPT ![q] = "idle"]
  BY DEF RecordPublication, EndPublish
<1>8. PublishTyped'
  BY <1>7, PublishMoves DEF ImplInv, TypeOK, Pushes
<1>9. TypeOK'
  BY <1>6, <1>8, WorldFrame, OwnerFrame, RunnerFrame, PromoteFrame, GhostsFrame
     DEF ImplInv, TypeOK, RecordPublication
<1>10. DealsAreOffered'
  BY <1>7, PublishDealsKeep DEF RecordPublication, ghosts, Pushes
<1> QED
  BY <1>5, <1>9, <1>10, ConsentFrame, RunFrame DEF ImplInv, RecordPublication, runner

-------------------------------------------------------------------------------
\* The steps of the owner, of other people, of git and of time.

LEMMA OwnerCommitsKeeps ==
  ASSUME ImplInv, NEW b \in Branch, NEW e \in Edit, OwnerCommits(b, e)
  PROVE  ImplInv'
<1> DEFINE c == [source[b] EXCEPT !.edits = @ \union {e}, !.by = 0]
<1>0. RefsTyped /\ OwnerTyped /\ GhostsTyped
  BY DEF ImplInv, TypeOK
<1>1. c \in Commit
  <2> DEFINE d == [source[b] EXCEPT !.edits = @ \union {e}]
  <2>1. source[b] \in Commit
    BY <1>0 DEF RefsTyped
  <2>2. d \in Commit
    BY <2>1 DEF Commit
  <2>3. 0 \in 0..MaxRun
    BY BoundsAssumption
  <2>4. c = [d EXCEPT !.by = 0]
    OBVIOUS
  <2> HIDE DEF c, d
  <2> QED
    BY <2>2, <2>3, <2>4 DEF Commit
<1>2. source' = [source EXCEPT ![b] = c] /\ objects' = objects \union {c}
  BY DEF OwnerCommits
<1> HIDE DEF c
<1>3. RefsTyped'
  BY <1>0, <1>1, <1>2 DEF OwnerCommits, RefsTyped
<1>4. OwnerTyped' /\ GhostsTyped'
  BY <1>0 DEF OwnerCommits, OwnerTyped, GhostsTyped
<1>5. TypeOK'
  BY <1>3, <1>4, WorldFrame, RunnerFrame, PromoteFrame, PublishFrame
     DEF ImplInv, TypeOK, OwnerCommits
<1> QED
  BY <1>5, FilesFrame, DealsFrame, ConsentFrame, RunFrame DEF ImplInv, OwnerCommits, runner

LEMMA OwnerResetsKeeps ==
  ASSUME ImplInv, NEW c \in objects, OwnerResets(c)
  PROVE  ImplInv'
<1>0. RefsTyped /\ WorldTyped /\ OwnerTyped /\ GhostsTyped
  BY DEF ImplInv, TypeOK
<1>1. c \in Commit
  BY <1>0 DEF RefsTyped
<1>2. c.branch \in Branch /\ c.edits \in SUBSET Edit
  BY <1>1 DEF Commit
<1>3. RefsTyped' /\ WorldTyped' /\ OwnerTyped' /\ GhostsTyped'
  BY <1>0, <1>1, <1>2 DEF OwnerResets, RefsTyped, WorldTyped, OwnerTyped, GhostsTyped
<1>4. TypeOK'
  BY <1>3, RunnerFrame, PromoteFrame, PublishFrame DEF ImplInv, TypeOK, OwnerResets
<1> QED
  BY <1>4, FilesFrame, DealsFrame, ConsentFrame, RunFrame DEF ImplInv, OwnerResets, runner

LEMMA WorktreeKeeps ==
  ASSUME ImplInv, OwnerWorks \/ \E b \in Branch : OwnerChecksOut(b)
  PROVE  ImplInv'
<1>1. OwnerTyped'
  BY DEF ImplInv, TypeOK, OwnerTyped, OwnerWorks, OwnerChecksOut
<1>2. TypeOK'
  BY <1>1, RefsFrame, WorldFrame, RunnerFrame, PromoteFrame, PublishFrame, GhostsFrame
     DEF ImplInv, TypeOK, OwnerWorks, OwnerChecksOut
<1> QED
  BY <1>2, FilesFrame, DealsFrame, ConsentFrame, RunFrame
     DEF ImplInv, OwnerWorks, OwnerChecksOut, refs, runner, ghosts

LEMMA ForeignPushKeeps ==
  ASSUME ImplInv, NEW b \in Branch, NEW f \in Foreign, ForeignPush(b, f)
  PROVE  ImplInv'
<1>0. WorldTyped /\ GhostsTyped
  BY DEF ImplInv, TypeOK
<1>1. [remote[b] EXCEPT !.extra = @ \union {f}] \in RemoteTip
  BY <1>0 DEF WorldTyped, RemoteTip
<1>2. remote' = [remote EXCEPT ![b] = [remote[b] EXCEPT !.extra = @ \union {f}]]
  BY <1>0 DEF ForeignPush, WorldTyped
<1>3. WorldTyped'
  BY <1>0, <1>1, <1>2 DEF ForeignPush, WorldTyped
<1>4. GhostsTyped'
  BY <1>0 DEF ForeignPush, GhostsTyped
<1>5. TypeOK'
  BY <1>3, <1>4, RefsFrame, OwnerFrame, RunnerFrame, PromoteFrame, PublishFrame
     DEF ImplInv, TypeOK, ForeignPush
<1> QED
  BY <1>5, FilesFrame, DealsFrame, ConsentFrame, RunFrame DEF ImplInv, ForeignPush, refs, runner

LEMMA CollectGarbageKeeps ==
  ASSUME ImplInv, CollectGarbage
  PROVE  ImplInv'
<1>1. RefsTyped'
  BY DEF ImplInv, TypeOK, RefsTyped, CollectGarbage
<1>2. TypeOK'
  BY <1>1, WorldFrame, OwnerFrame, RunnerFrame, PromoteFrame, PublishFrame, GhostsFrame
     DEF ImplInv, TypeOK, CollectGarbage
<1> QED
  BY <1>2, FilesFrame, DealsFrame, ConsentFrame, RunFrame
     DEF ImplInv, CollectGarbage, runner, ghosts

LEMMA WorldKeeps ==
  ASSUME ImplInv, (\E u \in Upstream : UpstreamMoves(u)) \/ Fetch \/ Tick
  PROVE  ImplInv'
<1>1. WorldTyped'
  <2>1. CASE Tick
    BY <2>1, BoundsAssumption DEF ImplInv, TypeOK, WorldTyped, Tick, Time
  <2> QED
    BY <2>1 DEF ImplInv, TypeOK, WorldTyped, UpstreamMoves, Fetch
<1>2. TypeOK'
  BY <1>1, RefsFrame, OwnerFrame, RunnerFrame, PromoteFrame, PublishFrame, GhostsFrame
     DEF ImplInv, TypeOK, UpstreamMoves, Fetch, Tick
<1> QED
  BY <1>2, FilesFrame, DealsFrame, ConsentFrame, RunFrame
     DEF ImplInv, UpstreamMoves, Fetch, Tick, refs, runner, ghosts

-------------------------------------------------------------------------------
\* The invariant.

LEMMA ImplInit == Init => ImplInv
<1> SUFFICES ASSUME Init
             PROVE  ImplInv
  OBVIOUS
<1>1. \A b \in Branch : source[b] \in Commit
  BY BoundsAssumption DEF Init, Commit, Upstream
<1>2. RefsTyped
  BY <1>1 DEF Init, RefsTyped
<1>3. WorldTyped
  <2>1. remote \in [Branch -> RemoteTip]
    BY <1>1 DEF Init, RemoteTip
  <2>2. upstream \in Upstream
    BY BoundsAssumption DEF Init, Upstream
  <2>3. clock \in Time /\ undos \in Nat
    BY BoundsAssumption DEF Init, Time
  <2> QED
    BY <2>1, <2>2, <2>3 DEF Init, WorldTyped
<1>4. OwnerTyped /\ RunnerTyped
  BY BoundsAssumption DEF Init, OwnerTyped, RunnerTyped, Stages
<1>5. PromoteTyped /\ PublishTyped
  BY DEF Init, PromoteTyped, PublishTyped, Steps, Pushes
<1>6. GhostsTyped
  BY DEF Init, GhostsTyped
<1>7. FilesAreOffered
  BY DEF Init, FilesAreOffered, Successful
<1>8. DealsAreOffered /\ Consented /\ RunOwnsBranch
  BY DEF Init, DealsAreOffered, Consented, RunOwnsBranch
<1> QED
  BY <1>2, <1>3, <1>4, <1>5, <1>6, <1>7, <1>8 DEF ImplInv, TypeOK

LEMMA ImplStep == ImplInv /\ [Next]_vars => ImplInv'
<1> SUFFICES ASSUME ImplInv, [Next]_vars
             PROVE  ImplInv'
  OBVIOUS
<1>1. CASE RunStep
  BY <1>1, StartRunKeeps, StartRebaseKeeps, RebaseCompletesKeeps, StageKeeps, WriteBundleKeeps,
     CleanupKeeps DEF RunStep
<1>2. CASE OwnerStep
  BY <1>2, OwnerCommitsKeeps, OwnerResetsKeeps, WorktreeKeeps DEF OwnerStep
<1>3. CASE WorldStep
  BY <1>3, WorldKeeps, ForeignPushKeeps, CollectGarbageKeeps DEF WorldStep
<1>4. CASE \E p \in Promoter : PromoteStep(p)
  BY <1>4, PromoteKeeps, CheckPromoteKeeps, AbandonPromoteKeeps, SwapKeeps, ResetCheckoutKeeps,
     RecordPromotionKeeps, ConsumeBranchKeeps DEF PromoteStep
<1>5. CASE \E q \in Publisher : PublishStep(q)
  BY <1>5, PublishKeeps, PushKeeps, AbandonPublishKeeps, RecordPublicationKeeps DEF PublishStep
<1>6. CASE UNCHANGED vars
  <2>1. TypeOK'
    BY <1>6, RefsFrame, WorldFrame, OwnerFrame, RunnerFrame, PromoteFrame, PublishFrame,
       GhostsFrame DEF ImplInv, TypeOK, vars
  <2> QED
    BY <1>6, <2>1, FilesFrame, DealsFrame, ConsentFrame, RunFrame
       DEF ImplInv, vars, refs, runner, ghosts
<1> QED
  BY <1>1, <1>2, <1>3, <1>4, <1>5, <1>6 DEF Next

\* The state of a candidate run, of the state files and of every promote and
\* publish under way stays well-formed: a successful state always names a
\* commit with the edits of the one it was rebased from, promote never reaches
\* its swap without consent, and nobody takes a live run's branch away.
THEOREM CandidateInvariant == Spec => []ImplInv
<1> QED
  BY ImplInit, ImplStep, PTL DEF Spec

\* Every variable of candidate mode keeps its type, for every set of branches,
\* edits and processes and all bounds.
THEOREM CandidateTypes == Spec => []TypeOK
<1>1. ImplInv => TypeOK
  BY DEF ImplInv
<1> QED
  BY <1>1, CandidateInvariant, PTL

-------------------------------------------------------------------------------
\* Candidate mode implements module Promotion.

LEMMA InitRefines == Init => Promise!Init
<1> SUFFICES ASSUME Init
             PROVE  Promise!Init
  OBVIOUS
<1>1. source \in [Branch -> Commit]
  BY ImplInit DEF ImplInv, TypeOK, RefsTyped
<1> QED
  BY <1>1 DEF Init, Promise!Init

\* A run that writes its bundle makes an offer, or changes nothing promised.
LEMMA BundleIsTest ==
  ASSUME ImplInv, NEW tiers \in SUBSET StepTier, WriteBundle(tiers)
  PROVE  Promise!Next \/ UNCHANGED Promise!vars
<1>1. PICK s \in State :
         /\ Successful(s) => /\ OfferOf(s) \in Offer
                             /\ offers' = offers \union {OfferOf(s)}
         /\ ~Successful(s) => offers' = offers
  BY BundleState
<1>2. CASE Successful(s)
  <2>1. OfferOf(s) \in offers' /\ Promise!Test(OfferOf(s))
    BY <1>1, <1>2 DEF WriteBundle, Promise!Test, Offer, Promise!Offer
  <2> QED
    BY <2>1 DEF Promise!Next
<1>3. CASE ~Successful(s)
  BY <1>1, <1>3 DEF WriteBundle, Promise!vars
<1> QED
  BY <1>2, <1>3

\* The compare-and-swap is the landing: at that very step the branch is at the
\* commit the candidate was tested from.
LEMMA SwapIsLand ==
  ASSUME ImplInv, NEW p \in Promoter, Swap(p)
  PROVE  Promise!Next
<1> DEFINE s == deal[p].state
           o == OfferOf(s)
<1>1. deal[p] \in Deal /\ GoodState(s)
  BY DealAtHand DEF Swap
<1>2. o \in offers /\ deal[p].approve \in BOOLEAN
  BY <1>1 DEF GoodState, Deal
<1>3. s.tier = "A" \/ deal[p].approve
  BY DEF Swap, ImplInv, Consented
<1>4. o.branch = s.branch /\ o.from = s.from /\ o.to = s.candidate /\ o.tier = s.tier
  BY DEF OfferOf
<1>5. Promise!Land(o, deal[p].approve)
  <2> HIDE DEF o
  <2> QED
    BY <1>2, <1>3, <1>4 DEF Swap, CanSwap, Promise!Land, o
<1> QED
  BY <1>2, <1>5 DEF Promise!Next

\* The owner's commits and resets, and the reset of promote --checkout.
LEMMA MovesAreMoves ==
  ASSUME ImplInv,
         \/ \E p \in Promoter : ResetCheckout(p)
         \/ \E b \in Branch, e \in Edit : OwnerCommits(b, e)
         \/ \E c \in objects : OwnerResets(c)
  PROVE  Promise!Next
<1>0. RefsTyped /\ OwnerTyped /\ RefsTyped'
  BY ResetCheckoutKeeps, OwnerCommitsKeeps, OwnerResetsKeeps DEF ImplInv, TypeOK
<1>1. ASSUME NEW b \in Branch, NEW c \in Commit, source' = [source EXCEPT ![b] = c],
             UNCHANGED <<offers, landed>>
      PROVE  Promise!Next
  BY <1>1 DEF Promise!Next, Promise!Move
<1>2. ASSUME NEW p \in Promoter, ResetCheckout(p)
      PROVE  Promise!Next
  <2>1. deal[p].state.candidate \in Commit
    BY <1>2, DealAtHand DEF ResetCheckout, GoodState
  <2> QED
    BY <1>0, <1>1, <1>2, <2>1 DEF ResetCheckout, OwnerTyped
<1>3. ASSUME NEW b \in Branch, NEW e \in Edit, OwnerCommits(b, e)
      PROVE  Promise!Next
  <2>1. source'[b] \in Commit
    BY <1>0 DEF RefsTyped
  <2>2. source' = [source EXCEPT ![b] = source'[b]]
    BY <1>0, <1>3 DEF OwnerCommits, RefsTyped
  <2> QED
    BY <1>1, <1>3, <2>1, <2>2 DEF OwnerCommits
<1>4. ASSUME NEW c \in objects, OwnerResets(c)
      PROVE  Promise!Next
  <2>1. c \in Commit /\ c.branch \in Branch
    BY <1>0 DEF RefsTyped, Commit
  <2> QED
    BY <1>1, <1>4, <2>1 DEF OwnerResets
<1> QED
  BY <1>2, <1>3, <1>4

LEMMA StepRefines == ImplInv /\ [Next]_vars => [Promise!Next]_(Promise!vars)
<1> SUFFICES ASSUME ImplInv, [Next]_vars
             PROVE  Promise!Next \/ UNCHANGED Promise!vars
  OBVIOUS
<1>1. CASE RunStep
  BY <1>1, BundleIsTest
     DEF RunStep, StartRun, StartRebase, RebaseCompletes, RebaseEscalates, Interrupt,
         RemoveWorktree, DeleteRefs, Kill, refs, ghosts, Promise!vars
<1>2. CASE OwnerStep
  BY <1>2, MovesAreMoves DEF OwnerStep, OwnerWorks, OwnerChecksOut, refs, ghosts, Promise!vars
<1>3. CASE WorldStep
  BY <1>3 DEF WorldStep, UpstreamMoves, ForeignPush, Fetch, CollectGarbage, Tick, refs, ghosts,
              Promise!vars
<1>4. CASE \E p \in Promoter : PromoteStep(p)
  BY <1>4, SwapIsLand, MovesAreMoves
     DEF PromoteStep, Promote, CheckPromote, AbandonPromote, RecordPromotion, ConsumeBranch,
         refs, ghosts, Promise!vars
<1>5. CASE \E q \in Publisher : PublishStep(q)
  BY <1>5 DEF PublishStep, Publish, Push, AbandonPublish, RecordPublication, refs, ghosts,
              Promise!vars
<1>6. CASE UNCHANGED vars
  BY <1>6 DEF vars, refs, ghosts, Promise!vars
<1> QED
  BY <1>1, <1>2, <1>3, <1>4, <1>5, <1>6 DEF Next

\* However runs, promotes, publishes, kills and the owner interleave, a source
\* branch receives a candidate only in one step, from exactly the commit it was
\* tested on, and below tier A only with --approve.
THEOREM CandidateImplementsPromotion == Spec => Promised
<1> QED
  BY InitRefines, StepRefines, CandidateInvariant, PTL DEF Spec, Promised, Promise!Spec

-------------------------------------------------------------------------------
\* No edit is lost.  The owner stays away between the check and the reset of
\* promote --checkout: OwnerRaces = FALSE.

LEMMA EditFrame ==
  EditInv /\ UNCHANGED <<source, wanted, step, deal, head>> => EditInv'
  BY DEF EditInv, NoLostEdit, CheckoutStable

\* An invocation that moves to a step where it holds nothing over the owner.
LEMMA EditDeals ==
  ASSUME ImplInv, EditInv, NEW p \in Promoter, NEW s \in {"idle", "check", "record", "consume"},
         NEW d, step' = [step EXCEPT ![p] = s], deal' = [deal EXCEPT ![p] = d],
         UNCHANGED <<source, wanted, head>>
  PROVE  EditInv'
<1>1. step \in [Promoter -> Steps] /\ DOMAIN deal = Promoter
  BY DEF ImplInv, TypeOK, PromoteTyped
<1>2. CheckoutStable'
  BY <1>1 DEF EditInv, CheckoutStable
<1> QED
  BY <1>2 DEF EditInv, NoLostEdit

LEMMA EditCheckPromote ==
  ASSUME ImplInv, EditInv, NEW p \in Promoter, NEW approve \in BOOLEAN, NEW checkout \in BOOLEAN,
         CheckPromote(p, approve, checkout)
  PROVE  EditInv'
<1>1. step \in [Promoter -> Steps] /\ deal \in [Promoter -> Deal \union {NoDeal}]
  BY DEF ImplInv, TypeOK, PromoteTyped
<1>2. step'[p] = "swap" /\ deal'[p].state = deal[p].state
      /\ (deal'[p].checkout <=> checkout /\ head = deal[p].state.branch)
  BY <1>1 DEF CheckPromote
<1>3. \A r \in Promoter : r # p => step'[r] = step[r] /\ deal'[r] = deal[r]
  BY <1>1 DEF CheckPromote
<1>4. UNCHANGED <<source, head, wanted>>
  BY DEF CheckPromote, refs, owner, ghosts
<1>5. CheckoutStable'
  BY <1>2, <1>3, <1>4 DEF EditInv, CheckoutStable
<1> QED
  BY <1>4, <1>5 DEF EditInv, NoLostEdit

\* The candidate holds every edit of the commit it replaces.
LEMMA EditSwap ==
  ASSUME ImplInv, EditInv, NEW p \in Promoter, Swap(p)
  PROVE  EditInv'
<1> DEFINE s == deal[p].state
<1>0. step \in [Promoter -> Steps] /\ source \in [Branch -> Commit]
  BY DEF ImplInv, TypeOK, PromoteTyped, RefsTyped
<1>1. s.branch \in Branch /\ s.candidate.edits = s.from.edits /\ source[s.branch] = s.from
  BY DealAtHand DEF Swap, CanSwap, GoodState
<1>2. wanted[s.branch] \subseteq s.candidate.edits
  BY <1>1 DEF EditInv, NoLostEdit
<1>3. NoLostEdit'
  BY <1>0, <1>1, <1>2 DEF Swap, EditInv, NoLostEdit
<1>4. ASSUME NEW r \in Promoter, step'[r] = "swap", deal'[r].checkout
      PROVE  head' = deal'[r].state.branch
  BY <1>0, <1>4 DEF Swap, EditInv, CheckoutStable
<1>5. ASSUME NEW r \in Promoter, step'[r] = "reset"
      PROVE  /\ deal'[r].checkout /\ head' = deal'[r].state.branch
             /\ wanted'[head'] \subseteq deal'[r].state.candidate.edits
  <2>1. CASE r = p
    <3>1. deal[p].checkout
      BY <1>0, <1>5, <2>1 DEF Swap
    <3>2. head = s.branch
      BY <3>1 DEF Swap, EditInv, CheckoutStable
    <3> QED
      BY <1>2, <2>1, <3>1, <3>2 DEF Swap
  <2>2. CASE r # p
    BY <1>0, <1>5, <2>2 DEF Swap, EditInv, CheckoutStable
  <2> QED
    BY <2>1, <2>2
<1> QED
  BY <1>3, <1>4, <1>5 DEF EditInv, CheckoutStable

LEMMA EditResetCheckout ==
  ASSUME ImplInv, EditInv, NEW p \in Promoter, ResetCheckout(p)
  PROVE  EditInv'
<1>0. step \in [Promoter -> Steps] /\ source \in [Branch -> Commit]
  BY DEF ImplInv, TypeOK, PromoteTyped, RefsTyped
<1>1. wanted[head] \subseteq deal[p].state.candidate.edits
  BY DEF ResetCheckout, EditInv, CheckoutStable
<1>2. NoLostEdit'
  BY <1>0, <1>1 DEF ResetCheckout, EditInv, NoLostEdit
<1>3. CheckoutStable'
  BY <1>0 DEF ResetCheckout, EditInv, CheckoutStable
<1> QED
  BY <1>2, <1>3 DEF EditInv

LEMMA EditOwner ==
  ASSUME OwnerRaces = FALSE, ImplInv, EditInv, OwnerStep
  PROVE  EditInv'
<1>0. /\ source \in [Branch -> Commit] /\ objects \subseteq Commit
      /\ wanted \in [Branch -> SUBSET Edit]
  BY DEF ImplInv, TypeOK, RefsTyped, GhostsTyped
<1>1. ~InCheckout
  BY DEF OwnerStep, OwnerCommits, OwnerResets, OwnerWorks, OwnerChecksOut, OwnerFree
<1>2. \A p \in Promoter : step[p] # "reset" /\ ~(step[p] = "swap" /\ deal[p].checkout)
  BY <1>1 DEF InCheckout, EditInv, CheckoutStable
<1>3. UNCHANGED <<step, deal>>
  BY DEF OwnerStep, OwnerCommits, OwnerResets, OwnerWorks, OwnerChecksOut, promote
<1>4. CheckoutStable'
  BY <1>2, <1>3 DEF CheckoutStable
<1>5. NoLostEdit'
  <2>1. CASE \E b \in Branch, e \in Edit : OwnerCommits(b, e)
    <3>1. PICK b \in Branch, e \in Edit : OwnerCommits(b, e)
      BY <2>1
    <3>2. /\ source'[b].edits = source[b].edits \union {e}
          /\ \A a \in Branch : a # b => source'[a] = source[a]
      <4>1. source[b] \in Commit
        BY <1>0
      <4>2. [source[b] EXCEPT !.edits = @ \union {e}, !.by = 0].edits = source[b].edits \union {e}
        BY <4>1 DEF Commit
      <4> QED
        BY <1>0, <3>1, <4>2 DEF OwnerCommits
    <3>3. wanted'[b] = wanted[b] \union {e} /\ \A a \in Branch : a # b => wanted'[a] = wanted[a]
      BY <1>0, <3>1 DEF OwnerCommits
    <3> QED
      BY <3>2, <3>3 DEF EditInv, NoLostEdit
  <2>2. CASE \E c \in objects : OwnerResets(c)
    <3>1. PICK c \in objects : OwnerResets(c)
      BY <2>2
    <3>2. c.branch \in Branch
      BY <1>0 DEF Commit
    <3> QED
      BY <1>0, <3>1, <3>2 DEF OwnerResets, EditInv, NoLostEdit
  <2>3. CASE OwnerWorks \/ \E b \in Branch : OwnerChecksOut(b)
    BY <2>3 DEF OwnerWorks, OwnerChecksOut, refs, ghosts, EditInv, NoLostEdit
  <2> QED
    BY <2>1, <2>2, <2>3 DEF OwnerStep
<1> QED
  BY <1>4, <1>5 DEF EditInv

LEMMA EditStep ==
  ASSUME OwnerRaces = FALSE, ImplInv, EditInv, [Next]_vars
  PROVE  EditInv'
<1>0. step \in [Promoter -> Steps] /\ deal \in [Promoter -> Deal \union {NoDeal}]
  BY DEF ImplInv, TypeOK, PromoteTyped
<1>1. CASE RunStep
  BY <1>1, EditFrame
     DEF RunStep, StartRun, StartRebase, RebaseCompletes, RebaseEscalates, WriteBundle, Interrupt,
         RemoveWorktree, DeleteRefs, Kill, refs, owner, promote, ghosts
<1>2. CASE OwnerStep
  BY <1>2, EditOwner
<1>3. CASE WorldStep
  BY <1>3, EditFrame
     DEF WorldStep, UpstreamMoves, ForeignPush, Fetch, CollectGarbage, Tick, refs, owner, promote,
         ghosts
<1>4. ASSUME NEW p \in Promoter, PromoteStep(p)
      PROVE  EditInv'
  <2>1. CASE \E path \in Path : Promote(p, path)
    BY <2>1, EditDeals DEF Promote, refs, owner, ghosts
  <2>2. CASE \E approve, checkout \in BOOLEAN : CheckPromote(p, approve, checkout)
    BY <2>2, EditCheckPromote
  <2>3. CASE AbandonPromote(p) \/ \E keep \in BOOLEAN : ConsumeBranch(p, keep)
    BY <2>3, EditDeals DEF AbandonPromote, ConsumeBranch, EndPromote, refs, owner, ghosts
  <2>4. CASE \E written \in BOOLEAN : RecordPromotion(p, written)
    <3>1. deal' = [deal EXCEPT ![p] = deal[p]]
      BY <1>0, <2>4 DEF RecordPromotion
    <3> QED
      BY <2>4, <3>1, EditDeals DEF RecordPromotion, owner, ghosts
  <2> QED
    BY <1>4, <2>1, <2>2, <2>3, <2>4, EditSwap, EditResetCheckout DEF PromoteStep
<1>5. CASE \E q \in Publisher : PublishStep(q)
  BY <1>5, EditFrame
     DEF PublishStep, Publish, Push, AbandonPublish, RecordPublication, refs, owner, promote, ghosts
<1>6. CASE UNCHANGED vars
  BY <1>6, EditFrame DEF vars, refs, owner, promote, ghosts
<1> QED
  BY <1>1, <1>2, <1>3, <1>4, <1>5, <1>6 DEF Next

LEMMA EditInit == Init => EditInv
  BY DEF Init, EditInv, NoLostEdit, CheckoutStable

\* Every edit its owner committed to a source branch is still on it, whatever
\* promotes, runs and kills interleave, as long as the owner does not use the
\* worktree or move the branch between the check and the reset of a
\* promote --checkout.
THEOREM NoEditIsLost ==
  ASSUME OwnerRaces = FALSE
  PROVE  Spec => []NoLostEdit
<1>1. ImplInv /\ EditInv /\ [Next]_vars => EditInv'
  BY EditStep
<1>2. EditInv => NoLostEdit
  BY DEF EditInv
<1> QED
  BY <1>1, <1>2, EditInit, CandidateInvariant, PTL DEF Spec

-------------------------------------------------------------------------------
\* What candidate states say of candidates stays true of everybody's copies.

\* The states somebody holds: those on disk, and the copies promotes and
\* publishes under way work with.
Live ==
    {file[p] : p \in {r \in Path : file[r] # NoState}}
    \union {deal[p].state : p \in {r \in Promoter : step[r] # "idle"}}
    \union {order[q].state : q \in {r \in Publisher : pushing[r] # "idle"}}

Tested == {s \in Live : s.outcome = "success"}

\* Writing back a state changes none of this.
Like(s, t) ==
    /\ t.run = s.run /\ t.lease = s.lease /\ t.name = s.name
    /\ t.outcome = s.outcome /\ t.candidate = s.candidate /\ OfferOf(t) = OfferOf(s)

\* What the run in progress writes of itself.
OfTheRun(t) ==
    /\ stage = "rebased"
    /\ \E tiers \in SUBSET StepTier : WriteBundle(tiers)
    /\ t = file'[PathOf(t)]
    /\ t.run = job.id /\ t.lease = job.lease /\ t.name = job.name
    /\ t.outcome = "success" => job.ok /\ t.candidate = branch[job.name]

-------------------------------------------------------------------------------

LEMMA LiveIsState == ImplInv => Live \subseteq State
<1> SUFFICES ASSUME ImplInv, NEW s \in Live
             PROVE  s \in State
  OBVIOUS
<1>1. ASSUME NEW p \in Path, file[p] # NoState
      PROVE  file[p] \in State
  BY <1>1 DEF ImplInv, TypeOK, RefsTyped
<1>2. ASSUME NEW p \in Promoter, step[p] # "idle"
      PROVE  deal[p].state \in State
  BY <1>2, DealAtHand
<1>3. ASSUME NEW q \in Publisher, pushing[q] # "idle"
      PROVE  order[q].state \in State
  BY <1>3, OrderAtHand
<1> QED
  BY <1>1, <1>2, <1>3 DEF Live

\* Who writes state files.
LEMMA FileWriters ==
  ASSUME [Next]_vars
  PROVE  \/ UNCHANGED file
         \/ \E tiers \in SUBSET StepTier : WriteBundle(tiers)
         \/ \E p \in Promoter, written \in BOOLEAN : RecordPromotion(p, written)
         \/ \E q \in Publisher : RecordPublication(q)
<1>1. CASE RunStep
  BY <1>1 DEF RunStep, StartRun, StartRebase, RebaseCompletes, RebaseEscalates, Interrupt,
              RemoveWorktree, DeleteRefs, Kill, refs
<1>2. CASE OwnerStep
  BY <1>2 DEF OwnerStep, OwnerCommits, OwnerResets, OwnerWorks, OwnerChecksOut, refs
<1>3. CASE WorldStep
  BY <1>3 DEF WorldStep, UpstreamMoves, ForeignPush, Fetch, CollectGarbage, Tick, refs
<1>4. CASE \E p \in Promoter : PromoteStep(p)
  BY <1>4 DEF PromoteStep, Promote, CheckPromote, AbandonPromote, Swap, ResetCheckout,
              ConsumeBranch, refs
<1>5. CASE \E q \in Publisher : PublishStep(q)
  BY <1>5 DEF PublishStep, Publish, Push, AbandonPublish, refs
<1>6. CASE UNCHANGED vars
  BY <1>6 DEF vars, refs
<1> QED
  BY <1>1, <1>2, <1>3, <1>4, <1>5, <1>6 DEF Next

\* Only promotes move promotes, and only publishes publishes.
LEMMA DealMovers ==
  ASSUME [Next]_vars
  PROVE  /\ UNCHANGED promote \/ \E p \in Promoter : PromoteStep(p)
         /\ UNCHANGED publish \/ \E q \in Publisher : PublishStep(q)
<1>1. CASE RunStep
  BY <1>1 DEF RunStep, StartRun, StartRebase, RebaseCompletes, RebaseEscalates, WriteBundle,
              Interrupt, RemoveWorktree, DeleteRefs, Kill
<1>2. CASE OwnerStep
  BY <1>2 DEF OwnerStep, OwnerCommits, OwnerResets, OwnerWorks, OwnerChecksOut
<1>3. CASE WorldStep
  BY <1>3 DEF WorldStep, UpstreamMoves, ForeignPush, Fetch, CollectGarbage, Tick
<1>4. CASE \E p \in Promoter : PromoteStep(p)
  BY <1>4 DEF PromoteStep, Promote, CheckPromote, AbandonPromote, Swap, ResetCheckout,
              RecordPromotion, ConsumeBranch
<1>5. CASE \E q \in Publisher : PublishStep(q)
  BY <1>5 DEF PublishStep, Publish, Push, AbandonPublish, RecordPublication
<1>6. CASE UNCHANGED vars
  BY <1>6 DEF vars
<1> QED
  BY <1>1, <1>2, <1>3, <1>4, <1>5, <1>6 DEF Next

\* What is on disk after a step was there before, or is written by the run.
LEMMA FileStep ==
  ASSUME ImplInv, [Next]_vars, NEW r \in Path, file'[r] # NoState
  PROVE  (\E s \in Live : Like(s, file'[r])) \/ OfTheRun(file'[r])
<1>0. file \in [Path -> State \union {NoState}]
  BY DEF ImplInv, TypeOK, RefsTyped
<1>1. CASE file'[r] = file[r]
  <2>1. file[r] \in Live /\ Like(file[r], file'[r])
    BY <1>1 DEF Live, Like
  <2> QED
    BY <2>1
<1>2. ASSUME NEW tiers \in SUBSET StepTier, WriteBundle(tiers), file'[r] # file[r]
      PROVE  OfTheRun(file'[r])
  <2> DEFINE t == [run |-> job.id, branch |-> job.name.branch, from |-> job.from,
                   target |-> job.target, name |-> job.name,
                   outcome |-> IF job.ok THEN "success" ELSE "escalated",
                   candidate |-> IF job.ok THEN branch[job.name] ELSE NoCommit,
                   tier |-> AggregateTier(tiers), lease |-> job.lease,
                   promoted |-> FALSE, published |-> FALSE]
  <2>1. file' = [file EXCEPT ![PathOf(t)] = t] /\ stage = "rebased"
    BY <1>2 DEF WriteBundle
  <2>2. t.outcome = "success" => job.ok /\ t.candidate = branch[job.name]
    OBVIOUS
  <2>3. t.run = job.id /\ t.lease = job.lease /\ t.name = job.name
    OBVIOUS
  <2> HIDE DEF t
  <2>4. file'[r] = t /\ r = PathOf(t)
    BY <1>0, <1>2, <2>1
  <2> QED
    BY <1>2, <2>1, <2>2, <2>3, <2>4 DEF OfTheRun
<1>3. ASSUME NEW p \in Promoter, NEW written \in BOOLEAN, RecordPromotion(p, written),
             file'[r] # file[r]
      PROVE  \E s \in Live : Like(s, file'[r])
  <2>1. deal[p].state \in State /\ deal[p].state \in Live
    BY <1>3, DealAtHand DEF RecordPromotion, Live
  <2>2. file'[r] = [deal[p].state EXCEPT !.promoted = TRUE]
    BY <1>0, <1>3 DEF RecordPromotion
  <2>3. Like(deal[p].state, file'[r])
    BY <2>1, <2>2 DEF Like, OfferOf, State
  <2> QED
    BY <2>1, <2>3
<1>4. ASSUME NEW q \in Publisher, RecordPublication(q), file'[r] # file[r]
      PROVE  \E s \in Live : Like(s, file'[r])
  <2>1. order[q].state \in State /\ order[q].state \in Live
    BY <1>4, OrderAtHand DEF RecordPublication, Live
  <2>2. file'[r] = [order[q].state EXCEPT !.published = TRUE]
    BY <1>0, <1>4 DEF RecordPublication
  <2>3. Like(order[q].state, file'[r])
    BY <2>1, <2>2 DEF Like, OfferOf, State
  <2> QED
    BY <2>1, <2>3
<1> QED
  BY <1>1, <1>2, <1>3, <1>4, FileWriters

\* What a promote or a publish holds after a step it held before, or has read.
LEMMA DealStep ==
  ASSUME ImplInv, [Next]_vars, NEW r \in Promoter, step'[r] # "idle"
  PROVE  deal'[r].state \in Live
<1>0. step \in [Promoter -> Steps] /\ deal \in [Promoter -> Deal \union {NoDeal}]
  BY DEF ImplInv, TypeOK, PromoteTyped
<1>1. CASE step[r] # "idle" /\ deal'[r].state = deal[r].state
  BY <1>1 DEF Live
<1>2. CASE UNCHANGED promote
  BY <1>1, <1>2 DEF promote
<1>3. ASSUME NEW p \in Promoter, PromoteStep(p)
      PROVE  deal'[r].state \in Live
  <2>1. CASE r # p
    BY <1>0, <1>1, <1>3, <2>1
       DEF PromoteStep, Promote, CheckPromote, Swap, ResetCheckout, AbandonPromote,
           RecordPromotion, ConsumeBranch, EndPromote
  <2>2. CASE r = p
    <3>1. ASSUME NEW path \in Path, Promote(p, path)
          PROVE  deal'[p].state \in Live
      BY <1>0, <3>1 DEF Promote, Live
    <3>2. ASSUME NEW approve \in BOOLEAN, NEW checkout \in BOOLEAN,
                 CheckPromote(p, approve, checkout)
          PROVE  deal'[p].state = deal[p].state /\ step[p] # "idle"
      BY <1>0, <3>2 DEF CheckPromote
    <3>3. CASE Swap(p) \/ ResetCheckout(p) \/ \E written \in BOOLEAN : RecordPromotion(p, written)
      BY <1>1, <2>2, <3>3 DEF Swap, ResetCheckout, RecordPromotion
    <3>4. CASE AbandonPromote(p) \/ \E keep \in BOOLEAN : ConsumeBranch(p, keep)
      BY <1>0, <2>2, <3>4 DEF AbandonPromote, ConsumeBranch, EndPromote
    <3> QED
      BY <1>1, <1>3, <2>2, <3>1, <3>2, <3>3, <3>4 DEF PromoteStep
  <2> QED
    BY <2>1, <2>2
<1> QED
  BY <1>2, <1>3, DealMovers

LEMMA OrderStep ==
  ASSUME ImplInv, [Next]_vars, NEW r \in Publisher, pushing'[r] # "idle"
  PROVE  order'[r].state \in Live
<1>0. pushing \in [Publisher -> Pushes] /\ order \in [Publisher -> Deal \union {NoDeal}]
  BY DEF ImplInv, TypeOK, PublishTyped
<1>1. CASE pushing[r] # "idle" /\ order'[r].state = order[r].state
  BY <1>1 DEF Live
<1>2. CASE UNCHANGED publish
  BY <1>1, <1>2 DEF publish
<1>3. ASSUME NEW q \in Publisher, PublishStep(q)
      PROVE  order'[r].state \in Live
  <2>1. CASE r # q
    BY <1>0, <1>1, <1>3, <2>1
       DEF PublishStep, Publish, Push, AbandonPublish, RecordPublication, EndPublish
  <2>2. CASE r = q
    <3>1. ASSUME NEW path \in Path, NEW approve \in BOOLEAN, Publish(q, path, approve)
          PROVE  order'[q].state \in Live
      BY <1>0, <3>1 DEF Publish, Live
    <3>2. CASE \E dry \in BOOLEAN : Push(q, dry)
      BY <1>1, <2>2, <3>2 DEF Push
    <3>3. CASE AbandonPublish(q) \/ RecordPublication(q)
      BY <1>0, <2>2, <3>3 DEF AbandonPublish, RecordPublication, EndPublish
    <3> QED
      BY <1>3, <2>2, <3>1, <3>2, <3>3 DEF PublishStep
  <2> QED
    BY <2>1, <2>2
<1> QED
  BY <1>2, <1>3, DealMovers

\* Only a run brings a state into the world; all others are copies.
LEMMA LiveStep ==
  ASSUME ImplInv, [Next]_vars, NEW t \in Live'
  PROVE  (\E s \in Live : Like(s, t)) \/ OfTheRun(t)
<1>1. Like(t, t)
  BY DEF Like
<1> QED
  BY <1>1, FileStep, DealStep, OrderStep DEF Live

-------------------------------------------------------------------------------
\* What a run's snapshot knew of the remote is remembered as long as a state
\* names the run.
Known(run, lease) == run <= runs /\ lease.extra \subseteq seen[run]

LeasesKnown ==
    /\ job # NoJob => Known(job.id, job.lease)
    /\ \A s \in Live : Known(s.run, s.lease)

\* A new run leaves what earlier ones knew.
LEMMA KnownStays ==
  ASSUME ImplInv, [Next]_vars, NEW run \in RunId, NEW lease, Known(run, lease)
  PROVE  run <= runs' /\ lease.extra \subseteq seen'[run]
<1>0. runs \in Nat /\ seen \in [RunId -> SUBSET Foreign]
  BY BoundsAssumption DEF ImplInv, TypeOK, RunnerTyped, GhostsTyped
<1>1. \/ UNCHANGED <<runs, seen>>
      \/ runs' = runs + 1 /\ seen' = [seen EXCEPT ![runs + 1] = tracking[head].extra]
  <2>1. CASE RunStep
    BY <2>1 DEF RunStep, StartRun, StartRebase, RebaseCompletes, RebaseEscalates, WriteBundle,
                Interrupt, RemoveWorktree, DeleteRefs, Kill, ghosts
  <2>2. CASE OwnerStep
    BY <2>2 DEF OwnerStep, OwnerCommits, OwnerResets, OwnerWorks, OwnerChecksOut, ghosts, runner
  <2>3. CASE WorldStep
    BY <2>3 DEF WorldStep, UpstreamMoves, ForeignPush, Fetch, CollectGarbage, Tick, ghosts, runner
  <2>4. CASE \E p \in Promoter : PromoteStep(p)
    BY <2>4 DEF PromoteStep, Promote, CheckPromote, AbandonPromote, Swap, ResetCheckout,
                RecordPromotion, ConsumeBranch, ghosts, runner
  <2>5. CASE \E q \in Publisher : PublishStep(q)
    BY <2>5 DEF PublishStep, Publish, Push, AbandonPublish, RecordPublication, ghosts, runner
  <2>6. CASE UNCHANGED vars
    BY <2>6 DEF vars, ghosts, runner
  <2> QED
    BY <2>1, <2>2, <2>3, <2>4, <2>5, <2>6 DEF Next
<1>2. run # runs + 1 /\ run <= runs + 1
  BY <1>0 DEF Known, RunId
<1> QED
  BY <1>0, <1>1, <1>2 DEF Known

\* A job keeps its id and its lease from its snapshot to its end.
LEMMA JobStep ==
  ASSUME ImplInv, [Next]_vars, job' # NoJob
  PROVE  \/ \E fresh \in BOOLEAN, n \in Name : StartRun(fresh, n)
         \/ /\ job # NoJob /\ job'.id = job.id /\ job'.lease = job.lease /\ job'.name = job.name
            /\ job'.from = job.from
<1>0. RunnerTyped
  BY DEF ImplInv, TypeOK
<1>1. CASE UNCHANGED job
  BY <1>1
<1>2. CASE RunStep
  <2>1. CASE StartRebase \/ \E accepted \in BOOLEAN : RebaseCompletes(accepted)
    <3>1. job \in Job /\ job # NoJob
      BY <1>0, <2>1 DEF StartRebase, RebaseCompletes, RunnerTyped
    <3> QED
      BY <2>1, <3>1 DEF StartRebase, RebaseCompletes, Job
  <2>2. CASE DeleteRefs \/ Kill
    BY <2>2 DEF DeleteRefs, Kill
  <2>3. CASE RebaseEscalates \/ Interrupt \/ RemoveWorktree
             \/ \E tiers \in SUBSET StepTier : WriteBundle(tiers)
    BY <1>1, <2>3 DEF RebaseEscalates, Interrupt, RemoveWorktree, WriteBundle
  <2> QED
    BY <1>2, <2>1, <2>2, <2>3 DEF RunStep
<1>3. CASE OwnerStep
  BY <1>1, <1>3 DEF OwnerStep, OwnerCommits, OwnerResets, OwnerWorks, OwnerChecksOut, runner
<1>4. CASE WorldStep
  BY <1>1, <1>4 DEF WorldStep, UpstreamMoves, ForeignPush, Fetch, CollectGarbage, Tick, runner
<1>5. CASE \E p \in Promoter : PromoteStep(p)
  BY <1>1, <1>5 DEF PromoteStep, Promote, CheckPromote, AbandonPromote, Swap, ResetCheckout,
                    RecordPromotion, ConsumeBranch, runner
<1>6. CASE \E q \in Publisher : PublishStep(q)
  BY <1>1, <1>6 DEF PublishStep, Publish, Push, AbandonPublish, RecordPublication, runner
<1>7. CASE UNCHANGED vars
  BY <1>1, <1>7 DEF vars, runner
<1> QED
  BY <1>2, <1>3, <1>4, <1>5, <1>6, <1>7 DEF Next

LEMMA LeasesStep == ImplInv /\ LeasesKnown /\ [Next]_vars => LeasesKnown'
<1> SUFFICES ASSUME ImplInv, LeasesKnown, [Next]_vars
             PROVE  LeasesKnown'
  OBVIOUS
<1>0. RunnerTyped /\ GhostsTyped
  BY DEF ImplInv, TypeOK
<1>1. job # NoJob => job \in Job /\ job.id \in RunId
  BY <1>0 DEF RunnerTyped, Job
<1>2. job # NoJob => job.id <= runs' /\ job.lease.extra \subseteq seen'[job.id]
  BY <1>1, KnownStays DEF LeasesKnown
<1>3. ASSUME job' # NoJob
      PROVE  Known(job.id, job.lease)'
  <2>1. CASE \E fresh \in BOOLEAN, n \in Name : StartRun(fresh, n)
    <3>1. PICK fresh \in BOOLEAN, n \in Name : StartRun(fresh, n)
      BY <2>1
    <3>2. runs + 1 \in RunId
      BY <1>0, <3>1, BoundsAssumption DEF StartRun, RunnerTyped, RunId
    <3>3. job'.id = runs + 1 /\ job'.lease = tracking[head] /\ runs' = runs + 1
      BY <3>1 DEF StartRun
    <3>4. seen'[runs + 1] = tracking[head].extra
      BY <1>0, <3>1, <3>2 DEF StartRun, GhostsTyped
    <3> QED
      BY <3>2, <3>3, <3>4 DEF Known, RunId
  <2>2. CASE job # NoJob /\ job'.id = job.id /\ job'.lease = job.lease
    BY <1>2, <2>2 DEF Known
  <2> QED
    BY <1>3, <2>1, <2>2, JobStep
<1>4. ASSUME NEW t \in Live'
      PROVE  Known(t.run, t.lease)'
  <2>1. ASSUME NEW s \in Live, Like(s, t)
        PROVE  Known(t.run, t.lease)'
    <3>1. s.run \in RunId
      BY LiveIsState DEF State
    <3>2. s.run <= runs' /\ s.lease.extra \subseteq seen'[s.run]
      BY <3>1, KnownStays DEF LeasesKnown
    <3> QED
      BY <2>1, <3>2 DEF Like, Known
  <2>2. CASE OfTheRun(t)
    <3>1. job # NoJob
      BY <1>0, <2>2 DEF OfTheRun, RunnerTyped
    <3> QED
      BY <1>2, <2>2, <3>1 DEF OfTheRun, Known
  <2> QED
    BY <2>1, <2>2, LiveStep
<1> QED
  BY <1>3, <1>4 DEF LeasesKnown

LEMMA LeasesInit == Init => LeasesKnown
  BY DEF Init, LeasesKnown, Live

\* The steps that take something off the remote are the pushes.
LEMMA DropIsPush ==
  ASSUME ImplInv, LeasesKnown, [Next]_vars,
         NEW b \in Branch, NEW f \in remote[b].extra \ remote'[b].extra
  PROVE  \E q \in Publisher : pushing[q] = "push" /\ f \in seen[order[q].state.run]
<1>0. remote \in [Branch -> RemoteTip]
  BY DEF ImplInv, TypeOK, WorldTyped
<1>1. remote'[b] # remote[b]
  OBVIOUS
<1>2. ASSUME NEW a \in Branch, NEW g \in Foreign, ForeignPush(a, g)
      PROVE  FALSE
  <2>1. remote[a] \in RemoteTip
    BY <1>0
  <2>2. remote' = [remote EXCEPT ![a] = [remote[a] EXCEPT !.extra = @ \union {g}]]
    BY <1>2 DEF ForeignPush
  <2>3. [remote[a] EXCEPT !.extra = @ \union {g}].extra = remote[a].extra \union {g}
    BY <2>1 DEF RemoteTip
  <2> QED
    BY <1>0, <1>1, <2>2, <2>3
<1>3. ASSUME NEW q \in Publisher, NEW dry \in BOOLEAN, Push(q, dry)
      PROVE  pushing[q] = "push" /\ f \in seen[order[q].state.run]
  <2>1. pushing[q] = "push" /\ remote[order[q].state.branch] = order[q].state.lease
    BY <1>3 DEF Push, Lease
  <2>2. b = order[q].state.branch
    BY <1>0, <1>1, <1>3 DEF Push
  <2>3. order[q].state \in Live
    BY <2>1 DEF Live
  <2> QED
    BY <2>1, <2>2, <2>3 DEF LeasesKnown, Known
<1>4. CASE RunStep
  BY <1>1, <1>4 DEF RunStep, StartRun, StartRebase, RebaseCompletes, RebaseEscalates, WriteBundle,
                    Interrupt, RemoveWorktree, DeleteRefs, Kill, world
<1>5. CASE OwnerStep
  BY <1>1, <1>5 DEF OwnerStep, OwnerCommits, OwnerResets, OwnerWorks, OwnerChecksOut, world
<1>6. CASE WorldStep
  BY <1>1, <1>2, <1>6 DEF WorldStep, UpstreamMoves, Fetch, CollectGarbage, Tick, world
<1>7. CASE \E p \in Promoter : PromoteStep(p)
  BY <1>1, <1>7 DEF PromoteStep, Promote, CheckPromote, AbandonPromote, Swap, ResetCheckout,
                    RecordPromotion, ConsumeBranch, world
<1>8. CASE \E q \in Publisher : PublishStep(q)
  BY <1>1, <1>3, <1>8 DEF PublishStep, Publish, AbandonPublish, RecordPublication, world
<1>9. CASE UNCHANGED vars
  BY <1>1, <1>9 DEF vars, world
<1> QED
  BY <1>4, <1>5, <1>6, <1>7, <1>8, <1>9 DEF Next

\* A publish takes off the remote only pushes of others that the run it publishes
\* saw at its snapshot, however many fetches, runs and publishes come between.
THEOREM PublishDropsWhatWasSeen == Spec => PublishDropsOnlySeenPushes
<1>1. ImplInv /\ LeasesKnown /\ [Next]_vars
        => [\A b \in Branch : \A f \in remote[b].extra \ remote'[b].extra :
              \E q \in Publisher : pushing[q] = "push" /\ f \in seen[order[q].state.run]]_vars
  BY DropIsPush
<1> QED
  BY <1>1, LeasesInit, LeasesStep, CandidateInvariant, PTL DEF Spec, PublishDropsOnlySeenPushes

-------------------------------------------------------------------------------
\* What a run leaves behind.  While one is under way, what is there of its own
\* name is excused; everything else is accounted for.
InRun(n) == stage # "idle" /\ n = job.name

WorktreesOwned ==
    \A n \in worktrees : branch[n] # NoCommit /\ (fate[n] = "killed" \/ InRun(n))
BackupsOwned == \A b \in backups : fate[b.name] = "killed" \/ InRun(b.name)
BranchesOwned == \A n \in Name : branch[n] # NoCommit => fate[n] # "none" \/ InRun(n)
SuccessIsFate == stage # "idle" /\ job.ok => fate[job.name] = "rebased"
WorktreeFirst == stage = "removed" => job.name \notin worktrees

TidyInv == WorktreesOwned /\ BackupsOwned /\ BranchesOwned /\ SuccessIsFate /\ WorktreeFirst

LEMMA TidyInit == Init => TidyInv
  BY DEF Init, TidyInv, WorktreesOwned, BackupsOwned, BranchesOwned, SuccessIsFate, WorktreeFirst

\* A new run takes a name no branch has, so none of its predecessors' worktrees.
LEMMA TidyStartRun ==
  ASSUME ImplInv, TidyInv, NEW fresh \in BOOLEAN, NEW n \in Name, StartRun(fresh, n)
  PROVE  TidyInv'
<1>0. RefsTyped /\ OwnerTyped /\ GhostsTyped
  BY DEF ImplInv, TypeOK
<1>1. source[head] # NoCommit
  BY <1>0, NotCommit DEF RefsTyped, OwnerTyped
<1>2. /\ stage = "idle" /\ stage' = "worktree" /\ job'.name = n /\ job'.ok = FALSE
      /\ worktrees' = worktrees \union {n} /\ backups' = backups
      /\ branch' = [branch EXCEPT ![n] = source[head]] /\ fate' = [fate EXCEPT ![n] = "none"]
  BY DEF StartRun
<1>3. InRun(n)' /\ worktrees \subseteq Name /\ \A b \in backups : b.name \in Name
  BY <1>0, <1>2 DEF InRun, RefsTyped
<1>4. WorktreesOwned'
  BY <1>0, <1>1, <1>2, <1>3 DEF TidyInv, WorktreesOwned, InRun, RefsTyped, GhostsTyped
<1>5. BackupsOwned'
  BY <1>0, <1>2, <1>3 DEF TidyInv, BackupsOwned, InRun, GhostsTyped
<1>6. BranchesOwned'
  BY <1>0, <1>2, <1>3 DEF TidyInv, BranchesOwned, InRun, RefsTyped, GhostsTyped
<1> QED
  BY <1>2, <1>4, <1>5, <1>6 DEF TidyInv, SuccessIsFate, WorktreeFirst

\* The steps before the clean-up add a backup of the run's own, and its fate.
LEMMA TidyRebase ==
  ASSUME ImplInv, TidyInv,
         \/ StartRebase \/ RebaseEscalates \/ Interrupt
         \/ \E accepted \in BOOLEAN : RebaseCompletes(accepted)
         \/ \E tiers \in SUBSET StepTier : WriteBundle(tiers)
  PROVE  TidyInv'
<1>0. RefsTyped /\ RunnerTyped /\ GhostsTyped
  BY DEF ImplInv, TypeOK
<1>1. job \in Job /\ job.name \in Name /\ stage # "idle" /\ stage' \notin {"idle", "removed"}
  BY <1>0 DEF RunnerTyped, Job, StartRebase, RebaseEscalates, Interrupt, RebaseCompletes,
              WriteBundle
<1>2. job'.name = job.name
  BY <1>1 DEF Job, StartRebase, RebaseEscalates, Interrupt, RebaseCompletes, WriteBundle
<1>3. \A n \in Name : InRun(n)' <=> InRun(n)
  BY <1>1, <1>2 DEF InRun
<1>4. CASE StartRebase
  <2>1. /\ backups' = backups \union {[name |-> job.name, second |-> clock]}
        /\ UNCHANGED <<worktrees, branch, fate>> /\ job'.ok = job.ok
    BY <1>1, <1>4 DEF StartRebase, ghosts, Job
  <2> QED
    BY <1>1, <1>2, <2>1
       DEF TidyInv, WorktreesOwned, BackupsOwned, BranchesOwned, SuccessIsFate, WorktreeFirst, InRun
<1>5. CASE \E accepted \in BOOLEAN : RebaseCompletes(accepted)
  <2>1. PICK accepted \in BOOLEAN : RebaseCompletes(accepted)
    BY <1>5
  <2>2. UNCHANGED <<worktrees, backups>> /\ job'.ok = accepted
    BY <1>1, <2>1 DEF RebaseCompletes, Job
  <2>3. /\ branch'[job.name] # NoCommit
        /\ \A n \in Name : n # job.name => branch'[n] = branch[n]
    <3>1. RunOwnsBranch' /\ stage' = "rebased"
      BY <2>1, RebaseCompletesKeeps DEF ImplInv, RebaseCompletes
    <3>2. branch'[job.name] \in Commit
      BY <1>2, <3>1 DEF RunOwnsBranch
    <3> QED
      BY <1>0, <2>1, <3>2, NotCommit DEF RebaseCompletes, RefsTyped
  <2>4. \A n \in Name : n # job.name => fate'[n] = fate[n]
    BY <1>0, <2>1 DEF RebaseCompletes, GhostsTyped
  <2>5. accepted => fate'[job.name] = "rebased"
    BY <1>0, <1>1, <2>1 DEF RebaseCompletes, GhostsTyped
  <2>6. worktrees \subseteq Name /\ \A b \in backups : b.name \in Name
    BY <1>0 DEF RefsTyped
  <2>7. WorktreesOwned' /\ BranchesOwned'
    BY <1>1, <1>2, <2>2, <2>3, <2>4, <2>6 DEF TidyInv, WorktreesOwned, BranchesOwned, InRun
  <2>8. BackupsOwned'
    BY <1>1, <1>2, <2>2, <2>4, <2>6 DEF TidyInv, BackupsOwned, InRun
  <2> QED
    BY <1>1, <1>2, <2>2, <2>5, <2>7, <2>8 DEF TidyInv, SuccessIsFate, WorktreeFirst
<1>6. CASE RebaseEscalates \/ Interrupt \/ \E tiers \in SUBSET StepTier : WriteBundle(tiers)
  <2>1. UNCHANGED <<worktrees, backups, branch, fate, job>>
    BY <1>6 DEF RebaseEscalates, Interrupt, WriteBundle, refs, ghosts
  <2> QED
    BY <1>1, <2>1
       DEF TidyInv, WorktreesOwned, BackupsOwned, BranchesOwned, SuccessIsFate, WorktreeFirst, InRun
<1> QED
  BY <1>4, <1>5, <1>6

LEMMA TidyRemoveWorktree ==
  ASSUME ImplInv, TidyInv, RemoveWorktree
  PROVE  TidyInv'
  BY DEF RemoveWorktree, ghosts, TidyInv, WorktreesOwned, BackupsOwned, BranchesOwned,
         SuccessIsFate, WorktreeFirst, InRun

\* The end of a run: its backups go, and its branch unless its rebase succeeded.
LEMMA TidyDeleteRefs ==
  ASSUME ImplInv, TidyInv, DeleteRefs
  PROVE  TidyInv'
<1>0. RefsTyped /\ RunnerTyped
  BY DEF ImplInv, TypeOK
<1>1. job \in Job /\ job.name \in Name /\ job.name \notin worktrees
  BY <1>0 DEF RunnerTyped, Job, DeleteRefs, TidyInv, WorktreeFirst
<1>2. /\ stage = "removed" /\ stage' = "idle" /\ UNCHANGED <<worktrees, fate>>
      /\ backups' = backups \ BackupsOf(job.name)
      /\ branch' = IF job.ok THEN branch ELSE [branch EXCEPT ![job.name] = NoCommit]
  BY <1>1 DEF DeleteRefs, ghosts
<1>3. \A b \in backups : b.name = job.name => b \in BackupsOf(job.name)
  BY DEF BackupsOf
<1>4. \A n \in Name : n # job.name => branch'[n] = branch[n]
  BY <1>0, <1>2 DEF RefsTyped
<1>5. WorktreesOwned'
  BY <1>0, <1>1, <1>2, <1>4 DEF TidyInv, WorktreesOwned, InRun, RefsTyped
<1>6. BackupsOwned'
  BY <1>2, <1>3 DEF TidyInv, BackupsOwned, InRun
<1>7. BranchesOwned'
  <2>1. job.ok => fate[job.name] # "none"
    BY <1>2 DEF TidyInv, SuccessIsFate
  <2>2. ~job.ok => branch'[job.name] = NoCommit
    BY <1>0, <1>1, <1>2 DEF RefsTyped
  <2> QED
    BY <1>1, <1>2, <1>4, <2>1, <2>2 DEF TidyInv, BranchesOwned, InRun, Job
<1> QED
  BY <1>2, <1>5, <1>6, <1>7 DEF TidyInv, SuccessIsFate, WorktreeFirst

LEMMA TidyKill ==
  ASSUME ImplInv, TidyInv, Kill
  PROVE  TidyInv'
<1>0. RefsTyped /\ RunnerTyped /\ GhostsTyped
  BY DEF ImplInv, TypeOK
<1>1. job.name \in Name
  BY <1>0 DEF RunnerTyped, Job, Kill
<1>2. UNCHANGED <<worktrees, backups, branch>> /\ stage' = "idle"
  BY DEF Kill, refs
<1>3. /\ fate'[job.name] = "killed"
      /\ \A n \in Name : n # job.name => fate'[n] = fate[n]
  BY <1>0, <1>1 DEF Kill, GhostsTyped
<1>4. worktrees \subseteq Name /\ \A b \in backups : b.name \in Name
  BY <1>0 DEF RefsTyped
<1> QED
  BY <1>2, <1>3, <1>4
     DEF TidyInv, WorktreesOwned, BackupsOwned, BranchesOwned, SuccessIsFate, WorktreeFirst, InRun

\* Nobody else makes a branch of a candidate's name, and git keeps a promote from
\* deleting one that is checked out.
LEMMA TidyOthers ==
  ASSUME ImplInv, TidyInv, [Next]_vars, ~RunStep
  PROVE  TidyInv'
<1>0. RefsTyped
  BY DEF ImplInv, TypeOK
<1>1. CASE UNCHANGED <<worktrees, backups, branch, fate, stage, job>>
  BY <1>1
     DEF TidyInv, WorktreesOwned, BackupsOwned, BranchesOwned, SuccessIsFate, WorktreeFirst, InRun
<1>2. ASSUME NEW p \in Promoter, NEW keep \in BOOLEAN, ConsumeBranch(p, keep)
      PROVE  TidyInv'
  <2>1. deal[p].state.name \in Name
    BY <1>2, DealAtHand DEF ConsumeBranch
  <2>2. UNCHANGED <<worktrees, backups, fate, stage, job>>
    BY <1>2 DEF ConsumeBranch, runner, ghosts
  <2>3. /\ \A n \in worktrees : branch'[n] = branch[n]
        /\ \A n \in Name : branch'[n] \in {branch[n], NoCommit}
    BY <1>0, <1>2, <2>1 DEF ConsumeBranch, RefsTyped
  <2> QED
    BY <2>2, <2>3
       DEF TidyInv, WorktreesOwned, BackupsOwned, BranchesOwned, SuccessIsFate, WorktreeFirst, InRun
<1>3. CASE OwnerStep
  BY <1>1, <1>3 DEF OwnerStep, OwnerCommits, OwnerResets, OwnerWorks, OwnerChecksOut, refs, runner,
                    ghosts
<1>4. CASE WorldStep
  BY <1>1, <1>4 DEF WorldStep, UpstreamMoves, ForeignPush, Fetch, CollectGarbage, Tick, refs,
                    runner, ghosts
<1>5. CASE \E p \in Promoter : PromoteStep(p)
  BY <1>1, <1>2, <1>5 DEF PromoteStep, Promote, CheckPromote, AbandonPromote, Swap, ResetCheckout,
                          RecordPromotion, refs, runner, ghosts
<1>6. CASE \E q \in Publisher : PublishStep(q)
  BY <1>1, <1>6 DEF PublishStep, Publish, Push, AbandonPublish, RecordPublication, refs, runner,
                    ghosts
<1>7. CASE UNCHANGED vars
  BY <1>1, <1>7 DEF vars, refs, runner, ghosts
<1> QED
  BY <1>3, <1>4, <1>5, <1>6, <1>7 DEF Next

LEMMA TidyStep == ImplInv /\ TidyInv /\ [Next]_vars => TidyInv'
  BY TidyStartRun, TidyRebase, TidyRemoveWorktree, TidyDeleteRefs, TidyKill, TidyOthers DEF RunStep

\* Whatever interrupts a run short of a kill, it leaves no worktree and no backup,
\* and a branch only when its rebase had succeeded; a killed one accounts for all
\* that is ever left.
THEOREM RunsAreTidy == Spec => []TidyUnlessKilled
<1>1. TidyInv => TidyUnlessKilled
  BY DEF TidyInv, WorktreesOwned, BackupsOwned, BranchesOwned, InRun, TidyUnlessKilled
<1> QED
  BY <1>1, TidyInit, TidyStep, CandidateInvariant, PTL DEF Spec

-------------------------------------------------------------------------------
\* Tested candidates are kept.  Names are made from the second a run starts in, and
\* a name is free again once promote has deleted its branch: a run that takes it in
\* the same second would share it with states that still name it.  The promise
\* below is for promotes that come to the deletion in a later second.
ConsumedLater ==
    \A p \in Promoter : ConsumeBranch(p, FALSE) => deal[p].state.name.second < clock

Held(s) ==
    \/ branch[s.name] = s.candidate /\ s.candidate \in objects
    \/ s.name.second < clock /\ Landed(OfferOf(s))

\* The run in progress is on its way to its result, or has none.
Unfinished ==
    \/ stage \in {"worktree", "rebasing", "rebased"}
    \/ stage \in {"cleanup", "removed"} /\ ~job.ok

AllHeld == \A s \in Tested : Held(s)
OneOfAName == \A s, t \in Tested : s.name = t.name => OfferOf(s) = OfferOf(t)
NameUntaken == Unfinished => \A s \in Tested : s.name # job.name
NoEarlyResult == stage \in {"worktree", "rebasing"} => ~job.ok
ResultKept == stage = "rebased" /\ job.ok => branch[job.name] \in objects
SwappedHasLanded ==
    \A p \in Promoter :
        step[p] \in {"reset", "record", "consume"} => Landed(OfferOf(deal[p].state))

KeptInv ==
    /\ AllHeld /\ OneOfAName /\ NameUntaken
    /\ NoEarlyResult /\ ResultKept /\ SwappedHasLanded

LEMMA KeptInit == Init => KeptInv
  BY DEF Init, KeptInv, AllHeld, OneOfAName, NameUntaken, NoEarlyResult, ResultKept,
         SwappedHasLanded, Tested, Live, Unfinished

LEMMA TestedIsGood ==
  ASSUME ImplInv, NEW s \in Tested
  PROVE  /\ s \in Live /\ s \in State /\ s.name \in Name
         /\ s.candidate \in Commit /\ s.candidate # NoCommit
<1>1. s \in State
  BY LiveIsState DEF Tested
<1>2. GoodState(s)
  <2>1. ASSUME NEW p \in Path, file[p] # NoState, file[p] = s
        PROVE  GoodState(s)
    BY <2>1 DEF ImplInv, FilesAreOffered, Successful, Tested
  <2> QED
    BY <2>1, DealAtHand, OrderAtHand DEF Tested, Live
<1> QED
  BY <1>1, <1>2, NotCommit DEF Tested, GoodState, State

\* Time and landings only add up.
LEMMA OnlyGrow ==
  ASSUME ImplInv, [Next]_vars
  PROVE  clock \in Nat /\ clock' \in Nat /\ clock <= clock' /\ landed \subseteq landed'
<1>0. clock \in Nat
  BY BoundsAssumption DEF ImplInv, TypeOK, WorldTyped, Time
<1>a. CASE UNCHANGED <<clock, landed>>
  BY <1>0, <1>a
<1>1. CASE RunStep
  BY <1>a, <1>1 DEF RunStep, StartRun, StartRebase, RebaseCompletes, RebaseEscalates, WriteBundle,
                    Interrupt, RemoveWorktree, DeleteRefs, Kill, world, ghosts
<1>2. CASE OwnerStep
  BY <1>a, <1>2 DEF OwnerStep, OwnerCommits, OwnerResets, OwnerWorks, OwnerChecksOut, world, ghosts
<1>3. CASE WorldStep
  BY <1>0, <1>3 DEF WorldStep, UpstreamMoves, ForeignPush, Fetch, CollectGarbage, Tick, world,
                    ghosts
<1>4. CASE \E p \in Promoter : PromoteStep(p)
  BY <1>0, <1>4 DEF PromoteStep, Promote, CheckPromote, AbandonPromote, Swap, ResetCheckout,
                    RecordPromotion, ConsumeBranch, world, ghosts
<1>5. CASE \E q \in Publisher : PublishStep(q)
  BY <1>a, <1>5 DEF PublishStep, Publish, Push, AbandonPublish, RecordPublication, world, ghosts
<1>6. CASE UNCHANGED vars
  BY <1>a, <1>6 DEF vars, world, ghosts
<1> QED
  BY <1>1, <1>2, <1>3, <1>4, <1>5, <1>6 DEF Next

\* No step takes a tested candidate away: runs by its name, garbage collection
\* by its branch, and a promote that deletes the branch because it has landed.
LEMMA HeldStays ==
  ASSUME ImplInv, KeptInv, [Next]_vars, ConsumedLater, NEW s \in Tested
  PROVE  \/ branch'[s.name] = s.candidate /\ s.candidate \in objects'
         \/ s.name.second < clock' /\ \E l \in landed' : l.offer = OfferOf(s)
<1>0. RefsTyped /\ RunnerTyped
  BY DEF ImplInv, TypeOK
<1>1. s \in Live /\ s.name \in Name /\ s.name.second \in Nat
      /\ s.candidate \in Commit /\ s.candidate # NoCommit
  BY TestedIsGood, BoundsAssumption DEF Name, Time
<1>2. CASE s.name.second < clock /\ Landed(OfferOf(s))
  BY <1>1, <1>2, OnlyGrow DEF Landed
<1>3. SUFFICES ASSUME branch[s.name] = s.candidate, s.candidate \in objects
               PROVE  \/ branch'[s.name] = s.candidate /\ s.candidate \in objects'
                      \/ s.name.second < clock' /\ \E l \in landed' : l.offer = OfferOf(s)
  BY <1>2 DEF KeptInv, AllHeld, Held
<1>4. CASE branch'[s.name] = branch[s.name] /\ objects \subseteq objects'
  BY <1>3, <1>4
<1>5. CASE RunStep
  <2>1. ASSUME NEW fresh \in BOOLEAN, NEW n \in Name, StartRun(fresh, n)
        PROVE  branch'[s.name] = branch[s.name] /\ objects \subseteq objects'
    <3>1. branch[n] = NoCommit
      BY <2>1 DEF StartRun, IsFreeName
    <3> QED
      BY <1>0, <1>1, <1>3, <2>1, <3>1 DEF StartRun, RefsTyped
  <2>2. ASSUME NEW accepted \in BOOLEAN, RebaseCompletes(accepted)
        PROVE  branch'[s.name] = branch[s.name] /\ objects \subseteq objects'
    <3>1. s.name # job.name
      BY <2>2 DEF RebaseCompletes, KeptInv, NameUntaken, Unfinished
    <3> QED
      BY <1>0, <1>1, <2>2, <3>1 DEF RebaseCompletes, RefsTyped
  <2>3. CASE DeleteRefs
    <3>1. ~job.ok => s.name # job.name
      BY <2>3 DEF DeleteRefs, KeptInv, NameUntaken, Unfinished
    <3> QED
      BY <1>0, <1>1, <1>4, <2>3, <3>1 DEF DeleteRefs, RefsTyped
  <2>4. CASE \/ StartRebase \/ RebaseEscalates \/ Interrupt \/ RemoveWorktree \/ Kill
             \/ \E tiers \in SUBSET StepTier : WriteBundle(tiers)
    BY <1>4, <2>4 DEF StartRebase, RebaseEscalates, Interrupt, RemoveWorktree, Kill, WriteBundle,
                      refs
  <2> QED
    BY <1>4, <1>5, <2>1, <2>2, <2>3, <2>4 DEF RunStep
<1>6. CASE OwnerStep
  BY <1>4, <1>6 DEF OwnerStep, OwnerCommits, OwnerResets, OwnerWorks, OwnerChecksOut, refs
<1>7. CASE WorldStep
  <2>1. CASE CollectGarbage
    BY <1>1, <1>3, <2>1 DEF CollectGarbage
  <2> QED
    BY <1>4, <1>7, <2>1 DEF WorldStep, UpstreamMoves, ForeignPush, Fetch, Tick, refs
<1>8. ASSUME NEW p \in Promoter, PromoteStep(p)
      PROVE  \/ branch'[s.name] = s.candidate /\ s.candidate \in objects'
             \/ s.name.second < clock' /\ \E l \in landed' : l.offer = OfferOf(s)
  <2>1. ASSUME NEW keep \in BOOLEAN, ConsumeBranch(p, keep), branch'[s.name] # branch[s.name]
        PROVE  s.name.second < clock /\ Landed(OfferOf(s))
    <3>1. /\ deal[p].state \in Tested
          /\ Landed(OfferOf(deal[p].state))
      <4>1. step[p] = "consume"
        BY <2>1 DEF ConsumeBranch
      <4>2. Successful(deal[p].state)
        BY <4>1, DealAtHand
      <4> QED
        BY <4>1, <4>2 DEF Tested, Live, Successful, KeptInv, SwappedHasLanded
    <3>2. deal[p].state.name = s.name
      BY <1>0, <1>1, <2>1 DEF ConsumeBranch, RefsTyped
    <3>3. ConsumeBranch(p, FALSE)
      BY <2>1 DEF ConsumeBranch
    <3> QED
      BY <3>1, <3>2, <3>3 DEF ConsumedLater, KeptInv, OneOfAName
  <2>2. ASSUME NEW keep \in BOOLEAN, ConsumeBranch(p, keep)
        PROVE  UNCHANGED objects
    BY <2>2 DEF ConsumeBranch
  <2>3. CASE \E keep \in BOOLEAN : ConsumeBranch(p, keep)
    BY <1>2, <1>4, <2>1, <2>2, <2>3
  <2>4. CASE ~ \E keep \in BOOLEAN : ConsumeBranch(p, keep)
    BY <1>4, <1>8, <2>4 DEF PromoteStep, Promote, CheckPromote, AbandonPromote, Swap,
                            ResetCheckout, RecordPromotion, refs
  <2> QED
    BY <2>3, <2>4
<1>9. CASE \E q \in Publisher : PublishStep(q)
  BY <1>4, <1>9 DEF PublishStep, Publish, Push, AbandonPublish, RecordPublication, refs
<1>10. CASE UNCHANGED vars
  BY <1>4, <1>10 DEF vars, refs
<1> QED
  BY <1>5, <1>6, <1>7, <1>8, <1>9, <1>10 DEF Next

\* A tested state after a step copies one from before, or is the run's result.
LEMMA TestedStep ==
  ASSUME ImplInv, [Next]_vars, NEW t \in Tested'
  PROVE  \/ \E s \in Tested : Like(s, t)
         \/ OfTheRun(t) /\ job.ok /\ t.candidate = branch[job.name]
<1>1. t \in Live' /\ t.outcome = "success"
  BY DEF Tested
<1> QED
  BY <1>1, LiveStep DEF Tested, Like, OfTheRun

\* A run is unfinished after a step only if it has just been started, or was.
LEMMA UnfinishedStep ==
  ASSUME ImplInv, KeptInv, [Next]_vars, Unfinished'
  PROVE  \/ \E fresh \in BOOLEAN, n \in Name : StartRun(fresh, n)
         \/ Unfinished /\ job'.name = job.name
<1>0. RunnerTyped /\ RunnerTyped'
  BY ImplStep DEF ImplInv, TypeOK
<1>1. job' # NoJob
  BY <1>0 DEF RunnerTyped, Unfinished
<1>2. CASE UNCHANGED <<stage, job>>
  BY <1>2 DEF Unfinished
<1>3. CASE RunStep
  <2>1. CASE \/ StartRebase \/ RebaseEscalates \/ Interrupt
             \/ \E accepted \in BOOLEAN : RebaseCompletes(accepted)
             \/ \E tiers \in SUBSET StepTier : WriteBundle(tiers)
    <3>1. Unfinished
      BY <2>1 DEF StartRebase, RebaseEscalates, Interrupt, RebaseCompletes, WriteBundle, Unfinished
    <3>2. ~ \E fresh \in BOOLEAN, n \in Name : StartRun(fresh, n)
      BY <2>1 DEF StartRun, StartRebase, RebaseEscalates, Interrupt, RebaseCompletes, WriteBundle
    <3> QED
      BY <1>1, <3>1, <3>2, JobStep
  <2>2. CASE RemoveWorktree
    BY <2>2 DEF RemoveWorktree, Unfinished
  <2>3. CASE DeleteRefs \/ Kill
    BY <1>1, <2>3 DEF DeleteRefs, Kill
  <2> QED
    BY <1>3, <2>1, <2>2, <2>3 DEF RunStep
<1>4. CASE ~RunStep
  <2>1. UNCHANGED <<stage, job>>
    BY <1>4 DEF Next, OwnerStep, OwnerCommits, OwnerResets, OwnerWorks, OwnerChecksOut, WorldStep,
                UpstreamMoves, ForeignPush, Fetch, CollectGarbage, Tick, PromoteStep, Promote,
                CheckPromote, AbandonPromote, Swap, ResetCheckout, RecordPromotion, ConsumeBranch,
                PublishStep, Publish, Push, AbandonPublish, RecordPublication, runner, vars
  <2> QED
    BY <1>2, <2>1
<1> QED
  BY <1>3, <1>4

LEMMA AllHeldStep ==
  ASSUME ImplInv, KeptInv, [Next]_vars, ConsumedLater
  PROVE  AllHeld'
<1> SUFFICES ASSUME NEW t \in Tested'
             PROVE  Held(t)'
  BY DEF AllHeld
<1>1. ASSUME NEW s \in Tested, Like(s, t)
      PROVE  Held(t)'
  BY <1>1, HeldStays DEF Held, Landed, Like
<1>2. CASE OfTheRun(t) /\ job.ok /\ t.candidate = branch[job.name]
  BY <1>2 DEF OfTheRun, WriteBundle, KeptInv, ResultKept, Held
<1> QED
  BY <1>1, <1>2, TestedStep

LEMMA OneOfANameStep ==
  ASSUME ImplInv, KeptInv, [Next]_vars
  PROVE  OneOfAName'
<1> SUFFICES ASSUME NEW t \in Tested', NEW u \in Tested', t.name = u.name
             PROVE  OfferOf(t) = OfferOf(u)
  BY DEF OneOfAName, OfferOf
<1>1. ASSUME NEW s \in Tested, OfTheRun(t) \/ OfTheRun(u)
      PROVE  s.name # job.name
  BY <1>1 DEF OfTheRun, KeptInv, NameUntaken, Unfinished
<1>2. CASE OfTheRun(t) /\ OfTheRun(u)
  BY <1>2 DEF OfTheRun, PathOf
<1>3. CASE (\E s \in Tested : Like(s, t)) /\ (\E s \in Tested : Like(s, u))
  BY <1>3 DEF Like, KeptInv, OneOfAName
<1>4. CASE (\E s \in Tested : Like(s, t)) /\ OfTheRun(u)
  BY <1>1, <1>4 DEF Like, OfTheRun
<1>5. CASE (\E s \in Tested : Like(s, u)) /\ OfTheRun(t)
  BY <1>1, <1>5 DEF Like, OfTheRun
<1> QED
  BY <1>2, <1>3, <1>4, <1>5, TestedStep

\* A run takes a name that is free, in the current second: a state with that name
\* would have its branch, or be of an earlier second.
LEMMA NameUntakenStep ==
  ASSUME ImplInv, KeptInv, [Next]_vars
  PROVE  NameUntaken'
<1> SUFFICES ASSUME Unfinished', NEW t \in Tested'
             PROVE  t.name # job'.name
  BY DEF NameUntaken
<1>1. ASSUME NEW fresh \in BOOLEAN, NEW n \in Name, StartRun(fresh, n)
      PROVE  t.name # job'.name
  <2>1. branch[n] = NoCommit /\ n.second = clock /\ job'.name = n /\ stage = "idle"
    BY <1>1 DEF StartRun, IsFreeName
  <2>2. PICK s \in Tested : Like(s, t)
    BY <2>1, TestedStep DEF OfTheRun
  <2>3. s.candidate # NoCommit /\ clock \in Nat
    BY <2>2, TestedIsGood, OnlyGrow
  <2>4. s.name # n
    BY <2>1, <2>3 DEF KeptInv, AllHeld, Held
  <2> QED
    BY <2>1, <2>2, <2>4 DEF Like
<1>2. CASE Unfinished /\ job'.name = job.name
  <2>1. ASSUME NEW s \in Tested, Like(s, t)
        PROVE  t.name # job'.name
    BY <1>2, <2>1 DEF Like, KeptInv, NameUntaken
  <2>2. CASE OfTheRun(t) /\ job.ok
    BY <2>2 DEF OfTheRun, WriteBundle, Unfinished
  <2> QED
    BY <2>1, <2>2, TestedStep
<1> QED
  BY <1>1, <1>2, UnfinishedStep

LEMMA ResultStep ==
  ASSUME ImplInv, KeptInv, [Next]_vars
  PROVE  NoEarlyResult' /\ ResultKept'
<1>0. RefsTyped /\ RunnerTyped
  BY DEF ImplInv, TypeOK
<1>1. CASE RunStep
  <2>1. CASE \E fresh \in BOOLEAN, n \in Name : StartRun(fresh, n)
    BY <2>1 DEF StartRun, NoEarlyResult, ResultKept
  <2>2. CASE StartRebase
    <3>1. job \in Job
      BY <1>0, <2>2 DEF StartRebase, RunnerTyped
    <3> QED
      BY <2>2, <3>1 DEF StartRebase, Job, KeptInv, NoEarlyResult, ResultKept
  <2>3. ASSUME NEW accepted \in BOOLEAN, RebaseCompletes(accepted)
        PROVE  NoEarlyResult' /\ ResultKept'
    <3>1. job \in Job /\ job.name \in Name
      BY <1>0, <2>3 DEF RebaseCompletes, RunnerTyped, Job
    <3>2. job'.name = job.name
      BY <2>3, <3>1 DEF RebaseCompletes, Job
    <3> QED
      BY <1>0, <2>3, <3>1, <3>2 DEF RebaseCompletes, NoEarlyResult, ResultKept, RefsTyped
  <2>4. CASE \/ RebaseEscalates \/ Interrupt \/ RemoveWorktree \/ DeleteRefs \/ Kill
             \/ \E tiers \in SUBSET StepTier : WriteBundle(tiers)
    BY <2>4 DEF RebaseEscalates, Interrupt, RemoveWorktree, DeleteRefs, Kill, WriteBundle, KeptInv,
                NoEarlyResult, ResultKept
  <2> QED
    BY <1>1, <2>1, <2>2, <2>3, <2>4 DEF RunStep
<1>2. CASE ~RunStep
  <2>1. UNCHANGED <<stage, job>>
    BY <1>2 DEF Next, OwnerStep, OwnerCommits, OwnerResets, OwnerWorks, OwnerChecksOut, WorldStep,
                UpstreamMoves, ForeignPush, Fetch, CollectGarbage, Tick, PromoteStep, Promote,
                CheckPromote, AbandonPromote, Swap, ResetCheckout, RecordPromotion, ConsumeBranch,
                PublishStep, Publish, Push, AbandonPublish, RecordPublication, runner, vars
  <2>2. SUFFICES ASSUME stage = "rebased", job.ok
                 PROVE  branch'[job.name] \in objects'
    BY <2>1 DEF KeptInv, NoEarlyResult, ResultKept
  <2>3. /\ job.name \in Name /\ job.name \in worktrees /\ branch[job.name] \in objects
        /\ branch[job.name] # NoCommit
    BY <1>0, <2>2, NotCommit DEF RunnerTyped, Job, KeptInv, ResultKept, ImplInv, RunOwnsBranch
  <2>4. CASE branch'[job.name] = branch[job.name] /\ objects \subseteq objects'
    BY <2>3, <2>4
  <2>5. ASSUME NEW p \in Promoter, NEW keep \in BOOLEAN, ConsumeBranch(p, keep)
        PROVE  branch'[job.name] = branch[job.name] /\ objects \subseteq objects'
    BY <1>0, <2>3, <2>5 DEF ConsumeBranch, RefsTyped
  <2>6. CASE CollectGarbage
    BY <2>3, <2>6 DEF CollectGarbage
  <2>7. CASE OwnerStep
    BY <2>4, <2>7 DEF OwnerStep, OwnerCommits, OwnerResets, OwnerWorks, OwnerChecksOut, refs
  <2>8. CASE WorldStep
    BY <2>4, <2>6, <2>8 DEF WorldStep, UpstreamMoves, ForeignPush, Fetch, Tick, refs
  <2>9. CASE \E p \in Promoter : PromoteStep(p)
    BY <2>4, <2>5, <2>9 DEF PromoteStep, Promote, CheckPromote, AbandonPromote, Swap,
                            ResetCheckout, RecordPromotion, refs
  <2>10. CASE \E q \in Publisher : PublishStep(q)
    BY <2>4, <2>10 DEF PublishStep, Publish, Push, AbandonPublish, RecordPublication, refs
  <2>11. CASE UNCHANGED vars
    BY <2>4, <2>11 DEF vars, refs
  <2> QED
    BY <1>2, <2>7, <2>8, <2>9, <2>10, <2>11 DEF Next
<1> QED
  BY <1>1, <1>2

LEMMA SwappedStep ==
  ASSUME ImplInv, KeptInv, [Next]_vars
  PROVE  SwappedHasLanded'
<1>0. step \in [Promoter -> Steps] /\ deal \in [Promoter -> Deal \union {NoDeal}]
  BY DEF ImplInv, TypeOK, PromoteTyped
<1> SUFFICES ASSUME NEW r \in Promoter, step'[r] \in {"reset", "record", "consume"}
             PROVE  \E l \in landed' : l.offer = OfferOf(deal'[r].state)
  BY DEF SwappedHasLanded, Landed, OfferOf
<1>1. CASE step[r] \in {"reset", "record", "consume"} /\ deal'[r] = deal[r]
  BY <1>1, OnlyGrow DEF KeptInv, SwappedHasLanded, Landed
<1>2. CASE UNCHANGED promote
  BY <1>1, <1>2 DEF promote
<1>3. ASSUME NEW p \in Promoter, PromoteStep(p)
      PROVE  \E l \in landed' : l.offer = OfferOf(deal'[r].state)
  <2>1. CASE r # p
    BY <1>0, <1>1, <1>3, <2>1
       DEF PromoteStep, Promote, CheckPromote, Swap, ResetCheckout, AbandonPromote,
           RecordPromotion, ConsumeBranch, EndPromote
  <2>2. CASE r = p /\ Swap(p)
    <3> DEFINE l == [offer |-> OfferOf(deal[p].state), consent |-> deal[p].approve]
    <3>1. l \in landed' /\ deal' = deal
      BY <2>2 DEF Swap
    <3>2. l.offer = OfferOf(deal[p].state)
      OBVIOUS
    <3> HIDE DEF l
    <3> QED
      BY <2>2, <3>1, <3>2
  <2>3. CASE r = p /\ ~Swap(p)
    BY <1>0, <1>1, <1>3, <2>3
       DEF PromoteStep, Promote, CheckPromote, ResetCheckout, AbandonPromote, RecordPromotion,
           ConsumeBranch, EndPromote
  <2> QED
    BY <2>1, <2>2, <2>3
<1> QED
  BY <1>2, <1>3, DealMovers

LEMMA KeptStep == ImplInv /\ KeptInv /\ [Next]_vars /\ [ConsumedLater]_vars => KeptInv'
<1>1. ASSUME ImplInv, KeptInv, [Next]_vars, ConsumedLater
      PROVE  KeptInv'
  BY <1>1, AllHeldStep, OneOfANameStep, NameUntakenStep, ResultStep, SwappedStep DEF KeptInv
<1>2. ASSUME ImplInv, KeptInv, UNCHANGED vars
      PROVE  KeptInv'
  BY <1>2 DEF vars, refs, world, runner, promote, publish, ghosts, KeptInv, AllHeld, OneOfAName,
              NameUntaken, NoEarlyResult, ResultKept, SwappedHasLanded, Tested, Live, Held, Landed,
              Unfinished
<1> QED
  BY <1>1, <1>2

\* A state file that says success names a commit that can be promoted, or that has
\* landed: no run, clean-up, kill, promote or gc takes a tested candidate away, as
\* long as promote comes to delete a branch in a later second than its name.
THEOREM TestedCandidateIsKept ==
  Spec /\ [][ConsumedLater]_vars => []TestedCandidateNotLost
<1>1. KeptInv => TestedCandidateNotLost
  BY DEF KeptInv, AllHeld, Held, Tested, Live, TestedCandidateNotLost
<1> QED
  BY <1>1, KeptInit, KeptStep, CandidateInvariant, PTL DEF Spec
=============================================================================
