--------------------------- MODULE SessionProofs ---------------------------
(***************************************************************************)
(* Proofs about a rebase session and about what is around it: the session  *)
(* loop, for any number of picks and files, any conflicts and any answers  *)
(* of git and the human; then the run lock, and clean beside runs, for any *)
(* number of processes, ids, copies, start times and any clock.            *)
(***************************************************************************)
EXTENDS RebaseLoop, Clean, TLAPS, WellFoundedInduction

-----------------------------------------------------------------------------
(* Where git goes on to. *)

\* A set of picks that is not empty has a first one.
LEMMA First ==
  ASSUME NEW S, S \subseteq Nat, S # {}
  PROVE  \E p \in S : \A r \in S : p <= r
<1>1. \E p \in S : \A r \in S : ~ (<<r, p>> \in OpToRel(<, Nat))
  BY WFMin, NatLessThanWellFounded, Zenon
<1>2. PICK p \in S : \A r \in S : ~ (<<r, p>> \in OpToRel(<, Nat))
  BY <1>1
<1>3. ASSUME NEW r \in S PROVE p <= r
  <2>1. ~ (<<r, p>> \in OpToRel(<, Nat))
    BY <1>2
  <2>2. <<r, p>> \in OpToRel(<, Nat) <=> r < p
    BY DEF OpToRel
  <2>3. ~ (r < p)
    BY <2>1, <2>2, Zenon
  <2> QED BY <2>3
<1> QED BY <1>3

Conflicts == conflicts \in [Pick -> [File -> Conflict]]

\* A state of git in which the picks from the stop on are still to do.
Fits(g) ==
  /\ g \in GitState
  /\ InProgress(g) => g.pos \in Pick /\ \A p \in Pick : p >= g.pos => g.fate[p] = "todo"

\* Every pick before the stop, or every pick, has been seen to.
Done(g) ==
  /\ g.place = "stopped" => \A p \in Pick : p < g.pos => g.fate[p] # "todo"
  /\ g.place = "rebased" => \A p \in Pick : g.fate[p] # "todo"

\* Git has just stopped, or is not stopped: no file has been touched.
Fresh(g) ==
  \A f \in File : /\ g.file[f] \in {"none", "raw", "opaque"}
                  /\ g.file[f] = "raw" => conflicts[g.pos][f] = "units"

LEMMA ProceedFits ==
  ASSUME Conflicts, NEW g, g \in GitState, NEW q \in 0..Picks,
         \A p \in Pick : p > q => g.fate[p] = "todo"
  PROVE  /\ Fits(Proceed(g, q))
         /\ Proceed(g, q).place \in {"stopped", "rebased"}
         /\ ~Proceed(g, q).refuses
         /\ Proceed(g, q).place = "stopped" => Proceed(g, q).pos > q
         /\ \A p \in Pick : p <= q => Proceed(g, q).fate[p] = g.fate[p]
         /\ \A p \in Pick : Proceed(g, q).fate[p] \in {"applied", g.fate[p]}
         /\ Fresh(Proceed(g, q))
         /\ Proceed(g, q).place = "stopped" =>
              \A r \in Pick : q < r /\ r < Proceed(g, q).pos => ~Conflicting(r)
         /\ (\A p \in Pick : p <= q => g.fate[p] # "todo") => Done(Proceed(g, q))
<1>0. Picks \in Nat /\ q \in Nat /\ Pick \subseteq Nat
  BY RebaseAssumption DEF Pick
<1>4. \A p \in Pick : p <= q <=> ~ (p > q)
  BY <1>0
<1>5. \A p, r \in Pick : p >= r => ~ (p < r) /\ (r > q => p > q)
  BY <1>0
<1> DEFINE stops == {p \in Pick : p > q /\ Conflicting(p)}
           next  == CHOOSE p \in stops : \A r \in stops : p <= r
           clean == {p \in Pick : p > q /\ \A r \in stops : p < r}
           fate  == [p \in Pick |-> IF p \in clean THEN "applied" ELSE g.fate[p]]
           AtStop(f) == CASE conflicts[next][f] = "none" -> "none"
                          [] conflicts[next][f] = "units" -> "raw"
                          [] conflicts[next][f] = "unsupported" -> "opaque"
           file  == [f \in File |-> AtStop(f)]
<1>1. fate \in [Pick -> Fate] /\ g.fate \in [Pick -> Fate]
  BY DEF GitState, Fate
<1>2. CASE stops = {}
  <2>1. Proceed(g, q) = [place |-> "rebased", pos |-> 0, fate |-> fate, file |-> NoFiles,
                         refuses |-> FALSE]
    BY <1>2 DEF Proceed
  <2>2. NoFiles \in [File -> FileState]
    BY DEF NoFiles, FileState
  <2>3. \A p \in Pick : p > q => p \in clean
    BY <1>2
  <2> HIDE DEF fate
  <2>4. Proceed(g, q) \in GitState
    BY <2>1, <2>2, <1>1, <1>0 DEF GitState
  <2>5. \A p \in Pick : fate[p] = IF p \in clean THEN "applied" ELSE g.fate[p]
    BY DEF fate
  <2>6. \A p \in Pick : p <= q => p \notin clean
    BY <1>4
  <2> HIDE DEF clean
  <2>8. \A f \in File : NoFiles[f] = "none"
    BY DEF NoFiles
  <2> QED BY <2>1, <2>3, <2>4, <2>5, <2>6, <1>4, <2>8 DEF Fits, InProgress, Done, Fresh
<1>3. CASE stops # {}
  <2>1. \E p \in stops : \A r \in stops : p <= r
    BY First, <1>3, <1>0
  <2>2. next \in stops /\ \A r \in stops : next <= r
    BY <2>1
  <2>3. Proceed(g, q) = [place |-> "stopped", pos |-> next, fate |-> fate, file |-> file,
                         refuses |-> FALSE]
    BY <1>3 DEF Proceed
  <2>4. next \in Pick /\ next > q
    BY <2>2
  <2>5. \A f \in File : /\ file[f] \in {"none", "raw", "opaque"}
                        /\ file[f] = "raw" => conflicts[next][f] = "units"
    BY <2>4 DEF Conflicts, Conflict
  <2>23. \A f \in File : file[f] \in {"none", "raw", "opaque"}
    BY <2>5
  <2>6. file \in [File -> FileState]
    BY <2>23 DEF FileState
  <2> HIDE DEF next, file, fate
  <2>7. \A p \in Pick : p >= next => p \notin clean
    BY <2>2, <2>4, <1>5
  <2>21. \A p \in Pick, r \in stops : p < next => p < r
    <3> TAKE p \in Pick, r \in stops
    <3>1. p \in Nat /\ r \in Nat /\ next \in Nat /\ next <= r
      BY <2>2, <2>4, <1>0
    <3> HIDE DEF stops, clean
    <3> QED BY <3>1
  <2>8. \A p \in Pick : p > q /\ p < next => p \in clean
    BY <2>21
  <2>22. \A r \in Pick : q < r /\ r < next => ~Conflicting(r)
    <3> SUFFICES ASSUME NEW r \in Pick, q < r, r < next, Conflicting(r) PROVE FALSE
      OBVIOUS
    <3>1. r \in stops
      BY <1>0
    <3>2. next <= r /\ next \in Nat /\ r \in Nat
      BY <2>2, <2>4, <3>1, <1>0
    <3> HIDE DEF stops, clean
    <3> QED BY <3>2
  <2>9. Proceed(g, q) \in GitState
    <3>1. next \in 0..Picks
      BY <2>4, <1>0 DEF Pick
    <3> QED BY <2>3, <2>6, <1>1, <3>1 DEF GitState
  <2>10. \A p \in Pick : fate[p] = IF p \in clean THEN "applied" ELSE g.fate[p]
    BY DEF fate
  <2>11. \A p \in Pick : p <= q => p \notin clean
    BY <1>4
  <2>12. \A p \in Pick : (p <= q <=> ~ (p > q)) /\ (p >= next => p > q)
    BY <1>4, <2>4, <1>5
  <2> HIDE DEF clean
  <2>13. \A p \in Pick : p >= next => fate[p] = "todo"
    BY <2>7, <2>10, <2>12
  <2> HIDE DEF stops
  <2>14. Fresh(Proceed(g, q))
    BY <2>3, <2>5 DEF Fresh
  <2> QED BY <2>3, <2>4, <2>8, <2>9, <2>10, <2>11, <2>12, <2>13, <2>14, <2>22 DEF Fits, InProgress, Done
<1> QED BY <1>2, <1>3

LEMMA StartFits == Fits(Start) /\ Done(Start)
<1>1. Start.fate \in [Pick -> Fate] /\ Start.file \in [File -> FileState]
  BY DEF Start, NoFiles, Fate, FileState
<1>2. 0 \in 0..Picks
  BY RebaseAssumption
<1> QED BY <1>1, <1>2 DEF Fits, Done, Start, GitState, InProgress

\* What happens to the files alone changes nothing else of git.
LEMMA FilesFit ==
  ASSUME NEW g, Fits(g), NEW files \in [File -> FileState]
  PROVE  Fits([g EXCEPT !.file = files])
BY DEF Fits, GitState, InProgress

LEMMA LeaveFits ==
  ASSUME Conflicts, NEW g, Fits(g), InProgress(g), NEW how \in Fate
  PROVE  LET h == Leave(g, how) IN
         /\ Fits(h) /\ h.place \in {"stopped", "rebased"} /\ ~h.refuses
         /\ h.place = "stopped" => h.pos > g.pos
         /\ \A p \in Pick : \/ h.fate[p] \in {"applied", g.fate[p]}
                            \/ p = g.pos /\ h.fate[p] = how
         /\ Fresh(h)
         /\ h.place = "stopped" =>
              \A r \in Pick : g.pos < r /\ r < h.pos => ~Conflicting(r)
         /\ Done(g) /\ how # "todo" => Done(h)
<1> DEFINE n == [g EXCEPT !.fate[g.pos] = how]
<1>1. n \in GitState /\ g.pos \in Pick
  BY DEF Fits, GitState
<1>2. g.pos \in 0..Picks /\ Picks \in Nat
  BY RebaseAssumption DEF Fits, GitState
<1>3. \A p \in Pick : n.fate[p] = IF p = g.pos THEN how ELSE g.fate[p]
  BY <1>1 DEF Fits, GitState
<1>4. \A p \in Pick : (p > g.pos => p >= g.pos /\ p # g.pos)
                      /\ (p <= g.pos => p < g.pos \/ p = g.pos)
  BY <1>2 DEF Pick
<1>5. \A p \in Pick : p > g.pos => n.fate[p] = "todo"
  BY <1>3, <1>4 DEF Fits
<1>6. Done(g) /\ how # "todo" => \A p \in Pick : p <= g.pos => n.fate[p] # "todo"
  BY <1>3, <1>4 DEF Done, InProgress
<1>7. Leave(g, how) = Proceed(n, g.pos)
  BY DEF Leave
<1> HIDE DEF n
<1> QED BY <1>1, <1>2, <1>3, <1>5, <1>6, <1>7, ProceedFits

-----------------------------------------------------------------------------
(* Types, and where git is while capybase is somewhere. *)

Where ==
  /\ guarded => pc \in {"resolve", "gate", "continue", "completion"}
  /\ pc \in {"resolve", "gate", "continue", "human"} => git.place = "stopped"
  /\ pc \in {"scan", "completion"} => git.place = "rebased"
  /\ pc = "start" => git = Start /\ menu = {}
  /\ pc \in {"resolve", "gate", "continue"} => stuck < MaxStuck

Inv == TypeOK /\ Where

LEMMA InvInit == Init => Inv
<1> SUFFICES ASSUME Init PROVE Inv
  OBVIOUS
<1>1. Fits(git)
  BY StartFits DEF Init
<1>2. TypeOK
  <2>1. git \in GitState /\ (InProgress(git) => git.pos \in Pick /\ \A p \in Pick : p >= git.pos => git.fate[p] = "todo")
    BY <1>1 DEF Fits
  <2>2. stuck \in 0..MaxStuck /\ glitches \in 0..MaxGlitch
    BY RebaseAssumption DEF Init, MaxStuck
  <2> QED BY <2>1, <2>2 DEF Init, TypeOK
<1>3. Where
  BY DEF Init, Where
<1> QED BY <1>2, <1>3 DEF Inv

\* An answer of git leaves it stopped or done.
LEMMA AnswersFit ==
  ASSUME TypeOK, InProgress(git), NEW a \in Answers(git) \cup {Refuses(git)}
  PROVE  /\ Fits(a.git) /\ a.git.place \in {"stopped", "rebased"}
         /\ a.ok \in BOOLEAN /\ a.empty \in BOOLEAN
         /\ a.ok => a.git.place = "rebased"
<1>1. Fits(git) /\ Conflicts /\ git.place = "stopped"
  BY DEF TypeOK, Fits, Conflicts, InProgress
<1> DEFINE stubborn == [git EXCEPT !.refuses = TRUE]
<1>2. Fits(stubborn) /\ stubborn.place = "stopped"
  BY <1>1 DEF Fits, GitState, InProgress
<1>3. ASSUME NEW how \in {"applied", "empty", "marked"}, NEW printed
      PROVE  LET r == Replayed(git, how, printed) IN
             /\ Fits(r.git) /\ r.git.place \in {"stopped", "rebased"}
             /\ r.ok \in BOOLEAN /\ r.empty \in BOOLEAN /\ (r.ok => r.git.place = "rebased")
  <2>1. how \in Fate
    BY DEF Fate
  <2> QED BY <1>1, <2>1, LeaveFits DEF Replayed, Answer, InProgress
<1> HIDE DEF stubborn
<1>4. ASSUME NEW g, a = Refuses(g), g = git \/ g = stubborn
      PROVE  /\ Fits(a.git) /\ a.git.place = "stopped" /\ a.ok = FALSE /\ a.empty = FALSE
  BY <1>1, <1>2, <1>4 DEF Refuses, Answer
<1>5. CASE a = Answer(git, FALSE, TRUE, {})
  BY <1>1, <1>5 DEF Answer
<1>6. \/ a = Refuses(git) \/ a = Refuses(stubborn) \/ a = Answer(git, FALSE, TRUE, {})
      \/ a = Replayed(git, "marked", {git.pos}) \/ a = Replayed(git, "applied", {git.pos})
      \/ a = Replayed(git, "empty", {})
  BY DEF Answers, stubborn
<1>7. CASE a = Refuses(git) \/ a = Refuses(stubborn)
  BY <1>4, <1>7
<1>8. CASE \E how \in {"applied", "empty", "marked"} : a = Replayed(git, how, {git.pos}) \/ a = Replayed(git, how, {})
  BY <1>3, <1>8
<1> QED BY <1>5, <1>6, <1>7, <1>8

\* The state continue leaves git in: the answer's, or that of the skip after it.
After(a) == IF ~a.ok /\ InProgress(a.git) /\ ReadsEmpty(a) THEN Skip(a.git, a.empty) ELSE a.git

LEMMA AfterFits ==
  ASSUME TypeOK, InProgress(git), NEW a \in Answers(git) \cup {Refuses(git)}
  PROVE  Fits(After(a)) /\ After(a).place \in {"stopped", "rebased"}
<1>1. Fits(a.git) /\ a.git.place \in {"stopped", "rebased"} /\ Conflicts
  BY AnswersFit DEF TypeOK, Conflicts
<1>2. CASE After(a) = a.git
  BY <1>1, <1>2
<1>3. CASE InProgress(a.git) /\ After(a) = Skip(a.git, a.empty)
  <2>1. \E how \in Fate : After(a) = Leave(a.git, how)
    BY <1>3 DEF Skip, Fate
  <2> QED BY <1>1, <1>3, <2>1, LeaveFits
<1> QED BY <1>2, <1>3 DEF After

LEMMA ContinueTo ==
  ASSUME TypeOK, Where, pc = "continue", NEW unread \in BOOLEAN,
         NEW a \in Answers(git) \cup {Refuses(git)}, Continue(a, unread)
  PROVE  /\ git' = After(a) /\ stuck' \in {0, stuck + 1} /\ stuck' \in 0..MaxStuck
         /\ pc' \in {"offer", "resolve", "completion"}
         /\ pc' = "resolve" => stuck' < MaxStuck /\ git'.place = "stopped"
         /\ pc' = "completion" => git'.place = "rebased"
         /\ pc' # "offer" => guarded' = guarded /\ menu' \in {menu, {}}
         /\ pc' = "offer" => guarded' = FALSE /\ menu' = menu
         /\ fresh' \in {TRUE, fresh} /\ known' \in BOOLEAN
         /\ UNCHANGED <<setup, outcome>>
<1>1. git' = After(a)
  BY DEF Continue, After
<1>2. After(a).place \in {"stopped", "rebased"}
  BY AfterFits DEF Where, InProgress
<1>3. stuck' \in {0, stuck + 1} /\ known' \in BOOLEAN
  BY DEF Continue, InProgress
<1>4. stuck' \in 0..MaxStuck
  BY <1>3 DEF Where, MaxStuck, TypeOK
<1>5. \/ Wedged(stuck') /\ Escalate(menu) /\ UNCHANGED fresh
      \/ ~Wedged(stuck') /\ InProgress(git') /\ pc' = "resolve" /\ menu' = {} /\ fresh' = TRUE
            /\ UNCHANGED guarded
      \/ ~Wedged(stuck') /\ ~InProgress(git') /\ pc' = "completion"
            /\ UNCHANGED <<guarded, menu, fresh>>
  BY DEF Continue
<1>6. ~Wedged(stuck') => stuck' < MaxStuck
  BY <1>4 DEF Wedged, MaxStuck
<1>7. UNCHANGED <<setup, outcome>>
  BY DEF Continue
<1> QED BY <1>1, <1>2, <1>3, <1>4, <1>5, <1>6, <1>7 DEF Escalate, InProgress

\* The types of what is not git.
Rest ==
  /\ Conflicts /\ mode \in Mode
  /\ pc \in {"start", "scan", "resolve", "gate", "continue", "completion", "offer",
             "human", "settle", "ended"}
  /\ guarded \in BOOLEAN /\ known \in BOOLEAN /\ fresh \in BOOLEAN
  /\ menu \subseteq File
  /\ stuck \in 0..MaxStuck
  /\ glitches \in 0..MaxGlitch
  /\ outcome \in {"none", "completed", "escalated", "interrupted", "killed", "error"}
  /\ (pc = "ended" <=> outcome # "none")

LEMMA TypesAre == TypeOK <=> Fits(git) /\ Rest
BY DEF TypeOK, Fits, Rest, Conflicts

LEMMA FilesOf ==
  ASSUME Fits(git), NEW staged, NEW written
  PROVE  /\ Fits(Files(staged, written)) /\ Files(staged, written).place = git.place
         /\ \A f \in File : Files(staged, written).file[f] \in {"staged", "written", git.file[f]}
<1> DEFINE files == [f \in File |-> IF f \in staged THEN "staged"
                                   ELSE IF f \in written THEN "written" ELSE git.file[f]]
<1>1. files \in [File -> FileState]
  BY DEF Fits, GitState, FileState
<1>2. Files(staged, written) = [git EXCEPT !.file = files]
  BY DEF Files
<1>3. \A f \in File : files[f] \in {"staged", "written", git.file[f]}
  OBVIOUS
<1> HIDE DEF files
<1>4. [git EXCEPT !.file = files].place = git.place /\ [git EXCEPT !.file = files].file = files
  BY DEF Fits, GitState
<1> QED BY <1>1, <1>2, <1>3, <1>4, FilesFit

LEMMA GitStep ==
  ASSUME Inv, [Next]_vars
  PROVE  Fits(git')
<1>0. Fits(git) /\ Conflicts /\ Where /\ TypeOK
  BY TypesAre DEF Inv, Rest
<1>1. CASE git' = git
  BY <1>0, <1>1 DEF Fits, InProgress
<1>2. CASE git' = Start
  BY StartFits, <1>2
<1>3. CASE \E staged, written \in SUBSET File : git' = Files(staged, written)
  BY FilesOf, <1>0, <1>3
<1>4. ASSUME NEW accepted \in BOOLEAN, StartRebase(accepted) PROVE Fits(git')
  <2>1. \A p \in Pick : p > 0 => Start.fate[p] = "todo"
    BY DEF Start
  <2>2. Start \in GitState /\ 0 \in 0..Picks
    BY StartFits, RebaseAssumption DEF Fits
  <2>3. Fits(Proceed(Start, 0))
    BY <2>1, <2>2, <1>0, ProceedFits
  <2> QED BY <2>3, <1>4, <1>0 DEF StartRebase, Where
<1>5. CASE ContinueStep
  <2>1. InProgress(git)
    BY <1>0, <1>5 DEF ContinueStep, Where, InProgress
  <2>2. \E a \in Answers(git) \cup {Refuses(git)}, unread \in BOOLEAN : Continue(a, unread)
    BY <1>5 DEF ContinueStep
  <2>3. \E a \in Answers(git) \cup {Refuses(git)} : git' = After(a)
    BY <2>2 DEF Continue, After
  <2> QED BY <2>1, <2>3, <1>0, AfterFits
<1>6. ASSUME NEW f \in File, NEW left \in FileState, HumanResolves(f, left) PROVE Fits(git')
  <2>1. [git.file EXCEPT ![f] = left] \in [File -> FileState]
    BY <1>0 DEF Fits, GitState
  <2>2. git' = [git EXCEPT !.file = [git.file EXCEPT ![f] = left]]
    BY <1>6, <1>0 DEF HumanResolves, Fits, GitState
  <2> QED BY <2>1, <2>2, <1>0, FilesFit
<1>7. ASSUME NEW f \in File, NEW restored \in BOOLEAN, HumanSkips(f, restored) PROVE Fits(git')
  <2>1. [git.file EXCEPT ![f] = "raw"] \in [File -> FileState]
    BY <1>0 DEF Fits, GitState, FileState
  <2>2. git' = git \/ git' = [git EXCEPT !.file = [git.file EXCEPT ![f] = "raw"]]
    BY <1>7, <1>0 DEF HumanSkips, Fits, GitState
  <2>3. CASE git' = git
    BY <2>3, <1>1
  <2>4. CASE git' = [git EXCEPT !.file = [git.file EXCEPT ![f] = "raw"]]
    BY <2>1, <2>4, <1>0, FilesFit
  <2> QED BY <2>2, <2>3, <2>4
<1>8. CASE ResolveStep
  <2>1. Units(git) \subseteq File
    BY DEF Units
  <2> QED BY <1>8, <1>1, <1>3, <2>1 DEF ResolveStep, NothingToResolve, NoUnits, Resolves, ResolutionFails,
                                   ValidationFails
<1>9. CASE \/ \E marked \in BOOLEAN : ScanClean(marked) \/ Complete(marked)
           \/ \E passes \in BOOLEAN : Gate(passes)
           \/ OpenMenu \/ Bail \/ DontOffer \/ HumanDone \/ Settle
           \/ HumanAborts \/ Interrupt \/ Die
  BY <1>9, <1>1, <1>2 DEF ScanClean, Complete, Gate, OpenMenu, Bail, DontOffer, HumanDone, Settle,
                          HumanAborts, Interrupt, Die
<1>10. CASE UNCHANGED vars
  BY <1>10, <1>1 DEF vars
<1> QED BY <1>4, <1>5, <1>6, <1>7, <1>8, <1>9, <1>10 DEF Next, Step, HumanStep

LEMMA RestStep ==
  ASSUME Inv, [Next]_vars
  PROVE  Rest' /\ Where'
<1>0. Rest /\ Where /\ TypeOK /\ Fits(git)
  BY TypesAre DEF Inv
<1> USE DEF setup, Conflicts
<1>1. ASSUME NEW accepted \in BOOLEAN, StartRebase(accepted) PROVE Rest' /\ Where'
  <2>1. 0 \in 0..MaxStuck /\ 0 < MaxStuck
    BY DEF MaxStuck
  <2>2. \A p \in Pick : p > 0 => Start.fate[p] = "todo"
    BY DEF Start
  <2>3. Start \in GitState /\ 0 \in 0..Picks
    BY StartFits, RebaseAssumption DEF Fits
  <2>4. Proceed(Start, 0).place \in {"stopped", "rebased"}
    BY <2>2, <2>3, <1>0, ProceedFits DEF Rest
  <2>5. git = Start
    BY <1>0, <1>1 DEF Where, StartRebase
  <2>6. CASE ~accepted
    BY <1>0, <1>1, <2>5, <2>6 DEF StartRebase, Rest, Where, End, InProgress, Start
  <2>7. CASE accepted /\ git' = Proceed(Start, 0) /\ git'.place = "stopped"
    BY <1>0, <1>1, <2>1, <2>7 DEF StartRebase, Rest, Where, EnterRun, InProgress
  <2>8. CASE accepted /\ git' = Proceed(Start, 0) /\ git'.place = "rebased"
    BY <1>0, <1>1, <2>1, <2>8 DEF StartRebase, Rest, Where, EnterRun, InProgress
  <2>9. accepted => git' = Proceed(Start, 0)
    BY <1>1, <2>5 DEF StartRebase
  <2> QED BY <2>4, <2>6, <2>7, <2>8, <2>9
<1>2. ASSUME NEW marked \in BOOLEAN, ScanClean(marked) \/ Complete(marked) PROVE Rest' /\ Where'
  BY <1>0, <1>2 DEF ScanClean, Complete, Rest, Where, End, Escalate
<1>3. CASE ResolveStep
  <2>1. Units(git) \subseteq File
    BY DEF Units
  <2>2. ASSUME NEW staged, NEW written, git' = Files(staged, written) PROVE git'.place = git.place
    BY <2>2, FilesOf, <1>0
  <2>3. git'.place = git.place
    BY <1>3, <2>2 DEF ResolveStep, NothingToResolve, NoUnits, Resolves, ResolutionFails, ValidationFails
  <2>4. /\ pc = "resolve" /\ UNCHANGED <<setup, stuck, known, fresh, glitches, outcome>>
        /\ menu' \in SUBSET File
        /\ (pc' = "gate" /\ guarded' = guarded) \/ (pc' = "offer" /\ guarded' = FALSE)
    <3>1. CASE NothingToResolve \/ NoUnits
      BY <3>1 DEF NothingToResolve, NoUnits, Escalate
    <3>2. CASE Resolves
      BY <3>2, <2>1 DEF Resolves, Escalate
    <3>3. ASSUME NEW written \in SUBSET File, ResolutionFails(written)
          PROVE  pc = "resolve" /\ UNCHANGED <<setup, stuck, known, fresh, glitches, outcome>>
                 /\ menu' \in SUBSET File /\ pc' = "offer" /\ guarded' = FALSE
      BY <3>3, <2>1 DEF ResolutionFails, Escalate
    <3>4. ASSUME NEW staged \in SUBSET File, NEW passes \in BOOLEAN, ValidationFails(staged, passes)
          PROVE  /\ pc = "resolve" /\ UNCHANGED <<setup, stuck, known, fresh, glitches, outcome>>
                 /\ menu' \in SUBSET File
                 /\ (pc' = "gate" /\ guarded' = guarded) \/ (pc' = "offer" /\ guarded' = FALSE)
      BY <3>4, <2>1 DEF ValidationFails, Escalate
    <3> QED BY <1>3, <3>1, <3>2, <3>3, <3>4 DEF ResolveStep
  <2> QED BY <1>0, <2>3, <2>4 DEF Rest, Where
<1>4. ASSUME NEW passes \in BOOLEAN, Gate(passes) PROVE Rest' /\ Where'
  BY <1>0, <1>4 DEF Gate, Rest, Where, Escalate
<1>5. CASE ContinueStep
  <2>1. PICK a \in Answers(git) \cup {Refuses(git)}, unread \in BOOLEAN : Continue(a, unread)
    BY <1>5 DEF ContinueStep
  <2>2. pc = "continue" /\ (UNCHANGED glitches \/ Glitch)
    BY <1>5 DEF ContinueStep
  <2>3. glitches' \in 0..MaxGlitch
    BY <2>2, <1>0, RebaseAssumption DEF Rest, Glitch
  <2> QED BY <1>0, <2>1, <2>2, <2>3, ContinueTo DEF Rest, Where
<1>6. CASE OpenMenu \/ Bail \/ DontOffer
  <2>1. Units(git) \subseteq File
    BY DEF Units
  <2>2. CASE OpenMenu
    <3>1. menu' \subseteq File
      BY <1>0, <2>1, <2>2 DEF OpenMenu, Presented, Rest
    <3> QED BY <1>0, <2>2, <3>1 DEF OpenMenu, Offers, InProgress, Rest, Where
  <2>3. CASE Bail
    BY <1>0, <2>3 DEF Bail, Rest, Where
  <2>4. CASE DontOffer
    BY <1>0, <2>4 DEF DontOffer, Rest, Where
  <2> QED BY <1>6, <2>2, <2>3, <2>4
<1>7. CASE HumanDone
  <2>1. 0 \in 0..MaxStuck /\ 0 < MaxStuck
    BY DEF MaxStuck
  <2> QED BY <1>0, <1>7, <2>1 DEF HumanDone, EnterRun, Rest, Where
<1>8. CASE Settle \/ Interrupt \/ Die
  BY <1>0, <1>8 DEF Settle, Interrupt, Die, End, Rest, Where
<1>9. ASSUME NEW f \in File, NEW left \in FileState, HumanResolves(f, left) PROVE Rest' /\ Where'
  <2>1. git'.place = git.place
    BY <1>9, <1>0 DEF HumanResolves, Fits, GitState
  <2> QED BY <1>0, <1>9, <2>1 DEF HumanResolves, Rest, Where
<1>10. ASSUME NEW f \in File, NEW restored \in BOOLEAN, HumanSkips(f, restored) PROVE Rest' /\ Where'
  <2>1. git'.place = git.place
    BY <1>10, <1>0 DEF HumanSkips, Fits, GitState
  <2> QED BY <1>0, <1>10, <2>1 DEF HumanSkips, Rest, Where
<1>11. CASE HumanAborts
  BY <1>0, <1>11 DEF HumanAborts, Rest, Where
<1>12. CASE UNCHANGED vars
  BY <1>0, <1>12 DEF vars, Rest, Where
<1> QED BY <1>1, <1>2, <1>3, <1>4, <1>5, <1>6, <1>7, <1>8, <1>9, <1>10, <1>11, <1>12
        DEF Next, Step, HumanStep

LEMMA InvStep == Inv /\ [Next]_vars => Inv'
<1> SUFFICES ASSUME Inv, [Next]_vars PROVE Inv'
  OBVIOUS
<1>1. TypeOK' <=> (Fits(git) /\ Rest)'
  BY DEF TypeOK, Fits, Rest, Conflicts
<1> QED BY <1>1, GitStep, RestStep DEF Inv, Fits, InProgress

\* Every variable keeps its type, the picks after the current stop are
\* untouched, and the stuck-loop guard never counts past its limit.
THEOREM RebaseTypes == Spec => []TypeOK
<1>1. Inv => TypeOK
  BY DEF Inv
<1> QED BY InvInit, InvStep, <1>1, PTL DEF Spec

-----------------------------------------------------------------------------
(* No pick is lost but by a subject line that reads like git's words. *)

\* Git has printed the subject of a pick that misleads since it last stopped before p.
Misread(p) ==
  \E q \in mode.subjects : q <= p /\ \A r \in Pick : q < r /\ r < p => ~Conflicting(r)

Fates ==
  /\ Done(git)
  /\ \A p \in Pick : git.fate[p] = "lost" => Misread(p)
  /\ outcome = "completed" => git.place = "rebased"

LEMMA AnswersDone ==
  ASSUME TypeOK, InProgress(git), Done(git), NEW a \in Answers(git) \cup {Refuses(git)}
  PROVE  /\ Done(a.git)
         /\ \A p \in Pick : a.git.fate[p] \in {"applied", "empty", "marked", git.fate[p]}
         /\ InProgress(a.git) =>
              /\ a.git.pos \in Pick
              /\ \A q \in a.printed : \/ q = a.git.pos
                                      \/ /\ q = git.pos /\ a.git.pos > q
                                         /\ \A r \in Pick : q < r /\ r < a.git.pos => ~Conflicting(r)
<1>1. Fits(git) /\ Conflicts
  BY TypesAre DEF Rest
<1> DEFINE stubborn == [git EXCEPT !.refuses = TRUE]
<1>2. Done(stubborn) /\ stubborn.fate = git.fate /\ stubborn.pos = git.pos
  BY <1>1 DEF Fits, GitState, Done
<1>3. ASSUME NEW how \in {"applied", "empty", "marked"}, NEW printed \in SUBSET {git.pos},
             a = Replayed(git, how, printed)
      PROVE  /\ Done(a.git)
             /\ \A p \in Pick : a.git.fate[p] \in {"applied", "empty", "marked", git.fate[p]}
             /\ InProgress(a.git) =>
                  /\ a.git.pos \in Pick
                  /\ \A q \in a.printed : \/ q = a.git.pos
                                          \/ /\ q = git.pos /\ a.git.pos > q
                                             /\ \A r \in Pick : q < r /\ r < a.git.pos => ~Conflicting(r)
  <2>1. how \in Fate /\ how # "todo"
    BY DEF Fate
  <2>2. a.git = Leave(git, how)
    BY <1>3 DEF Replayed, Answer
  <2>3. a.printed \subseteq {git.pos, a.git.pos}
    BY <1>3 DEF Replayed, Answer
  <2>4. Fits(a.git) /\ Done(a.git) /\ (InProgress(a.git) => a.git.pos > git.pos)
    BY <1>1, <2>1, <2>2, LeaveFits DEF InProgress
  <2>5. InProgress(a.git) => \A r \in Pick : git.pos < r /\ r < a.git.pos => ~Conflicting(r)
    BY <1>1, <2>1, <2>2, LeaveFits DEF InProgress
  <2>6. \A p \in Pick : a.git.fate[p] \in {"applied", "empty", "marked", git.fate[p]}
    BY <1>1, <2>1, <2>2, LeaveFits
  <2> QED BY <2>3, <2>4, <2>5, <2>6 DEF Fits
<1> HIDE DEF stubborn
<1>4. \/ a.git \in {git, stubborn} /\ a.printed = {}
      \/ \E how \in {"applied", "empty", "marked"} :
            a = Replayed(git, how, {git.pos}) \/ a = Replayed(git, how, {})
  BY DEF Answers, Refuses, Answer, stubborn
<1>5. git.pos \in Pick
  BY <1>1 DEF Fits
<1>6. CASE a.git \in {git, stubborn} /\ a.printed = {}
  BY <1>2, <1>5, <1>6
<1> QED BY <1>3, <1>4, <1>6

LEMMA AfterDone ==
  ASSUME TypeOK, InProgress(git), Fates, NEW a \in Answers(git) \cup {Refuses(git)}
  PROVE  Done(After(a)) /\ \A p \in Pick : After(a).fate[p] = "lost" => Misread(p)
<1>1. Done(a.git) /\ \A p \in Pick : a.git.fate[p] = "lost" => Misread(p)
  BY AnswersDone DEF Fates
<1>2. Fits(a.git) /\ Conflicts /\ "empty" \in Fate /\ "lost" \in Fate
  BY AnswersFit, TypesAre DEF Rest, Fate
<1>3. CASE After(a) = a.git
  BY <1>1, <1>3
<1>4. CASE InProgress(a.git) /\ After(a) = Leave(a.git, "empty")
  BY <1>1, <1>2, <1>4, LeaveFits
<1>5. CASE InProgress(a.git) /\ After(a) = Leave(a.git, "lost") /\ ~a.empty /\ ReadsEmpty(a)
  <2>1. PICK q \in mode.subjects : q \in a.printed
    BY <1>5 DEF ReadsEmpty
  <2>2. Misread(a.git.pos)
    <3>1. a.git.pos \in Nat /\ a.git.pos \in Pick
      BY <1>5, AnswersDone, RebaseAssumption DEF Fates, Pick
    <3>2. CASE q = a.git.pos
      BY <3>1, <3>2, RebaseAssumption DEF Misread, Pick
    <3>3. CASE /\ q = git.pos /\ a.git.pos > q
               /\ \A r \in Pick : q < r /\ r < a.git.pos => ~Conflicting(r)
      <4>1. git.pos \in Nat
        BY TypesAre, RebaseAssumption DEF Fits, GitState
      <4>2. q <= a.git.pos
        BY <3>1, <3>3, <4>1
      <4> QED BY <3>3, <4>2 DEF Misread
    <3> QED BY <1>5, <2>1, <3>2, <3>3, AnswersDone DEF Fates
  <2> QED BY <1>1, <1>2, <1>5, <2>2, LeaveFits
<1> QED BY <1>3, <1>4, <1>5 DEF After, Skip

LEMMA FatesInit == Init => Fates
BY StartFits DEF Init, Fates, Start

LEMMA FatesStep ==
  ASSUME Inv, Fates, [Next]_vars
  PROVE  Fates'
<1>0. Fits(git) /\ Rest /\ Where /\ TypeOK
  BY TypesAre DEF Inv
<1>1. CASE ContinueStep
  <2>1. PICK a \in Answers(git) \cup {Refuses(git)}, unread \in BOOLEAN : Continue(a, unread)
    BY <1>1 DEF ContinueStep
  <2>2. pc = "continue" /\ InProgress(git) /\ outcome = "none"
    BY <1>0, <1>1 DEF ContinueStep, Where, InProgress, Rest
  <2>3. git' = After(a) /\ outcome' = outcome
    BY <2>1, <2>2, <1>0, ContinueTo
  <2>4. mode' = mode /\ conflicts' = conflicts
    BY <2>1, <2>2, <1>0, ContinueTo DEF setup
  <2> QED BY <2>2, <2>3, <2>4, <1>0, AfterDone DEF Fates, Done, Misread, Conflicting
<1>0a. ASSUME UNCHANGED setup PROVE \A p \in Pick : Misread(p) => Misread(p)'
  BY <1>0a DEF setup, Misread, Conflicting
<1>0b. UNCHANGED setup
  BY DEF Next, Step, HumanStep, StartRebase, ScanClean, Complete, ResolveStep, NothingToResolve,
         NoUnits, Resolves, ResolutionFails, ValidationFails, Gate, ContinueStep, Continue, OpenMenu,
         Bail, DontOffer, HumanDone, Settle, HumanResolves, HumanSkips, HumanAborts, Interrupt, Die,
         vars, setup
<1>2. ASSUME git'.fate = git.fate, git'.place = git.place, git'.pos = git.pos, outcome' = outcome
      PROVE  Fates'
  BY <1>0a, <1>0b, <1>2 DEF Fates, Done
<1>3. ASSUME NEW accepted \in BOOLEAN, StartRebase(accepted) PROVE Fates'
  <2>1. \A p \in Pick : (p > 0 => Start.fate[p] = "todo") /\ ~(p <= 0) /\ Start.fate[p] # "lost"
    BY RebaseAssumption DEF Start, Pick
  <2>2. Start \in GitState /\ 0 \in 0..Picks
    BY StartFits, RebaseAssumption DEF Fits
  <2>3. Done(Proceed(Start, 0)) /\ \A p \in Pick : Proceed(Start, 0).fate[p] # "lost"
    BY <2>1, <2>2, <1>0, ProceedFits DEF Rest
  <2>4. git = Start /\ outcome = "none" /\ outcome' \in {"none", "error"}
    BY <1>0, <1>3 DEF Where, Rest, StartRebase, End, EnterRun
  <2>5. git' = Start \/ git' = Proceed(Start, 0)
    BY <1>3, <2>4 DEF StartRebase
  <2> QED BY <2>1, <2>3, <2>4, <2>5, StartFits DEF Fates, Done
<1>4. CASE git' = Start /\ outcome' # "completed"
  BY <1>4, StartFits DEF Fates, Done, Start
<1>5. ASSUME NEW marked \in BOOLEAN, ScanClean(marked) \/ Complete(marked) PROVE Fates'
  <2>1. git.place = "rebased"
    BY <1>0, <1>5 DEF Where, ScanClean, Complete
  <2>2. git' = git \/ (git' = Start /\ outcome' # "completed")
    BY <1>5 DEF ScanClean, Complete, End
  <2> QED BY <1>0a, <1>0b, <1>4, <2>1, <2>2 DEF Fates, Done
<1>6. CASE ResolveStep
  <2>1. ASSUME NEW staged, NEW written, git' = Files(staged, written)
        PROVE  git'.fate = git.fate /\ git'.place = git.place /\ git'.pos = git.pos
    BY <2>1, <1>0 DEF Files, Fits, GitState
  <2>2. git' = git \/ \E staged, written \in SUBSET File : git' = Files(staged, written)
    <3>1. Units(git) \subseteq File
      BY DEF Units
    <3> QED BY <1>6, <3>1 DEF ResolveStep, NothingToResolve, NoUnits, Resolves, ResolutionFails, ValidationFails
  <2>3. outcome' = outcome
    BY <1>6 DEF ResolveStep, NothingToResolve, NoUnits, Resolves, ResolutionFails, ValidationFails
  <2> QED BY <1>2, <2>1, <2>2, <2>3
<1>7. ASSUME NEW f \in File, NEW left \in FileState, HumanResolves(f, left) PROVE Fates'
  BY <1>0, <1>7, <1>2 DEF HumanResolves, Fits, GitState
<1>8. ASSUME NEW f \in File, NEW restored \in BOOLEAN, HumanSkips(f, restored) PROVE Fates'
  BY <1>0, <1>8, <1>2 DEF HumanSkips, Fits, GitState
<1>9. CASE \/ \E passes \in BOOLEAN : Gate(passes)
           \/ OpenMenu \/ Bail \/ DontOffer \/ HumanDone \/ UNCHANGED vars
  BY <1>9, <1>2 DEF Gate, OpenMenu, Bail, DontOffer, HumanDone, vars
<1>10. CASE HumanAborts
  <2>1. outcome = "none" /\ outcome' = outcome
    BY <1>0, <1>10 DEF HumanAborts, Rest
  <2> QED BY <1>4, <1>10, <2>1 DEF HumanAborts
<1>11. CASE Settle \/ Interrupt \/ Die
  <2>1. (git' = Start \/ git' = git) /\ outcome' # "completed"
    BY <1>11 DEF Settle, Interrupt, Die, End
  <2> QED BY <1>0a, <1>0b, <1>4, <2>1 DEF Fates, Done
<1> QED BY <1>1, <1>3, <1>5, <1>6, <1>7, <1>8, <1>9, <1>10, <1>11 DEF Next, Step, HumanStep

\* A session that reports success has replayed every pick or dropped it, and what it
\* dropped while it still had changes was dropped for a subject line that git printed.
THEOREM NoPickIsLost == Spec => []NoPickLost
<1>1. Init => Inv /\ Fates
  BY InvInit, FatesInit
<1>2. Inv /\ Fates /\ [Next]_vars => (Inv /\ Fates)'
  BY InvStep, FatesStep
<1>3. Fates => NoPickLost
  BY DEF Fates, Done, NoPickLost, Misread
<1> QED BY <1>1, <1>2, <1>3, PTL DEF Spec

-----------------------------------------------------------------------------
(* Only a human who pasted some units of a file brings markers into a commit. *)

ByHand(p) == mode.interactive /\ \E f \in MultiUnit : conflicts[p][f] = "units"

\* What is touched at a stop had units, and so has all that is offered; markers are
\* left by hand, in a file of several units.
Marks(g) ==
  /\ \A f \in File :
       /\ g.file[f] \in {"raw", "written", "staged", "marked"} => conflicts[g.pos][f] = "units"
       /\ g.file[f] = "marked" => mode.interactive /\ f \in MultiUnit
  /\ \A p \in Pick : g.fate[p] = "marked" => ByHand(p)

Offered ==
  /\ InProgress(git) => \A f \in menu : conflicts[git.pos][f] = "units"
  /\ pc = "human" => mode.interactive

LEMMA FreshIsUnmarked ==
  ASSUME NEW g, Fresh(g), NEW f \in File
  PROVE  /\ g.file[f] # "marked"
         /\ g.file[f] \in {"raw", "written", "staged", "marked"} => conflicts[g.pos][f] = "units"
<1>1. g.file[f] \in {"none", "raw", "opaque"} /\ (g.file[f] = "raw" => conflicts[g.pos][f] = "units")
  BY DEF Fresh
<1> QED BY <1>1

LEMMA LeaveMarks ==
  ASSUME Conflicts, NEW g, Fits(g), InProgress(g), Marks(g), NEW how \in Fate,
         how = "marked" => ByHand(g.pos)
  PROVE  Marks(Leave(g, how))
<1>1. /\ Fresh(Leave(g, how))
      /\ \A p \in Pick : \/ Leave(g, how).fate[p] \in {"applied", g.fate[p]}
                         \/ p = g.pos /\ Leave(g, how).fate[p] = how
  BY LeaveFits
<1>2. \A p \in Pick : Leave(g, how).fate[p] = "marked" => ByHand(p)
  BY <1>1 DEF Marks
<1> QED BY <1>1, <1>2, FreshIsUnmarked DEF Marks

LEMMA AfterMarks ==
  ASSUME TypeOK, InProgress(git), Marks(git), NEW a \in Answers(git) \cup {Refuses(git)}
  PROVE  Marks(After(a))
<1>1. Fits(git) /\ Fits(a.git) /\ Conflicts
  BY AnswersFit, TypesAre DEF Rest
<1>2. Marks(a.git)
  <2> DEFINE stubborn == [git EXCEPT !.refuses = TRUE]
  <2>1. Marks(stubborn)
    BY <1>1 DEF Fits, GitState, Marks
  <2>2. ASSUME NEW how \in {"applied", "empty", "marked"}, NEW printed,
               how = "marked" => ByHand(git.pos)
        PROVE  Marks(Replayed(git, how, printed).git)
    <3>1. how \in Fate /\ Replayed(git, how, printed).git = Leave(git, how)
      BY DEF Fate, Replayed, Answer
    <3> QED BY <1>1, <2>2, <3>1, LeaveMarks
  <2> HIDE DEF stubborn
  <2>3. \/ a.git \in {git, stubborn}
        \/ \E how \in {"applied", "empty"} :
              a = Replayed(git, how, {git.pos}) \/ a = Replayed(git, how, {})
        \/ a = Replayed(git, "marked", {git.pos}) /\ \E f \in File : git.file[f] = "marked"
    BY DEF Answers, Refuses, Answer, stubborn
  <2>4. CASE a = Replayed(git, "marked", {git.pos}) /\ \E f \in File : git.file[f] = "marked"
    <3>1. ByHand(git.pos)
      BY <2>4 DEF Marks, ByHand
    <3> QED BY <2>2, <2>4, <3>1
  <2> QED BY <2>1, <2>2, <2>3, <2>4
<1>3. After(a) = a.git \/ (InProgress(a.git) /\ After(a) \in {Leave(a.git, "empty"), Leave(a.git, "lost")})
  BY DEF After, Skip
<1>4. "empty" \in Fate /\ "lost" \in Fate
  BY DEF Fate
<1> QED BY <1>1, <1>2, <1>3, <1>4, LeaveMarks

LEMMA StartMarks == Marks(Start)
BY DEF Marks, Start, NoFiles

LEMMA MarksStep ==
  ASSUME Inv, Marks(git), Offered, [Next]_vars
  PROVE  Marks(git)' /\ Offered'
<1>0. Fits(git) /\ Rest /\ Where /\ TypeOK
  BY TypesAre DEF Inv
<1>1. UNCHANGED setup
  BY DEF Next, Step, HumanStep, StartRebase, ScanClean, Complete, ResolveStep, NothingToResolve,
         NoUnits, Resolves, ResolutionFails, ValidationFails, Gate, ContinueStep, Continue, OpenMenu,
         Bail, DontOffer, HumanDone, Settle, HumanResolves, HumanSkips, HumanAborts, Interrupt, Die,
         vars, setup
<1>2. ASSUME NEW g, Marks(g), git' = g PROVE Marks(git)'
  BY <1>1, <1>2 DEF Marks, ByHand, setup
<1>3. CASE ContinueStep
  <2>1. PICK a \in Answers(git) \cup {Refuses(git)}, unread \in BOOLEAN : Continue(a, unread)
    BY <1>3 DEF ContinueStep
  <2>2. pc = "continue" /\ InProgress(git)
    BY <1>0, <1>3 DEF ContinueStep, Where, InProgress
  <2>3. git' = After(a) /\ pc' # "human"
    BY <2>1, <2>2, <1>0, ContinueTo
  <2>4. Marks(git)'
    BY <2>2, <2>3, <1>0, <1>2, AfterMarks
  <2>5. menu' = {} \/ (menu' = menu /\ (InProgress(git') => git'.pos = git.pos))
    <3>1. CASE pc' = "offer"
      <4>1. menu' = menu /\ Wedged(stuck')
        BY <2>1, <3>1 DEF Continue, Escalate
      <4>2. stuck' # 0
        BY <4>1 DEF Wedged, MaxStuck
      <4> QED BY <2>1, <2>3, <4>1, <4>2 DEF Continue, After, Progressed
    <3>2. CASE pc' # "offer"
      BY <2>1, <3>2 DEF Continue, Escalate
    <3> QED BY <3>1, <3>2
  <2>6. InProgress(git') => \A f \in menu' : conflicts[git'.pos][f] = "units"
    BY <2>2, <2>5 DEF Offered
  <2> QED BY <1>1, <2>3, <2>4, <2>6 DEF Offered, InProgress, setup
<1>4. ASSUME NEW accepted \in BOOLEAN, StartRebase(accepted) PROVE Marks(git)' /\ Offered'
  <2>1. \A p \in Pick : (p > 0 => Start.fate[p] = "todo") /\ Start.fate[p] = "todo"
    BY DEF Start
  <2>2. Start \in GitState /\ 0 \in 0..Picks
    BY StartFits, RebaseAssumption DEF Fits
  <2>3. /\ Fresh(Proceed(Start, 0))
        /\ \A p \in Pick : Proceed(Start, 0).fate[p] # "marked"
    BY <2>1, <2>2, <1>0, ProceedFits DEF Rest
  <2>4. Marks(Proceed(Start, 0))
    BY <2>3, FreshIsUnmarked DEF Marks
  <2>5. git = Start /\ menu' = menu /\ pc' # "human"
    BY <1>0, <1>4 DEF Where, StartRebase, End, EnterRun
  <2>6. git' = Start \/ git' = Proceed(Start, 0)
    BY <1>4, <2>5 DEF StartRebase
  <2>7. menu = {}
    BY <1>0, <1>4 DEF StartRebase, Where
  <2> QED BY <1>2, <2>4, <2>5, <2>6, <2>7, StartMarks DEF Offered
<1>5. ASSUME NEW staged \in SUBSET File, NEW written \in SUBSET File,
             git' = Files(staged, written), staged \subseteq Units(git), written \subseteq Units(git)
      PROVE  Marks(git)' /\ git'.pos = git.pos /\ git'.place = git.place
  <2>1. git'.fate = git.fate /\ git'.pos = git.pos /\ git'.place = git.place
    BY <1>5, <1>0 DEF Files, Fits, GitState
  <2>2. \A f \in File : git'.file[f] = IF f \in staged THEN "staged"
                                       ELSE IF f \in written THEN "written" ELSE git.file[f]
    BY <1>5, <1>0 DEF Files, Fits, GitState
  <2>3. \A f \in staged \cup written : f \in File /\ git.file[f] = "raw"
    BY <1>5 DEF Units
  <2>4. Marks(git')
    BY <2>1, <2>2, <2>3 DEF Marks
  <2> QED BY <1>2, <2>1, <2>4
<1>6. CASE ResolveStep
  <2>1. Units(git) \subseteq File /\ \A f \in Units(git) : conflicts[git.pos][f] = "units"
    BY DEF Units, Marks
  <2>2. menu' \in {{}, Units(git)} /\ pc' # "human"
    BY <1>6 DEF ResolveStep, NothingToResolve, NoUnits, Resolves, ResolutionFails, ValidationFails, Escalate
  <2>3. \/ git' = git
        \/ \E staged, written \in SUBSET File : /\ git' = Files(staged, written)
                                                /\ staged \subseteq Units(git) /\ written \subseteq Units(git)
    BY <1>6, <2>1 DEF ResolveStep, NothingToResolve, NoUnits, Resolves, ResolutionFails, ValidationFails
  <2>4. Marks(git)' /\ git'.pos = git.pos /\ git'.place = git.place
    BY <2>3, <1>5, <1>2
  <2> QED BY <1>1, <2>1, <2>2, <2>4 DEF Offered, InProgress, setup
<1>7. ASSUME NEW f \in File, NEW left \in FileState, HumanResolves(f, left)
      PROVE  Marks(git)' /\ Offered'
  <2>1. git.place = "stopped" /\ mode.interactive /\ conflicts[git.pos][f] = "units" /\ f \in menu
    BY <1>0, <1>7 DEF HumanResolves, Where, Offered, InProgress
  <2>2. left = "marked" => f \in MultiUnit
    BY <1>7 DEF HumanResolves, Left
  <2>3. git' = [git EXCEPT !.file[f] = left] /\ menu' \subseteq menu /\ pc' = pc
    BY <1>7 DEF HumanResolves
  <2>4. Marks(git') /\ git'.pos = git.pos /\ git'.place = git.place
    BY <2>1, <2>2, <2>3, <1>0 DEF Fits, GitState, Marks
  <2>5. Marks(git)'
    BY <1>2, <2>4
  <2> QED BY <1>1, <2>1, <2>3, <2>4, <2>5 DEF Offered, InProgress, setup
<1>8. ASSUME NEW f \in File, NEW restored \in BOOLEAN, HumanSkips(f, restored)
      PROVE  Marks(git)' /\ Offered'
  <2>1. git' = git \/ (git' = [git EXCEPT !.file[f] = "raw"] /\ git.file[f] = "written")
    BY <1>8 DEF HumanSkips
  <2>2. menu' \subseteq menu /\ pc' = pc
    BY <1>8 DEF HumanSkips
  <2>3. Marks(git') /\ git'.pos = git.pos /\ git'.place = git.place
    BY <2>1, <1>0 DEF Fits, GitState, Marks
  <2>4. Marks(git)'
    BY <1>2, <2>3
  <2> QED BY <1>1, <2>2, <2>3, <2>4 DEF Offered, InProgress, setup
<1>9. CASE OpenMenu
  <2>1. menu' \subseteq menu \cup Units(git) /\ git' = git /\ mode.interactive /\ InProgress(git)
    BY <1>9 DEF OpenMenu, Presented, Offers
  <2>2. \A f \in Units(git) : conflicts[git.pos][f] = "units"
    BY DEF Units, Marks
  <2> QED BY <1>1, <1>2, <2>1, <2>2 DEF Offered, setup
<1>10. ASSUME git' = git \/ git' = Start, menu' \subseteq menu, pc' # "human" PROVE Marks(git)' /\ Offered'
  <2>1. Marks(git)'
    BY <1>2, <1>10, StartMarks
  <2>2. InProgress(git') => git' = git
    BY <1>10 DEF InProgress, Start
  <2> QED BY <1>1, <1>10, <2>1, <2>2 DEF Offered, setup
<1>11. CASE \/ \E marked \in BOOLEAN : ScanClean(marked) \/ Complete(marked)
            \/ \E passes \in BOOLEAN : Gate(passes)
            \/ Bail \/ DontOffer \/ HumanDone \/ Settle
            \/ HumanAborts \/ Interrupt \/ Die
  <2>1. (git' = git \/ git' = Start) /\ menu' \subseteq menu /\ pc' # "human"
    BY <1>0, <1>11 DEF ScanClean, Complete, Gate, Bail, DontOffer, HumanDone, Settle, HumanAborts,
                       Interrupt, Die, End, Escalate, EnterRun
  <2> QED BY <2>1, <1>10
<1>12. CASE UNCHANGED vars
  BY <1>1, <1>2, <1>12 DEF vars, Offered, setup
<1> QED BY <1>3, <1>4, <1>6, <1>7, <1>8, <1>9, <1>11, <1>12 DEF Next, Step, HumanStep

\* A pick committed with markers had a file of several units, and a human was asked
\* about it; capybase on its own commits none.
THEOREM MarkersComeByHand == Spec => []MarkersOnlyByHand
<1> DEFINE Marked == Inv /\ Marks(git) /\ Offered
<1>1. Init => Marked
  BY InvInit, StartMarks DEF Init, Offered
<1>2. Marked /\ [Next]_vars => Marked'
  BY InvStep, MarksStep
<1>3. Marked => MarkersOnlyByHand
  BY DEF Marks, ByHand, MarkersOnlyByHand
<1> QED BY <1>1, <1>2, <1>3, PTL DEF Spec

-----------------------------------------------------------------------------
(* Where a session ends. *)

\* The guard counts what failed for a passing reason; what lasts keeps git from
\* finishing: a refusal, and files that are left unmerged, which end the step.
Patient ==
  /\ pc \in {"gate", "continue"} => Units(git) = {} /\ (stuck <= glitches \/ git.refuses)
  /\ pc = "resolve" => \/ stuck <= glitches \/ git.refuses
                       \/ Units(git) = {} /\ Unmerged(git) # {}
  /\ pc \in {"offer", "settle"} => git.place # "rebased" \/ TooLate

Claimed == Patient /\ EndedWhereClaimed

LEMMA AfterPatient ==
  ASSUME Inv, Patient, NEW unread \in BOOLEAN,
         NEW a \in Answers(git) \cup {Refuses(git)}, pc = "continue", Continue(a, unread),
         \/ UNCHANGED glitches /\ a \in Answers(git)
         \/ Glitch
  PROVE  Patient'
<1>0. Fits(git) /\ Rest /\ Where /\ TypeOK /\ InProgress(git) /\ git.place = "stopped" /\ Conflicts
  BY TypesAre DEF Inv, Where, InProgress, Rest
<1>1. /\ git' = After(a) /\ stuck' \in {0, stuck + 1}
      /\ pc' \in {"offer", "resolve", "completion"}
  BY <1>0, ContinueTo
<1>2. stuck \in Nat /\ glitches \in Nat /\ glitches' \in Nat /\ glitches' >= glitches
  BY <1>0, RebaseAssumption DEF Rest, Glitch, MaxStuck
<1>3. CASE git.refuses \/ Unmerged(git) # {}
  <2>1. a = Refuses(git)
    BY <1>3 DEF Answers
  <2>2. git' = git
    BY <1>1, <2>1, <1>0 DEF After, Refuses, Answer, ReadsEmpty
  <2> QED BY <1>0, <1>1, <1>3, <2>2 DEF Patient, Units, Unmerged
<1>4. CASE ~git.refuses /\ Unmerged(git) = {}
  <2>1. stuck <= glitches
    BY <1>4 DEF Patient
  <2>3. CASE pc' = "offer"
    <3>1. Wedged(stuck')
      BY <2>3 DEF Continue, Escalate
    <3>2. glitches' >= 2
      BY <1>1, <1>2, <2>1, <3>1 DEF Wedged, MaxStuck
    <3>3. git'.place # "rebased" \/ TooLate'
      BY <3>2 DEF TooLate
    <3> QED BY <2>3, <3>3 DEF Patient
  <2>4. CASE pc' = "resolve"
    <3>1. git'.place = "stopped" /\ InProgress(git')
      BY <1>0, <2>4, ContinueTo DEF InProgress
    <3>2. CASE stuck' = 0
      BY <1>2, <2>4, <3>2 DEF Patient
    <3>3. CASE stuck' = stuck + 1
      <4>1. stuck' # 0
        BY <1>2, <3>3
      <4>2. ~Progressed(git, git')
        BY <1>1, <4>1 DEF Continue, After
      <4>3. git'.pos = git.pos
        BY <3>1, <4>2 DEF Progressed
      <4>4. \A g : Fits(g) => g.pos \in Nat
        BY RebaseAssumption DEF Fits, GitState
      <4>5. ASSUME NEW g, Fits(g), InProgress(g), g.pos >= git.pos, NEW how \in Fate, git' = Leave(g, how)
            PROVE  FALSE
        <5>1. git'.pos > g.pos
          BY <4>5, <1>0, <3>1, LeaveFits
        <5>2. g.pos \in Nat /\ git.pos \in Nat /\ git'.pos \in Nat
          BY <4>3, <4>4, <4>5, <1>0
        <5> QED BY <4>3, <4>5, <5>1, <5>2
      <4>6. CASE a = Refuses(git)
        <5>1. git' = git
          BY <1>0, <1>1, <4>6 DEF After, Refuses, Answer, ReadsEmpty
        <5>2. CASE Glitch
          <6>1. stuck' <= glitches'
            BY <1>2, <2>1, <3>3, <5>2 DEF Glitch
          <6> QED BY <2>4, <6>1 DEF Patient
        <5>3. CASE a \in Answers(git)
          <6> DEFINE stubborn == [git EXCEPT !.refuses = TRUE]
          <6>1. stubborn.refuses /\ ~git.refuses
            BY <1>0, <1>4 DEF Fits, GitState
          <6>2. a.git = git /\ ~a.empty /\ a.printed = {} /\ ~a.ok
            BY <4>6 DEF Refuses, Answer
          <6>3. ASSUME NEW how \in {"applied", "empty", "marked"}, NEW printed, a = Replayed(git, how, printed)
                PROVE  FALSE
            <7>1. a.git = Leave(git, how) /\ how \in Fate
              BY <6>3 DEF Replayed, Answer, Fate
            <7>2. git.pos >= git.pos
              BY <4>4, <1>0
            <7> QED BY <5>1, <6>2, <7>1, <7>2, <4>5, <1>0
          <6> HIDE DEF stubborn
          <6>4. a # Refuses(stubborn) /\ a # Answer(git, FALSE, TRUE, {})
            BY <6>1, <6>2 DEF Refuses, Answer
          <6>5. \/ a = Refuses(stubborn) \/ a = Answer(git, FALSE, TRUE, {})
                \/ \E how \in {"applied", "empty", "marked"} :
                      a = Replayed(git, how, {git.pos}) \/ a = Replayed(git, how, {})
            BY <5>3, <1>4 DEF Answers, stubborn
          <6> QED BY <6>3, <6>4, <6>5
        <5> QED BY <5>2, <5>3
      <4>7. CASE a \in Answers(git) /\ a # Refuses(git)
        <5> DEFINE stubborn == [git EXCEPT !.refuses = TRUE]
        <5>1. git.pos >= git.pos
          BY <4>4, <1>0
        <5>2. CASE a = Refuses(stubborn)
          <6>1. stubborn.refuses
            BY <1>0 DEF Fits, GitState
          <6> HIDE DEF stubborn
          <6>2. git' = stubborn
            BY <1>1, <5>2 DEF After, Refuses, Answer, ReadsEmpty
          <6> QED BY <2>4, <6>1, <6>2 DEF Patient
        <5>3. CASE a = Answer(git, FALSE, TRUE, {})
          <6>1. git' = Leave(git, "empty") /\ "empty" \in Fate
            BY <1>0, <1>1, <5>3 DEF After, Answer, ReadsEmpty, Skip, Fate
          <6> QED BY <4>5, <5>1, <6>1, <1>0
        <5>4. ASSUME NEW how \in {"applied", "empty", "marked"}, NEW printed, a = Replayed(git, how, printed)
              PROVE  FALSE
          <6>1. a.git = Leave(git, how) /\ how \in Fate
            BY <5>4 DEF Replayed, Answer, Fate
          <6>2. CASE git' = a.git
            BY <6>1, <6>2, <5>1, <4>5, <1>0
          <6>3. CASE InProgress(a.git) /\ \E h \in Fate : git' = Leave(a.git, h)
            <7>1. a.git.pos > git.pos /\ Fits(a.git)
              BY <6>1, <6>3, <1>0, LeaveFits DEF InProgress
            <7>2. a.git.pos >= git.pos
              BY <7>1, <4>4, <1>0
            <7> QED BY <4>5, <6>3, <7>1, <7>2
          <6> QED BY <1>1, <6>2, <6>3 DEF After, Skip, Fate
        <5> HIDE DEF stubborn
        <5>5. \/ a = Refuses(stubborn) \/ a = Answer(git, FALSE, TRUE, {})
              \/ \E how \in {"applied", "empty", "marked"} :
                    a = Replayed(git, how, {git.pos}) \/ a = Replayed(git, how, {})
          BY <4>7, <1>4 DEF Answers, stubborn
        <5> QED BY <5>2, <5>3, <5>4, <5>5
      <4> QED BY <4>6, <4>7
    <3> QED BY <1>1, <3>2, <3>3
  <2>5. CASE pc' = "completion"
    BY <2>5 DEF Patient
  <2> QED BY <1>1, <2>3, <2>4, <2>5
<1> QED BY <1>3, <1>4

LEMMA ClaimedStep ==
  ASSUME Inv, Claimed, [Next]_vars
  PROVE  Claimed'
<1>0. /\ Fits(git) /\ Rest /\ Where /\ TypeOK /\ Patient
      /\ outcome = "escalated" => pc = "ended"
      /\ glitches >= 0
  <2>1. Fits(git) /\ Rest /\ Where /\ TypeOK /\ Patient
    BY TypesAre DEF Inv, Claimed
  <2>3. glitches >= 0
    BY <2>1, RebaseAssumption DEF Rest
  <2> QED BY <2>1, <2>3 DEF Rest
<1>1. ASSUME Patient', outcome' = outcome, pc # "ended" PROVE Claimed'
  BY <1>0, <1>1 DEF Rest, Claimed, EndedWhereClaimed
<1>2. CASE ContinueStep
  <2>1. PICK a \in Answers(git) \cup {Refuses(git)}, unread \in BOOLEAN :
               Continue(a, unread) /\ ((UNCHANGED glitches /\ a \in Answers(git)) \/ Glitch)
    BY <1>2 DEF ContinueStep
  <2>2. pc = "continue" /\ outcome' = outcome
    BY <1>2, <2>1 DEF ContinueStep, Continue
  <2>3. Patient'
    BY <1>0, <2>1, <2>2, AfterPatient
  <2> QED BY <1>1, <2>2, <2>3
<1>3. ASSUME NEW accepted \in BOOLEAN, StartRebase(accepted) PROVE Claimed'
  <2>1. pc = "start" /\ outcome = "none" /\ git = Start
    BY <1>0, <1>3 DEF StartRebase, Where, Rest
  <2>2. CASE ~accepted
    BY <1>3, <2>1, <2>2 DEF StartRebase, End, Claimed, Patient, EndedWhereClaimed, InProgress, Start
  <2>3. CASE accepted
    <3>1. UNCHANGED <<outcome, glitches>> /\ (pc' = "scan" \/ (pc' = "resolve" /\ stuck' = 0))
      BY <1>3, <2>3 DEF StartRebase, EnterRun
    <3>2. Patient'
      BY <3>1, <1>0 DEF Patient
    <3> QED BY <1>1, <2>1, <3>1, <3>2
  <2> QED BY <2>2, <2>3
<1>4. ASSUME NEW marked \in BOOLEAN, ScanClean(marked) \/ Complete(marked) PROVE Claimed'
  <2>1. CASE ScanClean(marked)
    BY <1>0, <2>1 DEF ScanClean, End, Claimed, Patient, EndedWhereClaimed, Where, Start
  <2>2. CASE Complete(marked) /\ marked /\ mode.policy = "stop"
    <3>1. pc' = "offer" /\ pc = "completion" /\ UNCHANGED <<outcome, git>> /\ git.place = "rebased"
          /\ mode' = mode
      BY <1>0, <2>2 DEF Complete, Escalate, Where, setup
    <3>2. TooLate'
      BY <2>2, <3>1 DEF TooLate
    <3> QED BY <1>1, <3>1, <3>2 DEF Patient
  <2>3. CASE Complete(marked) /\ ~(marked /\ mode.policy = "stop")
    BY <1>0, <2>3 DEF Complete, End, Claimed, Patient, EndedWhereClaimed, Where
  <2> QED BY <1>4, <2>1, <2>2, <2>3
<1>5. CASE ResolveStep
  <2>1. Units(git) \subseteq File /\ pc = "resolve" /\ git.place = "stopped"
        /\ UNCHANGED <<stuck, glitches, outcome>>
    BY <1>0, <1>5 DEF Units, Where, ResolveStep, NothingToResolve, NoUnits, Resolves, ResolutionFails,
                      ValidationFails
  <2>2. git'.place = git.place /\ git'.refuses = git.refuses
    <3>1. ASSUME NEW staged, NEW written, git' = Files(staged, written)
          PROVE  git'.place = git.place /\ git'.refuses = git.refuses
      BY <3>1, <1>0 DEF Files, Fits, GitState
    <3>2. git' = git \/ \E staged, written \in SUBSET File : git' = Files(staged, written)
      BY <1>5, <2>1 DEF ResolveStep, NothingToResolve, NoUnits, Resolves, ResolutionFails, ValidationFails
    <3> QED BY <3>1, <3>2
  <2>3. CASE pc' = "offer"
    BY <1>1, <2>1, <2>2, <2>3 DEF Patient
  <2>4. CASE pc' = "gate"
    <3>1. Unmerged(git) = {} \/ Units(git) # {}
      BY <1>5, <2>4 DEF ResolveStep, NothingToResolve, NoUnits, Resolves, ResolutionFails,
                        ValidationFails, Escalate
    <3>2. stuck <= glitches \/ git.refuses
      BY <3>1, <2>1, <1>0 DEF Patient
    <3>3. Units(git') = {}
      <4>1. CASE NothingToResolve
        BY <4>1 DEF NothingToResolve, Units, Unmerged
      <4>2. ASSUME NEW staged \in SUBSET File, NEW written \in SUBSET File,
                   git' = Files(staged, written), Units(git) \subseteq staged \cup written
            PROVE  Units(git') = {}
        <5>1. \A f \in File : git'.file[f] = IF f \in staged THEN "staged"
                                            ELSE IF f \in written THEN "written" ELSE git.file[f]
          BY <4>2, <1>0 DEF Files, Fits, GitState
        <5> QED BY <4>2, <5>1 DEF Units
      <4>3. CASE Resolves
        BY <2>1, <4>2, <4>3 DEF Resolves
      <4>4. ASSUME NEW staged \in SUBSET File, NEW passes \in BOOLEAN, ValidationFails(staged, passes)
            PROVE  Units(git') = {}
        BY <2>1, <4>2, <4>4 DEF ValidationFails
      <4> QED BY <1>5, <2>4, <4>1, <4>3, <4>4 DEF ResolveStep, NoUnits, ResolutionFails, Escalate
    <3>4. Patient'
      BY <2>1, <2>2, <2>4, <3>2, <3>3 DEF Patient
    <3> QED BY <1>1, <2>1, <3>4
  <2>5. pc' \in {"offer", "gate"}
    BY <1>5 DEF ResolveStep, NothingToResolve, NoUnits, Resolves, ResolutionFails,
                ValidationFails, Escalate
  <2> QED BY <2>3, <2>4, <2>5
<1>6. ASSUME NEW passes \in BOOLEAN, Gate(passes) PROVE Claimed'
  <2>1. Patient'
    BY <1>0, <1>6 DEF Gate, Escalate, Patient, Where
  <2> QED BY <1>1, <1>6, <2>1 DEF Gate
<1>7. CASE OpenMenu \/ Bail \/ DontOffer
  <2>1. Patient'
    BY <1>0, <1>7 DEF OpenMenu, Bail, DontOffer, Patient, TooLate, setup
  <2> QED BY <1>1, <1>7, <2>1 DEF OpenMenu, Bail, DontOffer
<1>8. CASE HumanDone
  <2>1. Patient'
    BY <1>0, <1>8 DEF HumanDone, EnterRun, Patient, Where
  <2> QED BY <1>1, <1>8, <2>1 DEF HumanDone
<1>9. CASE Settle
  BY <1>0, <1>9 DEF Settle, TooLate, End, Claimed, Patient, EndedWhereClaimed, Aborts, InProgress, Start, setup,
                    Fits, GitState
<1>10. CASE Interrupt
  BY <1>0, <1>10 DEF Interrupt, End, Claimed, Patient, EndedWhereClaimed, InProgress, Start
<1>11. CASE Die
  BY <1>11 DEF Die, End, Claimed, Patient, EndedWhereClaimed
<1>12. CASE HumanAborts
  <2>1. Patient'
    BY <1>12 DEF HumanAborts, Patient, Start
  <2> QED BY <1>1, <1>12, <2>1 DEF HumanAborts
<1>13. CASE (\E f \in File, left \in FileState : HumanResolves(f, left))
            \/ (\E f \in File, restored \in BOOLEAN : HumanSkips(f, restored))
  <2>1. pc = "human" /\ pc' = pc /\ outcome' = outcome
    BY <1>13 DEF HumanResolves, HumanSkips
  <2> QED BY <1>1, <2>1 DEF Patient
<1>14. CASE UNCHANGED vars
  BY <1>14 DEF vars, setup, Claimed, Patient, TooLate, EndedWhereClaimed, Units, Unmerged, InProgress
<1> QED BY <1>2, <1>3, <1>4, <1>5, <1>6, <1>7, <1>8, <1>9, <1>10, <1>11, <1>12, <1>13, <1>14
        DEF Next, Step, HumanStep

\* A session that did not succeed leaves the branch where it says; an escalation comes
\* too late only under the policy "stop", or after two failures for a passing reason.
THEOREM EndsWhereClaimed == Spec => []EndedWhereClaimed
<1>1. Init => Inv /\ Claimed
  BY InvInit DEF Init, Claimed, Patient, EndedWhereClaimed
<1>2. Inv /\ Claimed /\ [Next]_vars => (Inv /\ Claimed)'
  BY InvStep, ClaimedStep
<1>3. Claimed => EndedWhereClaimed
  BY DEF Claimed
<1> QED BY <1>1, <1>2, <1>3, PTL DEF Spec

-----------------------------------------------------------------------------
(* Clean beside runs.  That a live lock stands for a run is not inductive:  *)
(* that a lock never matches a later process with the same id rests on      *)
(* start times being handed out once, and on a lock being written only by a *)
(* process that is on its way to run in the directory the lock names.  Then *)
(* who runs where no lock was missed owns the lock; what is under way was   *)
(* seen beside clean, or is not among what clean removes; and what clean    *)
(* did not take stock of is recent.                                         *)

-----------------------------------------------------------------------------
(* The run lock. *)

\* No start time is in the future.
BornBefore ==
    /\ \A p \in Process : born[p] <= births
    /\ \A d \in Dir : lock[d] # NoLock => lock[d].born <= births

\* A lock whose writer is still alive, in whatever directory a copy of it is.
WriterRuns ==
    \A d \in Dir :
        lock[d] # NoLock /\ Alive(lock[d].pid) /\ born[lock[d].pid] = lock[d].born
            => state[lock[d].pid] = "running" /\ cwd[lock[d].pid] = lock[d].dir

LockInv == LockTypeOK /\ BornBefore /\ WriterRuns

LEMMA NoLockIsNoRecord == NoLock \notin Record
  BY DEF NoLock, Record

\* The invariant holds at the start.
LEMMA LockInvInit == LockInit => LockInv
  BY LockAssumption
  DEF LockInit, LockInv, LockTypeOK, BornBefore, WriterRuns, Alive, Born

\* ... and after every step of the lock: one step per action.
LEMMA LockInvStep == LockInv /\ [LockNext]_lockVars => LockInv'
<1> SUFFICES ASSUME LockInv, [LockNext]_lockVars PROVE LockInv'
  OBVIOUS
<1> USE LockAssumption, NoLockIsNoRecord
<1>1. ASSUME NEW p \in Process, NEW d \in Dir, Launch(p, d) PROVE LockInv'
  <2>1. LockTypeOK'
    BY <1>1 DEF LockInv, LockTypeOK, Launch, Alive, Born
  <2>2. BornBefore'
    BY <1>1 DEF LockInv, LockTypeOK, BornBefore, Launch, Born, Record
  <2>3. WriterRuns'
    <3> SUFFICES ASSUME NEW e \in Dir, lock[e] # NoLock,
                        Alive(lock[e].pid)', born'[lock[e].pid] = lock[e].born
                 PROVE  state'[lock[e].pid] = "running" /\ cwd'[lock[e].pid] = lock[e].dir
      BY <1>1 DEF WriterRuns, Launch
    <3>1. lock[e] \in Record
      BY DEF LockInv, LockTypeOK
    <3>2. lock[e].pid # p
      BY <1>1, <3>1 DEF LockInv, LockTypeOK, BornBefore, Launch, Record, Born
    <3> QED BY <1>1, <3>1, <3>2 DEF LockInv, LockTypeOK, WriterRuns, Launch, Alive, Record
  <2> QED BY <2>1, <2>2, <2>3 DEF LockInv
<1>2. ASSUME NEW p \in Process, Refuse(p) \/ Check(p) \/ Crash(p) PROVE LockInv'
  <2>1. LockTypeOK'
    BY <1>2 DEF LockInv, LockTypeOK, Refuse, Check, Crash, Alive
  <2>2. BornBefore'
    BY <1>2 DEF LockInv, LockTypeOK, BornBefore, Refuse, Check, Crash
  <2>3. WriterRuns'
    BY <1>2 DEF LockInv, LockTypeOK, WriterRuns, Refuse, Check, Crash, Alive, Record
  <2> QED BY <2>1, <2>2, <2>3 DEF LockInv
<1>3. ASSUME NEW p \in Process, NEW written \in BOOLEAN, Enter(p, written) PROVE LockInv'
  <2>1. LockTypeOK'
    BY <1>3 DEF LockInv, LockTypeOK, Enter, Alive, Record, Born
  <2>2. BornBefore'
    BY <1>3 DEF LockInv, LockTypeOK, BornBefore, Enter, Record, Born
  <2>3. WriterRuns'
    BY <1>3 DEF LockInv, LockTypeOK, WriterRuns, Enter, Alive, Record, Born
  <2> QED BY <2>1, <2>2, <2>3 DEF LockInv
<1>4. ASSUME NEW p \in Process, Exit(p) PROVE LockInv'
  <2>1. LockTypeOK'
    BY <1>4 DEF LockInv, LockTypeOK, Exit, Alive
  <2>2. BornBefore'
    BY <1>4 DEF LockInv, LockTypeOK, BornBefore, Exit
  <2>3. WriterRuns'
    BY <1>4 DEF LockInv, LockTypeOK, WriterRuns, Exit, Alive, Record
  <2> QED BY <2>1, <2>2, <2>3 DEF LockInv
<1>5. ASSUME NEW d \in Dir, NEW e \in Dir, CopyDirectory(d, e) PROVE LockInv'
  <2>1. LockTypeOK'
    BY <1>5 DEF LockInv, LockTypeOK, CopyDirectory, Alive
  <2>2. BornBefore'
    BY <1>5 DEF LockInv, LockTypeOK, BornBefore, CopyDirectory
  <2>3. WriterRuns'
    BY <1>5 DEF LockInv, LockTypeOK, WriterRuns, CopyDirectory, Alive, Record
  <2> QED BY <2>1, <2>2, <2>3 DEF LockInv
<1>6. CASE UNCHANGED lockVars
  BY <1>6 DEF LockInv, LockTypeOK, BornBefore, WriterRuns, Alive, lockVars
<1> QED
  BY <1>1, <1>2, <1>3, <1>4, <1>5, <1>6 DEF LockNext, LockStep

LEMMA LockInvImplies == LockInv => LiveMeansRunning
  BY DEF LockInv, WriterRuns, LiveMeansRunning, Live

\* For any number of processes, process ids and directories: a lock that reads
\* as live stands for a run under way in the directory it is found in.
THEOREM LiveLockIsARun == LockSpec => [](LockTypeOK /\ LiveMeansRunning)
<1>1. LockSpec => []LockInv
  BY LockInvInit, LockInvStep, PTL DEF LockSpec
<1>2. LockInv => LockTypeOK /\ LiveMeansRunning
  BY LockInvImplies DEF LockInv
<1> QED BY <1>1, <1>2, PTL

-----------------------------------------------------------------------------
(* Clean and the lock. *)

\* The steps of the lock in clean's terms; clean itself only removes a lock.
Unlock == lock' = [lock EXCEPT ![Repo] = NoLock] /\ UNCHANGED <<state, born, cwd, births>>

LEMMA LockOfStep == [CleanNext]_repoVars => [LockNext]_lockVars \/ Unlock
<1> SUFFICES ASSUME [CleanNext]_repoVars PROVE [LockNext]_lockVars \/ Unlock
  OBVIOUS
<1>1. ASSUME NEW p \in Process, RunStep(p) PROVE [LockNext]_lockVars
  BY <1>1 DEF RunStep, LaunchRun, LockRun, Prepare, BeginRebase, Attach, Progress, Close, EndWithoutRebase,
              CrashRun, LockNext, LockStep
<1>2. CASE CleanStep
  BY <1>2 DEF CleanStep, StartClean, CheckOperation, Inventory, RemoveBranches, RemoveRefs,
              RemoveState, EndClean, Unlock, lockVars
<1>3. CASE UserRebases \/ UserSettles \/ Tick \/ UNCHANGED repoVars
  BY <1>3 DEF UserRebases, UserSettles, Tick, repoVars, lockVars
<1>4. ASSUME NEW d \in Dir, NEW e \in Dir, CopyRepository(d, e) PROVE [LockNext]_lockVars
  BY <1>4 DEF CopyRepository, LockNext
<1> QED BY <1>1, <1>2, <1>3, <1>4 DEF CleanNext, RepoStep

LEMMA CleanLockInv == LockInv /\ [CleanNext]_repoVars => LockInv'
<1> SUFFICES ASSUME LockInv, Unlock PROVE LockInv'
  BY LockOfStep, LockInvStep
<1>1. LockTypeOK'
  BY DEF LockInv, LockTypeOK, Unlock, Alive
<1>2. BornBefore'
  BY DEF LockInv, LockTypeOK, BornBefore, Unlock
<1>3. WriterRuns'
  BY DEF LockInv, LockTypeOK, WriterRuns, Unlock, Alive
<1> QED BY <1>1, <1>2, <1>3 DEF LockInv

-----------------------------------------------------------------------------
(* The types. *)

TypeInv == LockInv /\ CleanTypeOK

LEMMA TypeInvInit == CleanInit => TypeInv
<1> SUFFICES ASSUME CleanInit PROVE TypeInv
  OBVIOUS
<1>1. LockInv
  BY LockInvInit DEF CleanInit
<1>2. CleanTypeOK
  BY <1>1, CleanAssumption DEF CleanInit, CleanTypeOK, LockInv, Time, Nothing, Session
<1> QED BY <1>1, <1>2 DEF TypeInv

\* The variables of the program; the history comes after.
RepoTypes ==
    /\ journal \in [Session -> Entry \union {NoJournal}]
    /\ startRefs \subseteq Session /\ backups \subseteq Session
    /\ rebase \in Rebase \union {NoRebase}
    /\ at \in [Process -> {"outset", "prepared", "works"}]
    /\ clock \in Time
    /\ cleaning \in {"no", "operation", "inventory", "branches", "refs", "state", "done"}
    /\ found \in [refs: SUBSET Session, branches: SUBSET Session]

LEMMA RepoTypesStep ==
  ASSUME TypeInv, RepoStep \/ UNCHANGED repoVars
  PROVE  RepoTypes'
<1>0. LockTypeOK /\ RepoTypes
  BY DEF TypeInv, LockInv, CleanTypeOK, RepoTypes
<1> USE CleanAssumption
<1>1. ASSUME NEW p \in Process, Running(p), NEW closed \in BOOLEAN
      PROVE  born[p] \in Session /\ Journal(p, closed) \in [Session -> Entry \union {NoJournal}]
  <2>1. born[p] \in Session
    BY <1>0, <1>1 DEF Running, LockTypeOK, Alive, Session
  <2>2. [closed |-> closed, at |-> clock] \in Entry
    BY <1>0, <1>1 DEF RepoTypes, Entry
  <2> QED BY <1>0, <2>1, <2>2 DEF RepoTypes, Journal
<1>2. ASSUME NEW p \in Process, RunStep(p) PROVE RepoTypes'
  <2>1. CASE (\E d \in Dir : LaunchRun(p, d)) \/ (\E w \in BOOLEAN : LockRun(p, w)) \/ CrashRun(p)
    BY <1>0, <2>1 DEF LaunchRun, LockRun, CrashRun, Forget, RepoTypes, sessions, cleanVars
  <2>2. CASE EndWithoutRebase(p)
    BY <1>0, <1>1, <2>2 DEF EndWithoutRebase, Forget, RepoTypes, cleanVars
  <2>3. CASE Prepare(p)
    BY <1>0, <1>1, <2>3 DEF Prepare, RepoTypes, cleanVars
  <2>4. CASE BeginRebase(p)
    BY <1>0, <1>1, <2>4 DEF BeginRebase, RepoTypes, Rebase, cleanVars
  <2>5. CASE Attach(p)
    BY <1>0, <1>1, <2>5 DEF Attach, RepoTypes, cleanVars
  <2>6. CASE Progress(p)
    <3>1. rebase' \in Rebase
      BY <1>0, <2>6 DEF Progress, RepoTypes, Rebase
    <3> QED BY <1>0, <1>1, <2>6, <3>1 DEF Progress, Works, RepoTypes, cleanVars
  <2>7. ASSUME NEW completed \in BOOLEAN, NEW leaves \in BOOLEAN, Close(p, completed, leaves)
        PROVE  RepoTypes'
    BY <1>0, <1>1, <2>7 DEF Close, Works, Forget, RepoTypes, cleanVars
  <2> QED BY <1>2, <2>1, <2>2, <2>3, <2>4, <2>5, <2>6, <2>7 DEF RunStep
<1>3. CASE CleanStep
  BY <1>0, <1>3 DEF CleanStep, StartClean, CheckOperation, Inventory, RemoveBranches, RemoveRefs,
                    RemoveState, EndClean, Nothing, RepoTypes, sessions
<1>4. CASE UserRebases \/ UserSettles \/ Tick
  BY <1>0, <1>4 DEF UserRebases, UserSettles, Tick, RepoTypes, Rebase, Time, sessions, cleanVars
<1>5. CASE (\E d, e \in Dir : CopyRepository(d, e)) \/ UNCHANGED repoVars
  BY <1>0, <1>5 DEF CopyRepository, repoVars, RepoTypes, sessions, cleanVars
<1> QED BY <1>2, <1>3, <1>4, <1>5 DEF RepoStep

LEMMA TypeInvStep == TypeInv /\ [CleanNext]_repoVars => TypeInv'
<1> SUFFICES ASSUME TypeInv, [CleanNext]_repoVars PROVE TypeInv'
  OBVIOUS
<1>1. LockInv' /\ LockTypeOK'
  BY CleanLockInv DEF TypeInv, LockInv
<1>2. RepoTypes'
  BY RepoTypesStep DEF CleanNext
<1>3. (crossed \subseteq Dir /\ beside \subseteq Session /\ recent \subseteq Session)'
  <2>1. Active' \subseteq Session
    BY <1>1 DEF Active, Running, LockTypeOK, Alive, Session
  <2>2. CASE Remember
    <3>1. startRefs' \subseteq Session /\ backups' \subseteq Session
      BY <1>2 DEF RepoTypes
    <3> QED BY <2>1, <2>2, <3>1 DEF Remember, TypeInv, CleanTypeOK
  <2>3. CASE UNCHANGED repoVars
    BY <2>3 DEF repoVars, history, TypeInv, CleanTypeOK
  <2> QED BY <2>2, <2>3 DEF CleanNext
<1> QED BY <1>1, <1>2, <1>3 DEF TypeInv, CleanTypeOK, RepoTypes

-----------------------------------------------------------------------------
(* Where no lock was missed, who is past the check is alone, and who runs  *)
(* owns the lock.                                                          *)

Alone(d) == \A p, q \in Process : Past(p) /\ Past(q) /\ cwd[p] = d /\ cwd[q] = d => p = q

Owner(d) == \A p \in Process : state[p] = "running" /\ cwd[p] = d =>
              lock[d] = [pid |-> p, born |-> born[p], dir |-> d]

OrderInv == TypeInv /\ \A d \in Dir : d \notin crossed => Alone(d) /\ Owner(d)

\* Who owns the lock makes it live.
LEMMA OwnedIsLive ==
  ASSUME NEW d \in Dir, Owner(d), NEW p \in Process, state[p] = "running", cwd[p] = d
  PROVE  Live(d)
<1>1. lock[d] = [pid |-> p, born |-> born[p], dir |-> d]
  BY DEF Owner
<1>2. lock[d] # NoLock
  BY <1>1 DEF NoLock
<1> QED BY <1>1, <1>2 DEF Live, Alive

LEMMA OwnerStep ==
  ASSUME TypeInv, RepoStep \/ UNCHANGED repoVars, NEW d \in Dir, Alone(d), Owner(d), ~Missed(d),
         \E p \in Process : Past(p)' /\ cwd'[p] = d
  PROVE  Alone(d)' /\ Owner(d)'
<1>0. LockTypeOK
  BY DEF TypeInv, LockInv
<1>1. ASSUME NEW p \in Process, NEW e \in Dir, Launch(p, e) PROVE Alone(d)' /\ Owner(d)'
  BY <1>0, <1>1 DEF Launch, Alive, LockTypeOK, Alone, Owner, Past
<1>2. ASSUME NEW p \in Process, Refuse(p) \/ Crash(p) PROVE Alone(d)' /\ Owner(d)'
  BY <1>0, <1>2 DEF Refuse, Crash, Alive, LockTypeOK, Alone, Owner, Past
<1>3. ASSUME NEW p \in Process, Check(p) PROVE Alone(d)' /\ Owner(d)'
  <2>1. UNCHANGED <<lock, born, cwd>> /\ state' = [state EXCEPT ![p] = "checked"] /\ state[p] = "starting"
    BY <1>3 DEF Check
  <2>2. Owner(d)'
    BY <1>0, <2>1 DEF LockTypeOK, Owner
  <2>3. CASE cwd[p] # d
    BY <1>0, <2>1, <2>2, <2>3 DEF LockTypeOK, Alone, Past
  <2>4. CASE cwd[p] = d
    <3>1. ASSUME NEW q \in Process, Past(q), cwd[q] = d PROVE FALSE
      <4>1. CASE state[q] = "running"
        BY <1>3, <2>4, <3>1, <4>1, OwnedIsLive DEF Check
      <4>2. CASE state[q] = "checked"
        <5>1. p # q /\ state'[p] = "checked"
          BY <1>0, <2>1, <4>2 DEF LockTypeOK
        <5> QED BY <2>1, <2>4, <3>1, <4>2, <5>1 DEF Missed
      <4> QED BY <3>1, <4>1, <4>2 DEF Past
    <3>2. \A q \in Process : Past(q)' /\ cwd'[q] = d => q = p
      BY <1>0, <2>1, <3>1 DEF LockTypeOK, Past
    <3> QED BY <2>2, <3>2 DEF Alone
  <2> QED BY <2>2, <2>3, <2>4
<1>4. ASSUME NEW p \in Process, NEW written \in BOOLEAN, Enter(p, written) PROVE Alone(d)' /\ Owner(d)'
  <2>1. UNCHANGED <<born, cwd>> /\ state' = [state EXCEPT ![p] = "running"] /\ state[p] = "checked"
    BY <1>4 DEF Enter
  <2>2. Alone(d)'
    BY <1>0, <2>1 DEF LockTypeOK, Alone, Past
  <2>3. CASE cwd[p] # d
    <3>1. lock'[d] = lock[d]
      BY <1>0, <1>4, <2>3 DEF Enter, LockTypeOK
    <3> QED BY <1>0, <2>1, <2>2, <2>3, <3>1 DEF LockTypeOK, Owner
  <2>4. CASE cwd[p] = d
    <3>1. written
      <4> SUFFICES ASSUME ~written PROVE FALSE
        OBVIOUS
      <4>1. lock' = lock /\ state'[p] = "running"
        BY <1>0, <1>4, <2>1 DEF Enter, LockTypeOK
      <4> QED BY <2>1, <2>4, <4>1 DEF Missed
    <3>2. lock'[d] = [pid |-> p, born |-> born[p], dir |-> d]
      BY <1>0, <1>4, <2>4, <3>1 DEF Enter, LockTypeOK
    <3>3. \A q \in Process : Past(q)' /\ cwd'[q] = d => q = p
      BY <1>0, <2>1, <2>4 DEF LockTypeOK, Alone, Past
    <3> QED BY <2>1, <2>2, <3>2, <3>3 DEF Owner, Past
  <2> QED BY <2>2, <2>3, <2>4
<1>5. ASSUME NEW p \in Process, Exit(p) PROVE Alone(d)' /\ Owner(d)'
  <2>1. Alone(d)'
    BY <1>0, <1>5 DEF Exit, LockTypeOK, Alone, Past
  <2>2. cwd[p] # d
    BY <1>0, <1>5 DEF Exit, LockTypeOK, Alone, Past
  <2>3. lock'[d] = lock[d] /\ \A q \in Process : q # p => state'[q] = state[q] /\ born'[q] = born[q]
    BY <1>0, <1>5, <2>2 DEF Exit, LockTypeOK
  <2>4. Owner(d)'
    BY <1>0, <1>5, <2>2, <2>3 DEF Exit, Owner
  <2> QED BY <2>1, <2>4
<1>6. ASSUME NEW c \in Dir, NEW e \in Dir, CopyDirectory(c, e) PROVE Alone(d)' /\ Owner(d)'
  <2>1. d # e
    BY <1>6 DEF CopyDirectory, Alive, Past
  <2>2. lock'[d] = lock[d] /\ UNCHANGED <<state, born, cwd>>
    BY <1>0, <1>6, <2>1 DEF CopyDirectory, LockTypeOK
  <2> QED BY <2>2 DEF Alone, Owner, Past
<1>7. CASE RemoveState
  <2>1. UNCHANGED <<state, born, cwd>> /\ lock' = [lock EXCEPT ![Repo] = NoLock]
    BY <1>7 DEF RemoveState
  <2>2. CASE d # Repo
    BY <1>0, <2>1, <2>2 DEF LockTypeOK, Alone, Owner, Past
  <2>3. CASE d = Repo
    <3>1. ~ \E p \in Process : Running(p)
      BY <1>7, <2>3 DEF Missed, RemoveState
    <3> QED BY <2>1, <2>3, <3>1 DEF Running, Alone, Owner, Past
  <2> QED BY <2>2, <2>3
<1>8. CASE UNCHANGED lockVars
  BY <1>8 DEF lockVars, Alone, Owner, Past
<1>9. ASSUME NEW p \in Process, RunStep(p) PROVE Alone(d)' /\ Owner(d)'
  <2>1. CASE (\E e \in Dir : LaunchRun(p, e)) \/ (\E w \in BOOLEAN : LockRun(p, w)) \/ CrashRun(p)
    BY <1>1, <1>2, <1>3, <1>4, <2>1 DEF LaunchRun, LockRun, CrashRun
  <2>2. CASE Prepare(p) \/ BeginRebase(p) \/ Attach(p) \/ Progress(p)
    BY <1>8, <2>2 DEF Prepare, BeginRebase, Attach, Progress
  <2>3. CASE (\E c, l \in BOOLEAN : Close(p, c, l)) \/ EndWithoutRebase(p)
    BY <1>5, <2>3 DEF Close, EndWithoutRebase
  <2> QED BY <1>9, <2>1, <2>2, <2>3 DEF RunStep
<1>10. CASE \/ StartClean \/ (\E flag \in BOOLEAN : CheckOperation(flag)) \/ Inventory \/ RemoveBranches
            \/ RemoveRefs \/ EndClean \/ UserRebases \/ UserSettles \/ Tick \/ UNCHANGED repoVars
  BY <1>8, <1>10 DEF StartClean, CheckOperation, Inventory, RemoveBranches, RemoveRefs, EndClean,
                     UserRebases, UserSettles, Tick, repoVars
<1> QED
  BY <1>6, <1>7, <1>9, <1>10 DEF RepoStep, CleanStep, CopyRepository

LEMMA OrderInvStep == OrderInv /\ [CleanNext]_repoVars => OrderInv'
<1> SUFFICES ASSUME OrderInv, [CleanNext]_repoVars, NEW d \in Dir, d \notin crossed'
             PROVE  Alone(d)' /\ Owner(d)'
  BY TypeInvStep DEF OrderInv
<1>1. CASE ~ \E p \in Process : Past(p)' /\ cwd'[p] = d
  BY <1>1 DEF Alone, Owner, Past
<1>2. CASE (\E p \in Process : Past(p)' /\ cwd'[p] = d) /\ RepoStep /\ Remember
  <2>1. d \notin crossed /\ ~Missed(d)
    BY <1>2 DEF Remember
  <2> QED BY <1>2, <2>1, OwnerStep DEF OrderInv
<1>3. CASE UNCHANGED repoVars
  BY <1>3 DEF repoVars, lockVars, history, OrderInv, Alone, Owner, Past
<1> QED BY <1>1, <1>2, <1>3 DEF CleanNext

LEMMA OrderInvInit == CleanInit => OrderInv
BY TypeInvInit DEF CleanInit, LockInit, OrderInv, Alone, Owner, Past

-----------------------------------------------------------------------------
(* What is under way: a session that is running, or whose rebase is in     *)
(* progress, was seen beside clean or is none of those clean has found.    *)

Stock == found.refs \union found.branches
Traces == startRefs \union backups \union Stock

\* Start times are handed out once, and only a run leaves something behind.
Births ==
    /\ \A p, q \in Process : Alive(p) /\ born[p] = born[q] => p = q
    /\ \A s \in Traces : s <= births
    /\ \A p \in Process : state[p] \in {"starting", "checked"} => born[p] \notin Traces
    /\ \A p \in Process : state[p] # "running" => at[p] = "outset"

\* What a session under way is to keep.
Kept(s) == s \in beside \/ (s \in startRefs /\ s \in backups)

Keeping ==
    /\ \A p \in Process : Running(p) /\ at[p] = "prepared" => Kept(born[p])
    /\ rebase # NoRebase /\ rebase.by # User => Kept(rebase.by)
    /\ Under \cap Stock \subseteq beside
    /\ cleaning = "inventory" => Under \subseteq beside
    /\ cleaning \in {"no", "operation", "inventory"} => Stock = {}

LEMMA BirthsStep ==
  ASSUME TypeInv, Births, RepoStep \/ UNCHANGED repoVars
  PROVE  Births'
<1>0. LockTypeOK /\ BornBefore /\ RepoTypes /\ Born \subseteq Nat /\ births \in Nat
  BY LockAssumption DEF TypeInv, LockInv, CleanTypeOK, RepoTypes, LockTypeOK, Born
<1>1. ASSUME NEW p \in Process, NEW d \in Dir, Launch(p, d), UNCHANGED <<sessions, cleanVars>>
      PROVE  Births'
  <2>1. /\ births' = births + 1 /\ state' = [state EXCEPT ![p] = "starting"]
        /\ born' = [born EXCEPT ![p] = births + 1] /\ Traces' = Traces /\ at' = at /\ ~Alive(p)
    BY <1>1 DEF Launch, sessions, cleanVars, Traces, Stock
  <2>2. \A s \in Traces : s <= births /\ s \in Nat /\ s # births + 1 /\ s <= births + 1
    <3>1. Traces \subseteq Nat
      BY <1>0 DEF Traces, Stock, RepoTypes, Session
    <3> QED BY <1>0, <3>1 DEF Births
  <2>3. \A q \in Process : q # p => born'[q] = born[q] /\ state'[q] = state[q] /\ born[q] # births + 1
    BY <1>0, <2>1 DEF LockTypeOK, BornBefore
  <2>4. born'[p] = births + 1 /\ state'[p] = "starting" /\ at[p] = "outset"
    BY <1>0, <2>1 DEF LockTypeOK, Births, Alive
  <2>5. (\A q, r \in Process : Alive(q) /\ born[q] = born[r] => q = r)'
    BY <2>1, <2>3, <2>4 DEF Births, Alive
  <2>6. (\A s \in Traces : s <= births)'
    BY <2>1, <2>2
  <2>7. (\A q \in Process : state[q] \in {"starting", "checked"} => born[q] \notin Traces)'
    BY <2>1, <2>2, <2>3, <2>4 DEF Births
  <2>8. (\A q \in Process : state[q] # "running" => at[q] = "outset")'
    BY <2>1, <2>3, <2>4 DEF Births
  <2> QED BY <2>5, <2>6, <2>7, <2>8 DEF Births
\* Processes come to their end, or go on; nothing new is left.
<1>2. ASSUME NEW p \in Process, UNCHANGED <<births, cwd>>, Traces' \subseteq Traces,
             \/ state' = [state EXCEPT ![p] = "dead"] /\ born' = [born EXCEPT ![p] = 0]
                  /\ at' = [at EXCEPT ![p] = "outset"]
             \/ state[p] = "starting" /\ state' = [state EXCEPT ![p] = "checked"] /\ UNCHANGED <<born, at>>
             \/ state[p] = "checked" /\ state' = [state EXCEPT ![p] = "running"] /\ UNCHANGED <<born, at>>
             \/ UNCHANGED <<state, born, at>>
      PROVE  Births'
  <2>1. /\ \A q \in Process : Alive(q)' => Alive(q) /\ born'[q] = born[q]
        /\ \A q \in Process : born'[q] \in {born[q], 0}
        /\ \A q \in Process : state'[q] \in {"starting", "checked"} =>
             state[q] \in {"starting", "checked"} /\ born'[q] = born[q]
        /\ \A q \in Process : state'[q] # "running" =>
             (state[q] # "running" /\ at'[q] = at[q]) \/ at'[q] = "outset"
    <3>1. CASE state' = [state EXCEPT ![p] = "dead"] /\ born' = [born EXCEPT ![p] = 0]
               /\ at' = [at EXCEPT ![p] = "outset"]
      BY <1>0, <3>1 DEF LockTypeOK, RepoTypes, Alive
    <3>2. CASE state[p] = "starting" /\ state' = [state EXCEPT ![p] = "checked"] /\ UNCHANGED <<born, at>>
      BY <1>0, <3>2 DEF LockTypeOK, RepoTypes, Alive
    <3>3. CASE state[p] = "checked" /\ state' = [state EXCEPT ![p] = "running"] /\ UNCHANGED <<born, at>>
      BY <1>0, <3>3 DEF LockTypeOK, RepoTypes, Alive
    <3>4. CASE UNCHANGED <<state, born, at>>
      BY <3>4 DEF Alive
    <3> QED BY <1>2, <3>1, <3>2, <3>3, <3>4
  <2>2. \A q \in Process : Alive(q) => born[q] # 0
    BY <1>0 DEF LockTypeOK
  <2>3. (\A q, r \in Process : Alive(q) /\ born[q] = born[r] => q = r)'
    BY <2>1, <2>2 DEF Births
  <2> QED BY <1>2, <2>1, <2>3 DEF Births
\* Only a run that is under way leaves something, in its own name.
<1>3. ASSUME NEW p \in Process, Running(p), UNCHANGED <<births, state, born>>,
             at' = at \/ \E how : at' = [at EXCEPT ![p] = how],
             Traces' \subseteq Traces \union {born[p]}
      PROVE  Births'
  <2>1. state[p] = "running" /\ Alive(p) /\ born[p] <= births
    BY <1>0, <1>3 DEF Running, Alive, BornBefore
  <2>2. \A q \in Process : q # p => at'[q] = at[q] /\ born[q] # born[p]
    BY <1>0, <1>3, <2>1 DEF RepoTypes, Births
  <2> QED BY <1>3, <2>1, <2>2 DEF Births, Alive
<1>4. ASSUME NEW p \in Process, RunStep(p) PROVE Births'
  <2>1. CASE \E d \in Dir : LaunchRun(p, d)
    BY <1>1, <2>1 DEF LaunchRun
  <2>2. CASE \E w \in BOOLEAN : LockRun(p, w)
    <3>1. Traces' = Traces /\ at' = at
      BY <2>2 DEF LockRun, sessions, cleanVars, Traces, Stock
    <3>2. CASE Refuse(p)
      <4>1. at' = [at EXCEPT ![p] = "outset"]
        BY <1>0, <3>1, <3>2 DEF Refuse, Births, RepoTypes
      <4> QED BY <1>2, <3>1, <3>2, <4>1 DEF Refuse
    <3>3. CASE Check(p) \/ \E w \in BOOLEAN : Enter(p, w)
      BY <1>2, <3>1, <3>3 DEF Check, Enter
    <3> QED BY <2>2, <3>2, <3>3 DEF LockRun
  <2>3. CASE Prepare(p) \/ BeginRebase(p) \/ Attach(p) \/ Progress(p)
    <3>1. Running(p) /\ UNCHANGED <<births, state, born>>
      BY <2>3 DEF Prepare, BeginRebase, Attach, Progress, Works, lockVars
    <3>2. at' = at \/ \E how : at' = [at EXCEPT ![p] = how]
      BY <2>3 DEF Prepare, BeginRebase, Attach, Progress
    <3>3. Traces' \subseteq Traces \union {born[p]}
      BY <2>3 DEF Prepare, BeginRebase, Attach, Progress, cleanVars, Traces, Stock
    <3> QED BY <1>3, <3>1, <3>2, <3>3
  <2>4. CASE (\E c, l \in BOOLEAN : Close(p, c, l)) \/ EndWithoutRebase(p) \/ CrashRun(p)
    <3>1. Traces' = Traces
      BY <2>4 DEF Close, EndWithoutRebase, CrashRun, cleanVars, Traces, Stock
    <3> QED BY <1>2, <2>4, <3>1 DEF Close, EndWithoutRebase, CrashRun, Forget, Exit, Crash
  <2> QED BY <1>4, <2>1, <2>2, <2>3, <2>4 DEF RunStep
<1>5. CASE CleanStep \/ UserRebases \/ UserSettles \/ Tick \/ (\E d, e \in Dir : CopyRepository(d, e))
           \/ UNCHANGED repoVars
  <2>1. UNCHANGED <<births, state, born, at>>
    BY <1>5 DEF CleanStep, StartClean, CheckOperation, Inventory, RemoveBranches, RemoveRefs, RemoveState,
                EndClean, UserRebases, UserSettles, Tick, CopyRepository, CopyDirectory, repoVars, lockVars,
                sessions
  <2>2. Traces' \subseteq Traces
    <3>1. startRefs' \subseteq startRefs /\ backups' \subseteq backups
      BY <1>5 DEF CleanStep, StartClean, CheckOperation, Inventory, RemoveBranches, RemoveRefs, RemoveState,
                  EndClean, UserRebases, UserSettles, Tick, CopyRepository, repoVars, sessions
    <3>2. found' \in {found, [refs |-> startRefs, branches |-> backups], Nothing}
      BY <1>5 DEF CleanStep, StartClean, CheckOperation, Inventory, RemoveBranches, RemoveRefs, RemoveState,
                  EndClean, UserRebases, UserSettles, Tick, CopyRepository, repoVars, cleanVars
    <3>3. Stock' \subseteq Traces
      BY <3>2 DEF Traces, Stock, Nothing
    <3> QED BY <3>1, <3>3 DEF Traces
  <2> QED BY <2>1, <2>2 DEF Births, Alive
<1> QED BY <1>4, <1>5 DEF RepoStep

\* What Remember does to beside.
Beheld ==
    /\ beside \cap Under' \subseteq beside'
    /\ cleaning' = "inventory" => Active' \subseteq beside'

LEMMA WhoIsUnder ==
  ASSUME TypeInv
  PROVE  /\ Active \subseteq Under
         /\ \A p \in Process : Running(p) => born[p] \in Active
         /\ rebase # NoRebase /\ rebase.by # User => rebase.by \in Under
         /\ \A s \in Under : s \in Active \/ (rebase # NoRebase /\ rebase.by = s)
BY DEF TypeInv, CleanTypeOK, Rebase, Under, Active

\* The steps in which nobody comes, no session starts a rebase and clean takes no stock.
LEMMA QuietKeeps ==
  ASSUME TypeInv, TypeInv', Keeping, Beheld, Under' \subseteq Under, Stock' \subseteq Stock,
         \A p \in Process : Running(p)' /\ at'[p] = "prepared" =>
            \/ Running(p) /\ at[p] = "prepared" /\ born'[p] = born[p]
            \/ born'[p] \in startRefs' /\ born'[p] \in backups',
         rebase' # NoRebase /\ rebase'.by # User => rebase # NoRebase /\ rebase.by = rebase'.by,
         startRefs \ Stock \subseteq startRefs', backups \ Stock \subseteq backups',
         cleaning' = "inventory" => cleaning = "inventory" \/ rebase' = NoRebase,
         cleaning' \in {"no", "operation", "inventory"} => Stock' = {}
  PROVE  Keeping'
<1>1. ASSUME NEW t \in Under', Kept(t) PROVE Kept(t)'
  <2>1. CASE t \in beside
    BY <1>1, <2>1 DEF Beheld, Kept
  <2>2. CASE t \notin beside
    BY <1>1, <2>2 DEF Kept, Keeping
  <2> QED BY <2>1, <2>2
<1>2. (\A p \in Process : Running(p) /\ at[p] = "prepared" => Kept(born[p]))'
  <2> SUFFICES ASSUME NEW p \in Process, Running(p)', at'[p] = "prepared" PROVE Kept(born[p])'
    OBVIOUS
  <2>1. born'[p] \in Under'
    BY WhoIsUnder DEF Under, Active
  <2>2. CASE Running(p) /\ at[p] = "prepared" /\ born'[p] = born[p]
    <3>1. Kept(born'[p])
      BY <2>2 DEF Keeping
    <3> QED BY <1>1, <2>1, <3>1 DEF Kept
  <2>3. CASE born'[p] \in startRefs' /\ born'[p] \in backups'
    BY <2>3 DEF Kept
  <2> QED BY <2>2, <2>3
<1>3. (rebase # NoRebase /\ rebase.by # User => Kept(rebase.by))'
  <2> SUFFICES ASSUME rebase' # NoRebase, rebase'.by # User PROVE Kept(rebase.by)'
    OBVIOUS
  <2>1. rebase'.by \in Under'
    BY DEF TypeInv, CleanTypeOK, Rebase, Under
  <2>2. Kept(rebase'.by)
    BY DEF Keeping
  <2> QED BY <1>1, <2>1, <2>2 DEF Kept
<1>4. Under' \cap Stock' \subseteq beside'
  BY DEF Keeping, Beheld
<1>5. cleaning' = "inventory" => Under' \subseteq beside'
  <2>1. CASE cleaning = "inventory"
    BY <2>1 DEF Keeping, Beheld
  <2>2. CASE rebase' = NoRebase
    BY <2>2 DEF Beheld, Under
  <2> QED BY <2>1, <2>2
<1> QED BY <1>2, <1>3, <1>4, <1>5 DEF Keeping

\* A run comes; it has left nothing yet.
LEMMA EnterKeeps ==
  ASSUME TypeInv, TypeInv', Births, Keeping, Beheld, NEW p \in Process, NEW written \in BOOLEAN,
         Enter(p, written), UNCHANGED <<sessions, cleanVars>>
  PROVE  Keeping'
<1>1. /\ UNCHANGED <<born, cwd, startRefs, backups, rebase, at, cleaning, Stock>>
      /\ state[p] = "checked" /\ state' = [state EXCEPT ![p] = "running"]
      /\ at[p] = "outset" /\ born[p] \notin Traces
  BY DEF Enter, sessions, cleanVars, Stock, Births
<1>2. \A q \in Process : q # p => Running(q)' = Running(q)
  BY <1>1 DEF Running, TypeInv, LockInv, LockTypeOK
<1>3. Under' \subseteq Under \union {born[p]}
  <2>1. Active' \subseteq Active \union {born[p]}
    BY <1>1, <1>2 DEF Active
  <2> QED BY <1>1, <2>1 DEF Under
<1>4. ASSUME NEW t \in Under', Kept(t) PROVE Kept(t)'
  BY <1>1, <1>4 DEF Kept, Beheld
<1>5. (\A q \in Process : Running(q) /\ at[q] = "prepared" => Kept(born[q]))'
  <2> SUFFICES ASSUME NEW q \in Process, Running(q)', at'[q] = "prepared" PROVE Kept(born[q])'
    OBVIOUS
  <2>1. q # p /\ Running(q) /\ at[q] = "prepared" /\ born'[q] = born[q]
    BY <1>1, <1>2
  <2>2. born[q] \in Under' /\ Kept(born[q])
    BY <2>1, <1>1 DEF Under, Active, Keeping
  <2> QED BY <1>4, <2>1, <2>2 DEF Kept
<1>6. (rebase # NoRebase /\ rebase.by # User => Kept(rebase.by))'
  <2> SUFFICES ASSUME rebase' # NoRebase, rebase'.by # User PROVE Kept(rebase.by)'
    OBVIOUS
  <2>1. rebase'.by \in Under'
    BY DEF TypeInv, CleanTypeOK, Rebase, Under
  <2>2. Kept(rebase.by)
    BY <1>1 DEF Keeping
  <2> QED BY <1>1, <1>4, <2>1, <2>2 DEF Kept
<1>7. Under' \cap Stock' \subseteq beside'
  <2>1. born[p] \notin Stock
    BY <1>1 DEF Traces
  <2> QED BY <1>1, <1>3, <2>1 DEF Keeping, Beheld
<1>8. cleaning' = "inventory" => Under' \subseteq beside'
  <2>1. \A t \in Under' : t \in Active' \/ t \in Under
    BY <1>1 DEF Under
  <2> QED BY <1>1, <2>1 DEF Keeping, Beheld
<1>9. (cleaning \in {"no", "operation", "inventory"} => Stock = {})'
  BY <1>1 DEF Keeping
<1> QED BY <1>5, <1>6, <1>7, <1>8, <1>9 DEF Keeping

LEMMA KeepingStep ==
  ASSUME TypeInv, TypeInv', Births, Keeping, RepoStep, Beheld
  PROVE  Keeping'
<1>0. LockTypeOK /\ RepoTypes
  BY DEF TypeInv, LockInv, CleanTypeOK, RepoTypes
\* Processes and the user leave: nobody comes, and only a rebase may go.
<1>1. ASSUME NEW p \in Process, UNCHANGED <<cwd, startRefs, backups, cleanVars>>,
             rebase' \in {rebase, NoRebase},
             \A q \in Process : state'[q] = "running" =>
                state[q] = "running" /\ born'[q] = born[q] /\ at'[q] = at[q]
      PROVE  Keeping'
  <2>1. Under' \subseteq Under /\ Stock' = Stock
    BY <1>1 DEF Under, Active, Running, Stock, cleanVars
  <2>2. \A q \in Process : Running(q)' => Running(q) /\ born'[q] = born[q] /\ at'[q] = at[q]
    BY <1>1 DEF Running
  <2>3. cleaning' = cleaning
    BY <1>1 DEF cleanVars
  <2>4. cleaning \in {"no", "operation", "inventory"} => Stock = {}
    BY DEF Keeping
  <2> QED BY <1>1, <2>1, <2>2, <2>3, <2>4, QuietKeeps
\* Nobody comes or goes.
<1>2. ASSUME UNCHANGED <<state, born, cwd, startRefs, backups, at, cleanVars>>,
             rebase' # NoRebase /\ rebase'.by # User => rebase # NoRebase /\ rebase.by = rebase'.by
      PROVE  Keeping'
  <2>1. Active' = Active /\ Stock' = Stock /\ cleaning' = cleaning
    BY <1>2 DEF Active, Running, Stock, cleanVars
  <2>2. Under' \subseteq Under
    <3>1. \A t \in Session : t # User
      BY LockAssumption DEF Session, Born, User
    <3> QED BY <1>2, <2>1, <3>1 DEF Under
  <2>3. \A q \in Process : Running(q)' = Running(q)
    BY <1>2 DEF Running
  <2>4. cleaning \in {"no", "operation", "inventory"} => Stock = {}
    BY DEF Keeping
  <2> QED BY <1>2, <2>1, <2>2, <2>3, <2>4, QuietKeeps
<1>3. ASSUME NEW p \in Process, NEW d \in Dir, LaunchRun(p, d) PROVE Keeping'
  <2>1. \A q \in Process : state'[q] = "running" => q # p /\ state[q] = "running" /\ born'[q] = born[q]
    BY <1>0, <1>3 DEF LaunchRun, Launch, LockTypeOK
  <2>2. UNCHANGED <<startRefs, backups, rebase, at, cleaning, Stock>> /\ cwd' = [cwd EXCEPT ![p] = d]
    BY <1>3 DEF LaunchRun, Launch, sessions, cleanVars, Stock
  <2>3. \A q \in Process : Running(q)' => Running(q) /\ born'[q] = born[q] /\ at'[q] = at[q]
    BY <1>0, <2>1, <2>2 DEF Running, LockTypeOK
  <2>4. Under' \subseteq Under
    BY <2>2, <2>3 DEF Under, Active
  <2>5. cleaning \in {"no", "operation", "inventory"} => Stock = {}
    BY DEF Keeping
  <2> QED BY <2>2, <2>3, <2>4, <2>5, QuietKeeps
<1>4. ASSUME NEW p \in Process, NEW written \in BOOLEAN, LockRun(p, written) PROVE Keeping'
  <2>1. CASE Refuse(p) \/ Check(p)
    BY <1>0, <1>1, <1>4, <2>1 DEF LockRun, Refuse, Check, sessions, LockTypeOK
  <2>2. CASE Enter(p, written)
    BY <1>4, <2>2, EnterKeeps DEF LockRun
  <2> QED BY <1>4, <2>1, <2>2 DEF LockRun
<1>5. ASSUME NEW p \in Process, Prepare(p) PROVE Keeping'
  <2>1. /\ UNCHANGED <<state, born, cwd, rebase, cleaning, Stock>>
        /\ startRefs' = startRefs \union {born[p]} /\ backups' = backups \union {born[p]}
        /\ \A q \in Process : q # p => at'[q] = at[q]
    BY <1>0, <1>5 DEF Prepare, lockVars, cleanVars, Stock, RepoTypes
  <2>2. Under' = Under /\ \A q \in Process : Running(q)' = Running(q)
    BY <2>1 DEF Under, Active, Running
  <2>3. cleaning \in {"no", "operation", "inventory"} => Stock = {}
    BY DEF Keeping
  <2> QED BY <2>1, <2>2, <2>3, QuietKeeps
<1>6. ASSUME NEW p \in Process, BeginRebase(p) PROVE Keeping'
  <2>1. /\ UNCHANGED <<state, born, cwd, startRefs, backups, cleaning, Stock>> /\ rebase = NoRebase
        /\ rebase' = [by |-> born[p], at |-> clock] /\ Running(p) /\ at[p] = "prepared"
        /\ at' = [at EXCEPT ![p] = "works"]
    BY <1>6 DEF BeginRebase, lockVars, cleanVars, Stock
  <2>2. Active' = Active /\ born[p] \in Active /\ Kept(born[p])
    BY <2>1 DEF Active, Running, Keeping
  <2>3. Under' = Under
    BY <2>1, <2>2 DEF Under
  <2>4. \A t \in Under : Kept(t) => Kept(t)'
    BY <2>1, <2>3 DEF Kept, Beheld
  <2>5. (\A q \in Process : Running(q) /\ at[q] = "prepared" => Kept(born[q]))'
    <3> SUFFICES ASSUME NEW q \in Process, Running(q)', at'[q] = "prepared" PROVE Kept(born[q])'
      OBVIOUS
    <3>1. Running(q) /\ at[q] = "prepared" /\ born'[q] = born[q]
      BY <1>0, <2>1 DEF Running, RepoTypes
    <3>2. born[q] \in Under /\ Kept(born[q])
      BY <3>1 DEF Under, Active, Keeping
    <3> QED BY <2>4, <3>1, <3>2 DEF Kept
  <2>6. (rebase # NoRebase /\ rebase.by # User => Kept(rebase.by))'
    <3>1. rebase'.by = born[p] /\ born[p] \in Under
      BY <2>1, <2>2 DEF Under
    <3> QED BY <2>2, <2>4, <3>1 DEF Kept
  <2>7. (Under \cap Stock \subseteq beside)' /\ (cleaning = "inventory" => Under \subseteq beside)'
    BY <2>1, <2>3 DEF Keeping, Beheld
  <2>8. (cleaning \in {"no", "operation", "inventory"} => Stock = {})'
    BY <2>1 DEF Keeping
  <2> QED BY <2>5, <2>6, <2>7, <2>8 DEF Keeping
<1>7. ASSUME NEW p \in Process, Attach(p) \/ Progress(p) PROVE Keeping'
  <2>1. /\ UNCHANGED <<state, born, cwd, startRefs, backups, cleaning, Stock>>
        /\ rebase # NoRebase /\ rebase' # NoRebase => rebase'.by = rebase.by
        /\ at' = at \/ at' = [at EXCEPT ![p] = "works"]
    BY <1>0, <1>7 DEF Attach, Progress, lockVars, cleanVars, Stock, RepoTypes, Rebase
  <2>2. rebase # NoRebase
    BY <1>7 DEF Attach, Progress
  <2>3. Active' = Active /\ \A q \in Process : Running(q)' = Running(q)
    BY <2>1 DEF Active, Running
  <2>4. Under' \subseteq Under
    BY <2>1, <2>2, <2>3 DEF Under
  <2>5. \A q \in Process : at'[q] = "prepared" => at[q] = "prepared"
    BY <1>0, <2>1 DEF RepoTypes
  <2>6. cleaning \in {"no", "operation", "inventory"} => Stock = {}
    BY DEF Keeping
  <2> QED BY <2>1, <2>2, <2>3, <2>4, <2>5, <2>6, QuietKeeps
<1>8. ASSUME NEW p \in Process,
             (\E c, l \in BOOLEAN : Close(p, c, l)) \/ EndWithoutRebase(p) \/ CrashRun(p)
      PROVE  Keeping'
  <2>1. /\ UNCHANGED <<cwd, startRefs, backups, cleanVars>> /\ rebase' \in {rebase, NoRebase}
        /\ state' = [state EXCEPT ![p] = "dead"] /\ born' = [born EXCEPT ![p] = 0]
        /\ at' = [at EXCEPT ![p] = "outset"]
    BY <1>8 DEF Close, EndWithoutRebase, CrashRun, Forget, Exit, Crash
  <2>2. \A q \in Process : state'[q] = "running" =>
          state[q] = "running" /\ born'[q] = born[q] /\ at'[q] = at[q]
    BY <1>0, <2>1 DEF LockTypeOK, RepoTypes
  <2> QED BY <1>1, <2>1, <2>2
<1>9. CASE \E p \in Process : RunStep(p)
  BY <1>3, <1>4, <1>5, <1>6, <1>7, <1>8, <1>9 DEF RunStep
<1>10. CASE UserRebases \/ UserSettles \/ Tick \/ (\E d, e \in Dir : CopyRepository(d, e))
  BY <1>2, <1>10 DEF UserRebases, UserSettles, Tick, CopyRepository, CopyDirectory, lockVars, sessions
<1>11. CASE Inventory
  <2>1. /\ UNCHANGED <<lockVars, sessions>> /\ cleaning = "inventory" /\ cleaning' = "branches"
        /\ Under' = Under
    BY <1>11 DEF Inventory, lockVars, sessions, Under, Active, Running
  <2>2. Under' \subseteq beside'
    BY <2>1 DEF Keeping, Beheld
  <2>3. (\A p \in Process : Running(p) /\ at[p] = "prepared" => Kept(born[p]))'
    BY <2>2 DEF Under, Active, Kept
  <2>4. (rebase # NoRebase /\ rebase.by # User => Kept(rebase.by))'
    BY <2>2 DEF TypeInv, CleanTypeOK, Rebase, Under, Kept
  <2> QED BY <2>1, <2>2, <2>3, <2>4 DEF Keeping
<1>12. CASE StartClean \/ (\E flag \in BOOLEAN : CheckOperation(flag)) \/ RemoveBranches \/ RemoveRefs
            \/ RemoveState \/ EndClean
  <2>1. /\ UNCHANGED <<state, born, cwd, at>> /\ rebase' \in {rebase, NoRebase}
        /\ startRefs \ Stock \subseteq startRefs' /\ backups \ Stock \subseteq backups'
    BY <1>12 DEF StartClean, CheckOperation, RemoveBranches, RemoveRefs, RemoveState, EndClean,
                 lockVars, sessions, Stock
  <2>2. Active' = Active /\ \A q \in Process : Running(q)' = Running(q)
    BY <2>1 DEF Active, Running
  <2>3. Under' \subseteq Under
    BY <2>1, <2>2 DEF Under
  <2>4. cleaning' = "inventory" => cleaning = "inventory" \/ rebase' = NoRebase
    BY <1>12 DEF StartClean, CheckOperation, RemoveBranches, RemoveRefs, RemoveState, EndClean
  <2>5. \/ found' = found /\ (cleaning' \in {"no", "operation", "inventory"} =>
                                 cleaning \in {"no", "operation", "inventory"})
        \/ found' = Nothing
    BY <1>12 DEF StartClean, CheckOperation, RemoveBranches, RemoveRefs, RemoveState, EndClean
  <2>6. Stock' \subseteq Stock /\ (cleaning' \in {"no", "operation", "inventory"} => Stock' = {})
    BY <2>5 DEF Stock, Nothing, Keeping
  <2> QED BY <2>1, <2>2, <2>3, <2>4, <2>6, QuietKeeps
<1> QED BY <1>9, <1>10, <1>11, <1>12 DEF RepoStep, CleanStep

-----------------------------------------------------------------------------
(* What clean has not taken stock of is recent. *)

Journals == {s \in Session : journal[s] # NoJournal}

Counted ==
    /\ cleaning \in {"branches", "refs"} => startRefs \subseteq found.refs \union recent
    /\ cleaning = "branches" => backups \subseteq found.branches \union recent
    /\ cleaning \in {"refs", "state", "done"} => backups \subseteq recent
    /\ cleaning \in {"state", "done"} => startRefs \subseteq recent
    /\ cleaning = "done" => Journals \subseteq recent

LEMMA CountedStep ==
  ASSUME Counted, RepoStep, Remember
  PROVE  Counted'
<1>1. TookStock /\ TookStock' =>
        /\ recent \subseteq recent'
        /\ startRefs' \subseteq startRefs \union recent'
        /\ backups' \subseteq backups \union recent'
        /\ Journals' \subseteq Journals \union recent'
  BY DEF Remember, Journals
<1>2. CASE UNCHANGED cleanVars
  BY <1>1, <1>2 DEF cleanVars, Counted, TookStock
<1>3. CASE StartClean \/ (\E flag \in BOOLEAN : CheckOperation(flag)) \/ EndClean
  BY <1>3 DEF StartClean, CheckOperation, EndClean, Counted
<1>4. CASE Inventory
  BY <1>4 DEF Inventory, sessions, Counted
<1>5. CASE RemoveBranches
  BY <1>1, <1>5 DEF RemoveBranches, Counted, TookStock
<1>6. CASE RemoveRefs
  BY <1>1, <1>6 DEF RemoveRefs, Counted, TookStock
<1>7. CASE RemoveState
  <2>1. Journals' = {}
    BY <1>7 DEF RemoveState, Journals
  <2> QED BY <1>1, <1>7, <2>1 DEF RemoveState, Counted, TookStock
<1>8. CASE \E p \in Process : RunStep(p)
  <2>1. UNCHANGED cleanVars
    BY <1>8 DEF RunStep, LaunchRun, LockRun, Prepare, BeginRebase, Attach, Progress, Close,
                EndWithoutRebase, CrashRun
  <2> QED BY <1>2, <2>1
<1>9. CASE UserRebases \/ UserSettles \/ Tick \/ (\E d, e \in Dir : CopyRepository(d, e))
  <2>1. UNCHANGED cleanVars
    BY <1>9 DEF UserRebases, UserSettles, Tick, CopyRepository
  <2> QED BY <1>2, <2>1
<1> QED BY <1>3, <1>4, <1>5, <1>6, <1>7, <1>8, <1>9 DEF RepoStep, CleanStep

-----------------------------------------------------------------------------
(* The theorems. *)

CleanInv == TypeInv /\ Births /\ Keeping /\ Counted

LEMMA CleanInvInit == CleanInit => CleanInv
<1> SUFFICES ASSUME CleanInit PROVE CleanInv
  OBVIOUS
<1>1. TypeInv
  BY TypeInvInit
<1>2. Traces = {} /\ Stock = {} /\ Under = {}
  BY DEF CleanInit, LockInit, Traces, Stock, Nothing, Under, Active, Running
<1>3. Births
  BY <1>2 DEF CleanInit, LockInit, Births, Alive
<1>4. Keeping
  BY <1>2 DEF CleanInit, LockInit, Keeping, Running
<1> QED BY <1>1, <1>3, <1>4 DEF CleanInit, CleanInv, Counted

LEMMA CleanInvStep == CleanInv /\ [CleanNext]_repoVars => CleanInv'
<1> SUFFICES ASSUME CleanInv, [CleanNext]_repoVars PROVE CleanInv'
  OBVIOUS
<1>1. TypeInv /\ TypeInv' /\ Births'
  BY TypeInvStep, BirthsStep DEF CleanInv, CleanNext
<1>2. CASE RepoStep /\ Remember
  <2>1. Beheld
    BY <1>2 DEF Remember, Beheld
  <2> QED BY <1>1, <1>2, <2>1, KeepingStep, CountedStep DEF CleanInv
<1>3. CASE UNCHANGED repoVars
  <2>1. Keeping' /\ Counted'
    BY <1>3 DEF CleanInv, repoVars, lockVars, sessions, cleanVars, history, Keeping, Kept, Under, Active,
                Running, Stock, Counted, Journals
  <2> QED BY <1>1, <2>1 DEF CleanInv
<1> QED BY <1>2, <1>3 DEF CleanNext

\* Every variable of clean and the runs beside it keeps its type.
THEOREM CleanTypes == CleanSpec => []CleanTypeOK
<1>1. TypeInv => CleanTypeOK
  BY DEF TypeInv
<1> QED BY TypeInvInit, TypeInvStep, <1>1, PTL DEF CleanSpec

\* A lock that reads as live stands for a run under way in its directory, also
\* beside a clean that removes locks.
THEOREM CleanKeepsLocks == CleanSpec => []LiveMeansRunning
<1>1. TypeInv => LiveMeansRunning
  BY LockInvImplies DEF TypeInv
<1> QED BY TypeInvInit, TypeInvStep, <1>1, PTL DEF CleanSpec

\* Two runs share a directory only where the lock of one was missed: checked for
\* before it was written, not written, or taken by a clean that had looked before.
THEOREM LockMissedFirst == CleanSpec => []SecondRunMissedTheLock
<1>1. OrderInv => SecondRunMissedTheLock
  BY DEF OrderInv, TypeInv, LockInv, LockTypeOK, Alone, Past, SecondRunMissedTheLock
<1> QED BY OrderInvInit, OrderInvStep, <1>1, PTL DEF CleanSpec

\* The recovery ref and the backup branch of a rebase outlive it, also with clean
\* beside it, but for a session that came between clean's look for a rebase and its
\* taking stock.
THEOREM RecoveryOutlives == CleanSpec => []RecoveryWhileRebasing
<1>1. CleanInv => RecoveryWhileRebasing
  BY DEF CleanInv, Keeping, Kept, RecoveryWhileRebasing
<1> QED BY CleanInvInit, CleanInvStep, <1>1, PTL DEF CleanSpec

\* A clean that ran to its end has removed everything but what came after it looked.
THEOREM NothingIsLeft == CleanSpec => []CleanLeavesNothing
<1>1. CleanInv => CleanLeavesNothing
  BY DEF CleanInv, Counted, Journals, CleanLeavesNothing
<1> QED BY CleanInvInit, CleanInvStep, <1>1, PTL DEF CleanSpec
=============================================================================
