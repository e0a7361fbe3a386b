----------------------------- MODULE ModelCalls -----------------------------
(***************************************************************************)
(* How ResolutionEngine.propose and propose_two_pass get their samples from *)
(* the model (resolution_engine.py), and what OpenAICompatibleClient does   *)
(* for each call: retries, deadlines, abandoned workers, the text mode      *)
(* fallback (adapters/llm_openai.py).                                       *)
(*                                                                          *)
(* A call is one use of complete or complete_many.  Each of its attempts is *)
(* a request with a worker thread and a queue of its own; the worker of an  *)
(* attempt that was given up keeps reading, and may still answer.  The      *)
(* server may say anything, at any time, or nothing.                        *)
(***************************************************************************)
EXTENDS Naturals, FiniteSets, Sequences

CONSTANTS
  N,           \* bound: samples of one draw
  MaxTries,    \* bound: retry_attempts
  Workers,     \* threads of the pool; 8 in the code
  Setups,      \* the configurations and callers considered
  MaxExtra,    \* bound: choices a server sends beyond those a batch asked for
  MaxSignals   \* bound: SIGTERM and SIGHUP received during one draw

\* want: n_samples.  samples: the configured number, which the caller of
\* propose_two_pass does not ask for.  again: a retry, with feedback and another
\* profile.  alike: the samples share a temperature.
Setup == [twopass : BOOLEAN, plans : BOOLEAN, parallel : BOOLEAN, variants : BOOLEAN,
          alike : BOOLEAN, json : BOOLEAN, markdown : BOOLEAN, again : BOOLEAN,
          want : 1..N, samples : 1..N, tries : 1..MaxTries]

ASSUME CallsAssumption ==
  /\ N \in Nat \ {0} /\ MaxTries \in Nat \ {0} /\ Workers \in Nat \ {0} /\ MaxExtra \in Nat
  /\ MaxSignals \in Nat
  /\ Setups \subseteq Setup
  /\ \A s \in Setups : (s.twopass => ~s.again) /\ (s.plans => s.twopass)

\* The calls of one draw: the samples, the batch of all of them, and the two that
\* only plan.
Samples == 1..N
Batch == 0
Intent == N + 1
Plan == N + 2
Calls == Samples \cup {Batch, Intent, Plan}
Planning == {Intent, Plan}

VARIABLES
  setup,
  pc,       \* what the thread that called propose does
  n,        \* how many samples it draws
  call,     \* each call: what it waits for, how it asks, its candidate
  open,     \* the requests whose worker still reads
  profile,  \* the active prompt profile, global to the process
  result,   \* what propose returned
  signals

vars == <<setup, pc, n, call, open, profile, result, signals>>

-----------------------------------------------------------------------------
(* What a server may answer. *)

\* A text; "cut" says it was cut off for its length, "plain" does not say how it
\* ended; "odd" has a field that is not of its type.
Texts == {"good", "plain", "cut", "blank", "odd"}

\* transient: the connection, a 5xx, a timeout of the socket, a body that is not
\* JSON, and the reader's own deadline.  format: a 400 about response_format.
\* short: fewer choices than asked for, which the engine takes for a failure.
Errors == {"transient", "refused", "format", "short"}

Outcomes == {"usable", "truncated", "empty", "request_failed", "raises"}
Nothing == [from |-> [of |-> 0, no |-> 0], is |-> "request_failed", as |-> "base"]

\* A sample that does not say how it ended is taken to have ended like the first
\* one of its response.
HowEnded(text, first) == IF text = "plain" /\ first = "cut" THEN "cut" ELSE text

\* _candidate_from_response.
Candidate(text, first) ==
  LET ended == HowEnded(text, first)
  IN CASE ended = "blank" -> "empty"
       [] ended = "cut"   -> "truncated"
       [] ended = "odd"   -> "raises"
       [] OTHER           -> "usable"

-----------------------------------------------------------------------------

NewCall == [st |-> "new", json |-> FALSE, left |-> 0, no |-> 0, got |-> <<>>]

Init ==
  /\ setup \in Setups
  /\ pc = "start" /\ n = setup.want
  /\ call = [c \in Calls |-> NewCall]
  /\ open = {} /\ result = <<>> /\ signals = 0
  /\ profile = "base"

Asked == IF setup.again THEN "variant" ELSE "base"

\* Server-side JSON is off for candidates under the markdown layout.
Json(c) == setup.json /\ (c \in Planning \/ ~setup.markdown)

\* A new attempt: a fresh request, worker and queue.
Send(c, json, left) ==
  /\ call' = [call EXCEPT ![c].st = "asking", ![c].json = json, ![c].left = left,
                          ![c].no = @ + 1]
  /\ open' = open \cup {[of |-> c, no |-> call[c].no + 1]}

\* The pool takes its samples in order, and has at most Workers at work.
Ended == pc \in {"returned", "raised", "interrupted", "deserted"}
InPool == pc \in {"pool", "leaving", "deserted"}
AtWork == {c \in Samples : call[c].st \in {"asking", "resting"}}
FirstNew(c) == c <= n /\ \A d \in Samples : d < c => call[d].st # "new"

\* _one: a call that failed is a candidate too.
One(c) == IF call[c].got = <<>> THEN Nothing ELSE call[c].got[1]
Raised == \E c \in 1..n : call[c].st = "over" /\ One(c).is = "raises"

Turn(c) ==
  CASE c = Intent -> pc = "intent"
    [] c = Plan   -> pc = "plan"
    [] c = Batch  -> pc = "batch"
    [] OTHER      -> FirstNew(c) /\ \/ InPool /\ Cardinality(AtWork) < Workers
                                    \/ pc = "serial" /\ AtWork = {} /\ ~Raised

Begin(c) ==
  /\ call[c].st = "new" /\ Turn(c)
  /\ Send(c, Json(c), setup.tries)
  /\ UNCHANGED <<setup, pc, n, profile, result, signals>>

\* The thread of call c still runs: the pool's threads do whatever happens to the
\* thread that waits for them.
Runs(c) == Turn(c) \/ (c \in Samples /\ (InPool \/ pc = "serial"))

\* After the pause between two tries.
Retry(c) ==
  /\ call[c].st = "resting" /\ Runs(c)
  /\ Send(c, call[c].json, call[c].left)
  /\ UNCHANGED <<setup, pc, n, profile, result, signals>>

-----------------------------------------------------------------------------
(* The end of an attempt, as the thread that waits for it sees it. *)

Over(c, got) == [call[c] EXCEPT !.st = "over", !.got = got]

\* A failure that may pass is tried again; a refusal of response_format starts over
\* in text mode, which a batch does not.
After(c, error) ==
  CASE error = "transient" /\ call[c].left > 1 ->
         [call[c] EXCEPT !.st = "resting", !.left = @ - 1]
    [] error = "format" /\ c # Batch ->
         [call[c] EXCEPT !.st = "resting", !.json = FALSE, !.left = setup.tries]
    [] OTHER -> Over(c, <<>>)

\* The candidates made of a response, under the profile of that moment.
Made(r, texts) ==
  [i \in 1..Len(texts) |->
     [from |-> r, is |-> Candidate(texts[i], texts[1]), as |-> profile]]

\* One text for each sample, and of a batch every choice the server sent, more than
\* were asked for, too; what a plan says is looked at later.
Responses(c) ==
  CASE c = Batch     -> UNION {[1..k -> Texts] : k \in n..(n + MaxExtra)}
    [] c \in Samples -> [1..1 -> Texts]
    [] OTHER         -> {<<"plain">>}

\* Mutant: the attempts share one queue.
Readers_All(r) == {c \in Calls : call[c].st = "asking" /\ Runs(c)}

\* Who waits at the queue of a request: its own call, in that attempt.
Readers(r) == {c \in Calls : /\ c = r.of /\ r.no = call[c].no
                             /\ call[c].st = "asking" /\ Runs(c)}

\* The worker of a request is done; what it puts into its queue may find no reader.
\* After the draw nobody looks any more.
Answer(r) ==
  /\ ~Ended \/ pc = "deserted"
  /\ open' = open \ {r}
  /\ IF Readers(r) = {} THEN UNCHANGED call
     ELSE \E c \in Readers(r) :
       \/ \E texts \in Responses(c) : call' = [call EXCEPT ![c] = Over(c, Made(r, texts))]
       \/ \E e \in Errors : /\ e = "short" => c = Batch
                            /\ e = "format" => call[c].json
                            /\ call' = [call EXCEPT ![c] = After(c, e)]
  /\ UNCHANGED <<setup, pc, n, profile, result, signals>>

\* Mutant: nobody looks at the clock.
Deadline_Never(c) == FALSE /\ UNCHANGED vars

\* Mutant: a stall is tried again.
Deadline_Retried(c) ==
  /\ call[c].st = "asking" /\ Runs(c)
  /\ call' = [call EXCEPT ![c] = After(c, "transient")]
  /\ UNCHANGED <<setup, pc, n, open, profile, result, signals>>

\* generation_timeout_seconds are over.  The attempt is given up, with its worker,
\* and not tried again.
Deadline(c) ==
  /\ call[c].st = "asking" /\ Runs(c)
  /\ call' = [call EXCEPT ![c] = Over(c, <<>>)]
  /\ UNCHANGED <<setup, pc, n, open, profile, result, signals>>

-----------------------------------------------------------------------------
(* The draw. *)

Goes(to) == pc' = to /\ UNCHANGED <<setup, call, open, result, signals>>

\* n samples of the same prompt.
Draw(k) == IF k = 1 \/ ~setup.parallel THEN "serial"
           ELSE IF setup.alike THEN "batch" ELSE "pool"

\* propose: variants of the prompt go to the pool at once.
Propose(k) ==
  IF setup.variants /\ ~setup.again /\ setup.parallel /\ k > 1 THEN "pool" ELSE Draw(k)

Start ==
  /\ pc = "start"
  /\ profile' = Asked
  /\ Goes(IF setup.twopass THEN "intent" ELSE Propose(n))
  /\ UNCHANGED n

\* No intents in what came back, if anything did: propose, with as many samples as
\* are configured, whatever the caller wanted.
IntentDone ==
  /\ pc = "intent" /\ call[Intent].st = "over"
  /\ \/ n' = setup.samples /\ Goes(Propose(setup.samples))
     \/ /\ call[Intent].got # <<>>
        /\ Goes(IF setup.plans /\ n > 1 THEN "plan" ELSE Draw(n)) /\ UNCHANGED n
  /\ UNCHANGED profile

\* At least two plans, of which each gets a sample; or none.
PlanDone ==
  /\ pc = "plan" /\ call[Plan].st = "over"
  /\ \/ Goes(Draw(n)) /\ UNCHANGED n
     \/ /\ call[Plan].got # <<>>
        /\ n' \in 2..n
        /\ Goes(IF setup.parallel THEN "pool" ELSE "serial")
  /\ UNCHANGED profile

End(how, candidates) ==
  /\ pc' = how /\ result' = candidates /\ profile' = "base"
  /\ UNCHANGED <<setup, n, call, open, signals>>

Raises(candidates) == \E i \in 1..Len(candidates) : candidates[i].is = "raises"
Finish(candidates) ==
  IF Raises(candidates) THEN End("raised", <<>>) ELSE End("returned", candidates)

\* Without the batch: one call for each sample.
BatchDone ==
  /\ pc = "batch" /\ call[Batch].st = "over"
  /\ IF call[Batch].got = <<>> THEN Goes("pool") /\ UNCHANGED <<n, profile>>
     ELSE Finish(call[Batch].got)

AllOver == \A c \in 1..n : call[c].st = "over"

\* One after the other, up to the first that raises.
SerialDone ==
  /\ pc = "serial"
  /\ \/ AllOver /\ Finish([c \in 1..n |-> One(c)])
     \/ Raised /\ End("raised", <<>>)

\* Leaving the pool takes until all its threads are done.
PoolDone ==
  /\ AllOver
  /\ \/ pc = "pool" /\ Finish([c \in 1..n |-> One(c)])
     \/ pc = "leaving" /\ End("interrupted", <<>>)

\* Mutant: the retries swallow the interrupt.
Interrupt_Retried ==
  /\ signals < MaxSignals /\ signals' = signals + 1
  /\ pc \in {"intent", "plan", "batch", "serial"}
  /\ \E c \in Calls : /\ call[c].st = "asking" /\ Runs(c)
                      /\ call' = [call EXCEPT ![c] = After(c, "transient")]
  /\ UNCHANGED <<setup, pc, n, open, profile, result>>

\* A signal interrupts the thread that called propose.  If that one waits for the
\* pool, it first leaves the pool, until another signal ends this wait, too.
Interrupt ==
  /\ signals < MaxSignals /\ signals' = signals + 1
  /\ pc \in {"intent", "plan", "batch", "serial", "pool", "leaving"}
  /\ pc' = CASE pc = "pool" -> "leaving" [] pc = "leaving" -> "deserted"
              [] OTHER -> "interrupted"
  /\ profile' = IF pc = "pool" THEN profile ELSE "base"
  /\ UNCHANGED <<setup, n, call, open, result>>

Main == Start \/ IntentDone \/ PlanDone \/ BatchDone \/ SerialDone \/ PoolDone
Thread(c) == Begin(c) \/ Retry(c) \/ Deadline(c)

\* All is quiet.
Quiet == Ended /\ (pc = "deserted" => AllOver /\ open = {}) /\ UNCHANGED vars

Next ==
  \/ Main \/ \E c \in Calls : Thread(c)
  \/ \E r \in open : Answer(r)
  \/ Interrupt
  \/ Quiet

\* The threads run on and the clock goes on; the server owes nothing.
Fairness == WF_vars(Main) /\ \A c \in Calls : WF_vars(Thread(c))

Spec == Init /\ [][Next]_vars /\ Fairness

-----------------------------------------------------------------------------
(* Properties. *)

\* A call sends no more than its tries, and as many again in text mode.
TypeOK ==
  /\ setup \in Setups /\ n \in Samples /\ signals \in 0..MaxSignals
  /\ pc \in {"start", "intent", "plan", "batch", "pool", "serial", "leaving",
             "returned", "raised", "interrupted", "deserted"}
  /\ \A c \in Calls :
       /\ call[c].st \in {"new", "asking", "resting", "over"}
       /\ call[c].left \in 0..setup.tries /\ call[c].json \in BOOLEAN
       /\ call[c].no <= IF Json(c) /\ c # Batch THEN 2 * setup.tries ELSE setup.tries
       /\ \A i \in 1..Len(call[c].got) : call[c].got[i].is \in Outcomes
  /\ \A r \in open : r.of \in Calls /\ r.no \in 1..call[r.of].no
  /\ profile \in {"base", "variant"}

\* The last request sent for just this sample, or for the batch.
Own(i) == {[of |-> c, no |-> call[c].no] : c \in ({i} \cap 1..n) \cup {Batch}}

\* Every candidate propose returns was made of the answer to the last request sent
\* for just this sample, or for the batch, and not of one that had been given up,
\* and it was read under the profile its prompt was written for.  There is one for
\* each sample; only a batch has more.
OwnAnswers ==
  /\ TypeOK
  /\ pc = "returned" =>
       /\ Len(result) >= n
       /\ \A i \in 1..Len(result) : result[i] # Nothing =>
            result[i].as = Asked /\ result[i].from \in Own(i) \ open
       /\ Len(result) > n => \A i \in 1..Len(result) : result[i].from.of = Batch

\* A call that stalls leaves one connection behind, however often it is tried:
\* requests that nobody waits for do not pile up at the server.
OneStallPerCall ==
  \A c \in Calls : Cardinality({r \in open : r.of = c}) <= 1

\* After a signal the retries stop at once, unless the draw is in the pool.
InterruptHeeded ==
  [][signals > 0 /\ ~InPool => \A c \in Calls : call'[c].no = call[c].no]_vars

\* propose comes to an end, whatever the server does or does not do.
Ends == <>Ended
=============================================================================
