--------------------------- MODULE ModelCallsProofs ---------------------------
(***************************************************************************)
(* Proofs about the calls of a draw, for any number of samples, tries,     *)
(* threads and signals, and any configurations.                            *)
(*                                                                         *)
(* The argument.  An attempt is sent only when the one before was answered, *)
(* and a call that was given up sends no more: so the only request of a    *)
(* call that may be open is its last (OpenIsLast), what a call has for an  *)
(* answer was made of it (Answers), and what is left of its tries bounds   *)
(* what it has sent (Attempts).  Intents and plans come before the samples *)
(* (Order), so that the profile and the number of samples do not change    *)
(* while answers come in.                                                  *)
(***************************************************************************)
EXTENDS ModelCalls, FiniteSetTheorems, TLAPS

Places == {"start", "intent", "plan", "batch", "pool", "serial", "leaving",
           "returned", "raised", "interrupted", "deserted"}
States == {"new", "asking", "resting", "over"}
Profiles == {"base", "variant"}

Request == [of : Calls, no : Nat]
Cand == [from : Request, is : Outcomes, as : Profiles]
CallRecord == [st : States, json : BOOLEAN, left : Nat, no : Nat, got : Seq(Cand)]

Typed ==
  /\ setup \in Setups /\ n \in Samples /\ signals \in 0..MaxSignals
  /\ pc \in Places /\ profile \in Profiles
  /\ call \in [Calls -> CallRecord] /\ open \subseteq Request /\ result \in Seq(Cand)

\* The most requests of a call, and of what it has been so far.
Most(c) == IF Json(c) /\ c # Batch THEN 2 * setup.tries ELSE setup.tries
Tries(c) == IF call[c].json THEN setup.tries ELSE Most(c)

Attempt(c) ==
  /\ call[c].json => Json(c)
  /\ call[c].left <= setup.tries
  /\ call[c].st = "new" => call[c].no = 0
  /\ call[c].st = "asking" =>
       call[c].left >= 1 /\ call[c].no >= 1 /\ call[c].no + call[c].left <= Tries(c) + 1
  /\ call[c].st = "resting" => call[c].left >= 1 /\ call[c].no + call[c].left <= Tries(c)
  /\ call[c].st = "over" => call[c].no <= Most(c)
  /\ call[c].st # "over" => call[c].got = <<>>

Attempts == \A c \in Calls : Attempt(c)

OpenIsLast ==
  \A r \in open : r.no >= 1 /\ r.no = call[r.of].no /\ call[r.of].st \in {"asking", "over"}

Drawing == pc \in {"intent", "plan", "batch", "pool", "serial"}

Answered(c) ==
  /\ \A i \in 1..Len(call[c].got) :
       /\ call[c].got[i].from = [of |-> c, no |-> call[c].no]
       /\ call[c].got[i].from \notin open
       /\ Drawing => call[c].got[i].as = Asked
  /\ c = Batch /\ call[c].got # << >> => Len(call[c].got) >= n
  /\ c \in Samples => Len(call[c].got) <= 1

Answers == \A c \in Calls : Answered(c)

Order ==
  /\ pc = "start" => \A c \in Calls : call[c].st = "new"
  /\ pc \in {"intent", "plan"} => call[Batch].st = "new"
  /\ Drawing => profile = Asked
  /\ signals > 0 => pc \in {"leaving", "deserted", "interrupted"}

\* What propose may return: part of OwnAnswers.
Fit(candidates) ==
  /\ Len(candidates) >= n
  /\ \A i \in 1..Len(candidates) : candidates[i] # Nothing =>
       candidates[i].as = Asked /\ candidates[i].from \in Own(i) \ open
  /\ Len(candidates) > n => \A i \in 1..Len(candidates) : candidates[i].from.of = Batch

Returned == pc = "returned" => Fit(result)

Inv == Typed /\ Attempts /\ OpenIsLast /\ Answers /\ Order /\ Returned

-------------------------------------------------------------------------------
(* Numbers and types. *)

LEMMA Numbers ==
  /\ N \in Nat /\ Samples = 1..N /\ Samples \subseteq Calls
  /\ Batch \in Calls /\ Intent \in Calls /\ Plan \in Calls
  /\ Batch \notin Samples /\ Intent \notin Samples /\ Plan \notin Samples
  /\ Batch # Intent /\ Batch # Plan /\ Intent # Plan
  BY CallsAssumption DEF Samples, Calls, Batch, Intent, Plan

LEMMA Chosen ==
  ASSUME Typed
  PROVE  /\ setup \in Setup /\ setup.tries \in 1..MaxTries /\ setup.tries \in Nat
         /\ setup.samples \in Samples /\ setup.want \in Samples /\ n \in Nat
         /\ 1..n \subseteq Samples
         /\ \A c \in Calls : Json(c) \in BOOLEAN
         /\ Asked \in Profiles
  BY CallsAssumption DEF Typed, Setup, Samples, Json, Asked, Profiles

\* One call changes, the others do not.
LEMMA OneCall ==
  ASSUME Typed, NEW c \in Calls, NEW k \in CallRecord, call' = [call EXCEPT ![c] = k]
  PROVE  /\ call' \in [Calls -> CallRecord] /\ call'[c] = k
         /\ \A d \in Calls : d # c => call'[d] = call[d]
  BY DEF Typed

LEMMA SentCall ==
  ASSUME Typed, NEW c \in Calls, NEW j \in BOOLEAN, NEW l \in Nat, Send(c, j, l)
  PROVE  /\ call' \in [Calls -> CallRecord]
         /\ call'[c].st = "asking" /\ call'[c].json = j /\ call'[c].left = l
         /\ call'[c].no = call[c].no + 1 /\ call'[c].got = call[c].got
         /\ \A d \in Calls : d # c => call'[d] = call[d]
<1> DEFINE k == [call[c] EXCEPT !.st = "asking", !.json = j, !.left = l, !.no = @ + 1]
<1>1. call[c] \in CallRecord
  BY DEF Typed
<1>2. k \in CallRecord
  <2> DEFINE m == call[c].no + 1
  <2>1. m \in Nat
    BY <1>1 DEF CallRecord
  <2>2. k = [call[c] EXCEPT !.st = "asking", !.json = j, !.left = l, !.no = m]
    OBVIOUS
  <2> HIDE DEF m
  <2>3. [call[c] EXCEPT !.st = "asking", !.json = j, !.left = l, !.no = m] \in CallRecord
    BY <1>1, <2>1 DEF CallRecord, States
  <2> QED
    BY <2>2, <2>3
<1>3. call' = [call EXCEPT ![c] = k]
  BY <1>1 DEF Send, Typed
<1>4. /\ k.st = "asking" /\ k.json = j /\ k.left = l /\ k.no = call[c].no + 1
      /\ k.got = call[c].got
  BY <1>1 DEF CallRecord
<1> QED
  BY <1>2, <1>3, <1>4, OneCall

LEMMA MadeIs ==
  ASSUME Typed, NEW r \in Request, NEW m \in Nat, NEW texts \in [1..m -> Texts]
  PROVE  /\ Made(r, texts) \in Seq(Cand) /\ Len(Made(r, texts)) = m
         /\ \A i \in 1..m : Made(r, texts)[i].from = r /\ Made(r, texts)[i].as = profile
<1>1. Len(texts) = m
  OBVIOUS
<1>2. \A i \in 1..m : Candidate(texts[i], texts[1]) \in Outcomes
  BY DEF Candidate, Outcomes
<1>3. Made(r, texts) =
        [i \in 1..m |-> [from |-> r, is |-> Candidate(texts[i], texts[1]), as |-> profile]]
  BY <1>1 DEF Made
<1>4. \A i \in 1..m : [from |-> r, is |-> Candidate(texts[i], texts[1]), as |-> profile] \in Cand
  BY <1>2 DEF Cand, Typed
<1> QED
  BY <1>3, <1>4

-------------------------------------------------------------------------------
(* The calls. *)

\* A call runs only in its place of the draw.
LEMMA Running ==
  ASSUME Typed, NEW c \in Calls, Turn(c) \/ Runs(c)
  PROVE  /\ pc \in {"intent", "plan", "batch", "pool", "serial", "leaving", "deserted"}
         /\ c = Batch <=> pc = "batch"
         /\ c \in Samples => pc \notin {"intent", "plan"}
  BY Numbers DEF Turn, Runs, InPool, Calls

LEMMA MostTries ==
  ASSUME Typed, NEW c \in Calls
  PROVE  /\ setup.tries \in Nat /\ setup.tries >= 1
         /\ Most(c) \in Nat /\ setup.tries <= Most(c)
         /\ Tries(c) \in Nat /\ Tries(c) <= Most(c)
  BY Chosen DEF Most, Tries

\* A first request, or one after a pause, of a call that has none open.
LEMMA SendKeeps ==
  ASSUME Inv, NEW c \in Calls, NEW j \in BOOLEAN, NEW l \in Nat, Send(c, j, l),
         \/ call[c].st = "new" /\ j = Json(c) /\ l = setup.tries
         \/ call[c].st = "resting" /\ j = call[c].json /\ l = call[c].left,
         Turn(c) \/ Runs(c),
         UNCHANGED <<setup, pc, n, profile, result, signals>>
  PROVE  Inv'
<1> DEFINE last == [of |-> c, no |-> call[c].no + 1]
<1>0. Typed /\ Attempt(c)
  BY DEF Inv, Attempts
<1>1. /\ call' \in [Calls -> CallRecord]
      /\ call'[c].st = "asking" /\ call'[c].json = j /\ call'[c].left = l
      /\ call'[c].no = call[c].no + 1 /\ call'[c].got = call[c].got
      /\ \A d \in Calls : d # c => call'[d] = call[d]
  BY <1>0, SentCall
<1>2. open' = open \cup {last}
  BY DEF Send
<1>3. call[c] \in CallRecord /\ call[c].no \in Nat /\ call[c].left \in Nat
  BY <1>0 DEF Typed, CallRecord
<1>4. last \in Request /\ last.of = c /\ last.no = call[c].no + 1
  BY <1>3 DEF Request
<1> HIDE DEF last
<1>5. Typed'
  BY <1>0, <1>1, <1>2, <1>4 DEF Typed
<1>6. \A d \in Calls : /\ Json(d)' = Json(d) /\ Most(d)' = Most(d)
                       /\ d # c => Tries(d)' = Tries(d)
  BY <1>1 DEF Json, Most, Tries
<1>7. call[c].got = << >>
  BY <1>0 DEF Attempt
<1>8. Attempts'
  <2>1. Attempt(c)'
    <3>1. Json(c) \in BOOLEAN /\ Tries(c)' = IF j THEN setup.tries ELSE Most(c)
      BY <1>0, <1>1, <1>6, Chosen DEF Tries
    <3>2. call[c].no + 1 + l <= (IF j THEN setup.tries ELSE Most(c)) + 1
          /\ l >= 1 /\ l <= setup.tries /\ (j => Json(c))
      BY <1>0, <1>3, <3>1, MostTries DEF Attempt, Tries
    <3> QED
      BY <1>1, <1>3, <1>6, <1>7, <3>1, <3>2 DEF Attempt
  <2>2. ASSUME NEW d \in Calls, d # c
        PROVE  Attempt(d)'
    BY <1>1, <1>6, <2>2 DEF Inv, Attempts, Attempt
  <2> QED
    BY <2>1, <2>2 DEF Attempts
<1>9. \A r \in open : r.of \in Calls /\ r.of # c
  <2>1. ASSUME NEW r \in open, r.of = c
        PROVE  FALSE
    BY <2>1 DEF Inv, OpenIsLast
  <2> QED
    BY <1>0, <2>1 DEF Typed, Request
<1>10. OpenIsLast'
  BY <1>1, <1>2, <1>3, <1>4, <1>9 DEF Inv, OpenIsLast
<1>11. Answers'
  <2>1. Answered(c)'
    BY <1>1, <1>7 DEF Answered
  <2>2. ASSUME NEW d \in Calls, d # c
        PROVE  Answered(d)'
    <3>1. ASSUME NEW i \in 1..Len(call[d].got)
          PROVE  call[d].got[i].from # last
      <4>1. call[d].got[i].from = [of |-> d, no |-> call[d].no]
        BY <3>1 DEF Inv, Answers, Answered
      <4> QED
        BY <1>4, <2>2, <4>1
    <3> QED
      BY <1>1, <1>2, <2>2, <3>1 DEF Inv, Answers, Answered, Drawing, Asked
  <2> QED
    BY <2>1, <2>2 DEF Answers
<1>12. Order'
  BY <1>0, <1>1, Running, Numbers DEF Inv, Order, Drawing, Asked
<1>13. Returned'
  BY <1>0, Running DEF Returned
<1> QED
  BY <1>5, <1>8, <1>10, <1>11, <1>12, <1>13 DEF Inv

LEMMA ThreadSends ==
  ASSUME Inv, NEW c \in Calls, Begin(c) \/ Retry(c)
  PROVE  Inv'
<1>0. Typed /\ call[c] \in CallRecord
  BY DEF Inv, Typed
<1>1. CASE Begin(c)
  BY <1>0, <1>1, Chosen, SendKeeps DEF Begin
<1>2. CASE Retry(c)
  BY <1>0, <1>2, SendKeeps DEF Retry, CallRecord
<1> QED
  BY <1>1, <1>2

\* The end of an attempt: the call is over, or pauses for the next.
LEMMA SettleKeeps ==
  ASSUME Inv, NEW c \in Calls, call[c].st = "asking", Runs(c),
         NEW k \in CallRecord, call' = [call EXCEPT ![c] = k], open' \subseteq open,
         k.st \in {"over", "resting"}, k.no = call[c].no,
         k.json => Json(c), k.left <= setup.tries,
         k.st = "resting" =>
           /\ k.left >= 1 /\ k.no + k.left <= IF k.json THEN setup.tries ELSE Most(c)
           /\ k.got = << >> /\ \A r \in open' : r.of # c,
         k.got # << >> =>
           /\ \A r \in open' : r.of # c
           /\ \A i \in 1..Len(k.got) :
                k.got[i].from = [of |-> c, no |-> k.no] /\ k.got[i].as = profile
           /\ IF c = Batch THEN Len(k.got) >= n ELSE Len(k.got) = 1,
         UNCHANGED <<setup, pc, n, profile, result, signals>>
  PROVE  Inv'
<1>0. Typed /\ Attempt(c) /\ call[c] \in CallRecord
  BY DEF Inv, Attempts, Typed
<1>1. /\ call' \in [Calls -> CallRecord] /\ call'[c] = k
      /\ \A d \in Calls : d # c => call'[d] = call[d]
  BY <1>0, OneCall
<1>2. Typed'
  BY <1>0, <1>1 DEF Typed
<1>3. \A d \in Calls : /\ Json(d)' = Json(d) /\ Most(d)' = Most(d)
                       /\ d # c => Tries(d)' = Tries(d)
  BY <1>1 DEF Json, Most, Tries
<1>4. Attempts'
  <2>1. Attempt(c)'
    <3>1. k.no <= Most(c)
      BY <1>0, MostTries DEF Attempt, CallRecord
    <3>2. k.st # "asking" /\ k.st # "new"
      OBVIOUS
    <3>3. Tries(c)' = IF k.json THEN setup.tries ELSE Most(c)
      BY <1>1, <1>3 DEF Tries
    <3> QED
      BY <1>1, <1>3, <3>1, <3>2, <3>3 DEF Attempt
  <2>2. ASSUME NEW d \in Calls, d # c
        PROVE  Attempt(d)'
    BY <1>1, <1>3, <2>2 DEF Inv, Attempts, Attempt
  <2> QED
    BY <2>1, <2>2 DEF Attempts
<1>5. OpenIsLast'
  <2> SUFFICES ASSUME NEW r \in open'
               PROVE  r.no >= 1 /\ r.no = call'[r.of].no /\ call'[r.of].st \in {"asking", "over"}
    BY DEF OpenIsLast
  <2>1. /\ r \in open /\ r.of \in Calls /\ r.no >= 1 /\ r.no = call[r.of].no
        /\ call[r.of].st \in {"asking", "over"}
    BY <1>0 DEF Inv, OpenIsLast, Typed, Request
  <2> QED
    BY <1>1, <2>1
<1>6. Answers'
  <2>1. Answered(c)'
    <3>1. CASE k.got = << >>
      BY <1>1, <3>1 DEF Answered
    <3>2. CASE k.got # << >>
      <4>1. ASSUME NEW i \in 1..Len(k.got)
            PROVE  /\ k.got[i].from = [of |-> c, no |-> k.no] /\ k.got[i].from \notin open'
                   /\ Drawing => k.got[i].as = Asked
        <5>1. k.got[i].from.of = c
          BY <3>2, <4>1
        <5> QED
          BY <3>2, <4>1, <5>1 DEF Inv, Order
      <4>2. (c = Batch => Len(k.got) >= n) /\ (c # Batch => Len(k.got) = 1)
        BY <3>2
      <4> QED
        BY <1>1, <4>1, <4>2, Numbers DEF Answered, Drawing, Asked
    <3> QED
      BY <3>1, <3>2
  <2>2. ASSUME NEW d \in Calls, d # c
        PROVE  Answered(d)'
    BY <1>1, <2>2 DEF Inv, Answers, Answered, Drawing, Asked
  <2> QED
    BY <2>1, <2>2 DEF Answers
<1>7. Order'
  BY <1>0, <1>1, Running, Numbers DEF Inv, Order, Drawing, Asked
<1>8. Returned'
  BY <1>0, Running DEF Returned
<1> QED
  BY <1>2, <1>4, <1>5, <1>6, <1>7, <1>8 DEF Inv

\* What a call makes of an error.
LEMMA AfterIs ==
  ASSUME Inv, NEW c \in Calls, call[c].st = "asking", NEW e \in Errors,
         e = "format" => call[c].json
  PROVE  LET k == After(c, e) IN
         /\ k \in CallRecord /\ k.st \in {"over", "resting"} /\ k.no = call[c].no
         /\ k.json => Json(c)
         /\ k.left <= setup.tries /\ k.got = << >>
         /\ k.st = "resting" =>
              k.left >= 1 /\ k.no + k.left <= IF k.json THEN setup.tries ELSE Most(c)
<1>0. /\ Typed /\ Attempt(c) /\ call[c] \in CallRecord /\ call[c].left \in Nat /\ call[c].no \in Nat
      /\ call[c].json \in BOOLEAN /\ << >> \in Seq(Cand)
  BY DEF Inv, Attempts, Typed, CallRecord
<1>1. /\ setup.tries \in Nat /\ setup.tries >= 1 /\ Tries(c) \in Nat
      /\ Tries(c) = IF call[c].json THEN setup.tries ELSE Most(c)
  BY <1>0, MostTries DEF Tries
<1>2. /\ call[c].left >= 1 /\ call[c].left <= setup.tries /\ call[c].got = << >>
      /\ call[c].no + call[c].left <= Tries(c) + 1 /\ (call[c].json => Json(c))
  BY <1>0 DEF Attempt
<1>3. CASE e = "transient" /\ call[c].left > 1
  <2> DEFINE m == call[c].left - 1
             k == [call[c] EXCEPT !.st = "resting", !.left = m]
  <2>1. m \in Nat /\ m >= 1 /\ m <= setup.tries /\ call[c].no + m <= Tries(c)
    BY <1>0, <1>1, <1>2, <1>3
  <2>2. After(c, e) = k
    BY <1>3 DEF After
  <2> HIDE DEF m
  <2>3. /\ k \in CallRecord /\ k.st = "resting" /\ k.left = m /\ k.no = call[c].no
        /\ k.json = call[c].json /\ k.got = call[c].got
    BY <1>0, <2>1 DEF CallRecord, States
  <2> HIDE DEF k
  <2> QED
    BY <1>1, <1>2, <2>1, <2>2, <2>3
<1>4. CASE e = "format" /\ c # Batch
  <2> DEFINE k == [call[c] EXCEPT !.st = "resting", !.json = FALSE, !.left = setup.tries]
  <2>1. After(c, e) = k
    BY <1>4 DEF After
  <2>2. /\ k \in CallRecord /\ k.st = "resting" /\ k.left = setup.tries /\ k.no = call[c].no
        /\ k.json = FALSE /\ k.got = call[c].got
    BY <1>0, <1>1 DEF CallRecord, States
  <2>3. call[c].no <= setup.tries /\ Most(c) = 2 * setup.tries
    BY <1>0, <1>1, <1>2, <1>4 DEF Most
  <2> HIDE DEF k
  <2> QED
    BY <1>0, <1>1, <1>2, <2>1, <2>2, <2>3
<1>5. CASE ~(e = "transient" /\ call[c].left > 1) /\ ~(e = "format" /\ c # Batch)
  <2> DEFINE k == [call[c] EXCEPT !.st = "over", !.got = << >>]
  <2>1. After(c, e) = k
    BY <1>5 DEF After, Over
  <2>2. /\ k \in CallRecord /\ k.st = "over" /\ k.left = call[c].left /\ k.no = call[c].no
        /\ k.json = call[c].json /\ k.got = << >>
    BY <1>0 DEF CallRecord, States
  <2> HIDE DEF k
  <2> QED
    BY <1>2, <2>1, <2>2
<1> QED
  BY <1>3, <1>4, <1>5

LEMMA OverIs ==
  ASSUME Typed, NEW c \in Calls, NEW got \in Seq(Cand)
  PROVE  /\ Over(c, got) \in CallRecord /\ Over(c, got).st = "over" /\ Over(c, got).got = got
         /\ Over(c, got).no = call[c].no /\ Over(c, got).left = call[c].left
         /\ Over(c, got).json = call[c].json
<1>1. call[c] \in CallRecord
  BY DEF Typed
<1> QED
  BY <1>1 DEF Over, CallRecord, States

LEMMA DeadlineKeeps ==
  ASSUME Inv, NEW c \in Calls, Deadline(c)
  PROVE  Inv'
<1> DEFINE k == Over(c, << >>)
<1>0. Typed /\ Attempt(c) /\ << >> \in Seq(Cand)
  BY DEF Inv, Attempts
<1>1. /\ k \in CallRecord /\ k.st = "over" /\ k.got = << >> /\ k.no = call[c].no
      /\ k.left = call[c].left /\ k.json = call[c].json
  BY <1>0, OverIs
<1>2. /\ call[c].st = "asking" /\ Runs(c) /\ call' = [call EXCEPT ![c] = k]
      /\ UNCHANGED <<setup, pc, n, open, profile, result, signals>>
  BY DEF Deadline
<1>3. (k.json => Json(c)) /\ k.left <= setup.tries
  BY <1>0, <1>1 DEF Attempt
<1> HIDE DEF k
<1> QED
  BY <1>1, <1>2, <1>3, SettleKeeps

\* An answer is read by the call that waits for it, in the attempt it belongs to;
\* no request of that call is open then.
LEMMA AnswerKeeps ==
  ASSUME Inv, NEW r \in open, Answer(r)
  PROVE  Inv'
<1>0. Typed /\ r \in Request
  BY DEF Inv, Typed
<1>1. /\ open' = open \ {r} /\ UNCHANGED <<setup, pc, n, profile, result, signals>>
  BY DEF Answer
<1>2. CASE call' = call
  <2>1. Typed' /\ Attempts'
    BY <1>0, <1>1, <1>2 DEF Inv, Typed, Attempts, Attempt, Tries, Most, Json
  <2>2. OpenIsLast' /\ Answers' /\ Order' /\ Returned'
    BY <1>1, <1>2 DEF Inv, OpenIsLast, Answers, Answered, Drawing, Asked, Order, Returned,
           Fit, Own
  <2> QED
    BY <2>1, <2>2 DEF Inv
<1>3. ASSUME NEW c \in Readers(r), call' # call
      PROVE  Inv'
  <2>1. c \in Calls /\ c = r.of /\ r.no = call[c].no /\ call[c].st = "asking" /\ Runs(c)
    BY DEF Readers
  <2>2. \A q \in open' : q.of # c
    <3>1. ASSUME NEW q \in open, q.of = c
          PROVE  q = r
      <4>1. q \in Request /\ q.no = r.no /\ q.of = r.of
        BY <1>0, <2>1, <3>1 DEF Inv, OpenIsLast, Typed
      <4> QED
        BY <1>0, <4>1 DEF Request
    <3> QED
      BY <1>1, <3>1
  <2>3. r = [of |-> c, no |-> call[c].no]
    BY <1>0, <2>1 DEF Request
  <2>4. Attempt(c)
    BY <2>1 DEF Inv, Attempts
  <2>5. ASSUME NEW texts \in Responses(c), call' = [call EXCEPT ![c] = Over(c, Made(r, texts))]
        PROVE  Inv'
    <3> DEFINE k == Over(c, Made(r, texts))
    <3>1. PICK m \in Nat : /\ texts \in [1..m -> Texts]
                           /\ IF c = Batch THEN m >= n ELSE m = 1
      <4>1. CASE c = Batch
        <5>1. Responses(Batch) = UNION {[1..m -> Texts] : m \in n..(n + MaxExtra)}
          BY Numbers DEF Responses
        <5>2. PICK m \in n..(n + MaxExtra) : texts \in [1..m -> Texts]
          BY <4>1, <5>1
        <5>3. m \in Nat /\ m >= n
          BY <1>0, Chosen, CallsAssumption
        <5> QED
          BY <4>1, <5>2, <5>3
      <4>2. CASE c # Batch /\ c \in Samples
        BY <4>2 DEF Responses
      <4>3. CASE c # Batch /\ c \notin Samples
        <5>1. texts = <<"plain">>
          BY <4>3 DEF Responses
        <5>2. <<"plain">> \in [1..1 -> Texts]
          BY DEF Texts
        <5> QED
          BY <4>3, <5>1, <5>2
      <4> QED
        BY <4>1, <4>2, <4>3
    <3>2. /\ Made(r, texts) \in Seq(Cand) /\ Len(Made(r, texts)) = m
          /\ \A i \in 1..m : Made(r, texts)[i].from = r /\ Made(r, texts)[i].as = profile
      BY <1>0, <3>1, MadeIs
    <3>3. /\ k \in CallRecord /\ k.st = "over" /\ k.got = Made(r, texts) /\ k.no = call[c].no
          /\ k.left = call[c].left /\ k.json = call[c].json
      BY <1>0, <2>1, <3>2, OverIs
    <3>4. (k.json => Json(c)) /\ k.left <= setup.tries
      BY <2>4, <3>3 DEF Attempt
    <3> HIDE DEF k
    <3>5. call' = [call EXCEPT ![c] = k]
      BY <2>5 DEF k
    <3>6. /\ \A i \in 1..Len(k.got) :
               k.got[i].from = [of |-> c, no |-> k.no] /\ k.got[i].as = profile
          /\ IF c = Batch THEN Len(k.got) >= n ELSE Len(k.got) = 1
      BY <2>3, <3>1, <3>2, <3>3
    <3> QED
      BY <1>1, <2>1, <2>2, <3>3, <3>4, <3>5, <3>6, SettleKeeps
  <2>6. ASSUME NEW e \in Errors, e = "format" => call[c].json,
               call' = [call EXCEPT ![c] = After(c, e)]
        PROVE  Inv'
    <3> DEFINE k == After(c, e)
    <3>1. /\ k \in CallRecord /\ k.st \in {"over", "resting"} /\ k.no = call[c].no
          /\ k.json => Json(c)
          /\ k.left <= setup.tries /\ k.got = << >>
          /\ k.st = "resting" =>
               k.left >= 1 /\ k.no + k.left <= IF k.json THEN setup.tries ELSE Most(c)
      BY <2>1, <2>6, AfterIs
    <3>2. call' = [call EXCEPT ![c] = k]
      BY <2>6
    <3> HIDE DEF k
    <3> QED
      BY <1>1, <2>1, <2>2, <3>1, <3>2, SettleKeeps
  <2>7. c = r.of /\ Readers(r) # {}
    BY <2>1, <1>3
  <2>8. \A d \in Readers(r) : d = c
    BY <2>1 DEF Readers
  <2>9. \/ \E texts \in Responses(c) : call' = [call EXCEPT ![c] = Over(c, Made(r, texts))]
        \/ \E e \in Errors : /\ e = "format" => call[c].json
                             /\ call' = [call EXCEPT ![c] = After(c, e)]
    BY <2>7, <2>8 DEF Answer
  <2> QED
    BY <2>5, <2>6, <2>9
<1> QED
  BY <1>2, <1>3 DEF Answer

-------------------------------------------------------------------------------
(* The draw. *)

\* The thread that called propose goes on, with the calls as they are.
LEMMA GoingKeeps ==
  ASSUME Inv, UNCHANGED <<setup, call, open, result, signals>>,
         pc \in {"start", "intent", "plan", "batch"},
         pc' \in {"intent", "plan", "batch", "pool", "serial"},
         pc' \in {"intent", "plan"} => pc \in {"start", "intent"},
         profile' = IF pc = "start" THEN Asked ELSE profile,
         n' \in Samples, pc = "batch" => n' = n
  PROVE  Inv'
<1>0. Typed
  BY DEF Inv
<1>1. Typed'
  BY <1>0, Chosen DEF Typed, Places
<1>2. Attempts' /\ OpenIsLast'
  BY DEF Inv, Attempts, Attempt, Tries, Most, Json, OpenIsLast
<1>3. Answers'
  <2> SUFFICES ASSUME NEW c \in Calls
               PROVE  Answered(c)'
    BY DEF Answers
  <2>1. pc = "start" \/ (c = Batch /\ pc # "batch") => call[c].got = << >>
    BY DEF Inv, Order, Attempts, Attempt
  <2>2. CASE call[c].got = << >>
    BY <2>2 DEF Answered
  <2>3. CASE pc # "start" /\ (c = Batch => n' = n)
    BY <2>3 DEF Inv, Answers, Answered, Drawing, Asked
  <2> QED
    BY <2>1, <2>2, <2>3
<1>4. Order'
  BY Numbers DEF Inv, Order, Drawing, Asked
<1>5. Returned'
  BY DEF Returned
<1> QED
  BY <1>1, <1>2, <1>3, <1>4, <1>5 DEF Inv

\* The end of a draw: what is returned, if it is, is the batch's answer or one
\* candidate of each sample.
LEMMA EndKeeps ==
  ASSUME Inv, NEW candidates \in Seq(Cand), pc \notin {"start", "returned"},
         \/ \E how \in {"raised", "interrupted"} : End(how, << >>) /\ (signals > 0 => how # "raised")
         \/ End("returned", candidates) /\ Drawing /\ Fit(candidates)
  PROVE  Inv'
<1>0. Typed /\ << >> \in Seq(Cand)
  BY DEF Inv
<1>1. /\ UNCHANGED <<setup, n, call, open, signals>> /\ profile' = "base"
      /\ result' \in Seq(Cand) /\ pc' \in {"raised", "interrupted", "returned"}
      /\ signals > 0 => pc' = "interrupted"
  BY <1>0 DEF End, Inv, Order, Drawing
<1>2. Typed'
  BY <1>0, <1>1 DEF Typed, Places, Profiles
<1>3. Attempts' /\ OpenIsLast' /\ Answers'
  BY <1>1 DEF Inv, Attempts, Attempt, Tries, Most, Json, OpenIsLast, Answers, Answered, Drawing
<1>4. Order'
  BY <1>1 DEF Order, Drawing
<1>5. Returned'
  BY <1>1 DEF Returned, Fit, Own, End, Asked
<1> QED
  BY <1>2, <1>3, <1>4, <1>5 DEF Inv

\* One candidate for each sample: of its call's last request, or none.
LEMMA OneEach ==
  ASSUME Inv, Drawing
  PROVE  LET candidates == [c \in 1..n |-> One(c)] IN
         candidates \in Seq(Cand) /\ Len(candidates) = n /\ Fit(candidates)
<1>0. Typed /\ n \in Nat /\ 1..n \subseteq Samples /\ Samples \subseteq Calls
  BY Chosen, Numbers DEF Inv
<1>1. Nothing \in Cand
  BY Numbers DEF Nothing, Cand, Request, Outcomes, Profiles, Batch
<1>2. ASSUME NEW i \in 1..n
      PROVE  /\ One(i) \in Cand
             /\ One(i) # Nothing =>
                  /\ One(i).as = Asked /\ One(i).from \notin open
                  /\ One(i).from = [of |-> i, no |-> call[i].no]
  <2>1. i \in Calls /\ call[i].got \in Seq(Cand)
    BY <1>0 DEF Typed, CallRecord
  <2>2. CASE call[i].got = << >>
    BY <1>1, <2>2 DEF One
  <2>3. CASE call[i].got # << >>
    <3>1. One(i) = call[i].got[1] /\ 1 \in 1..Len(call[i].got)
      BY <2>1, <2>3 DEF One
    <3> QED
      BY <2>1, <3>1 DEF Inv, Answers, Answered
  <2> QED
    BY <2>2, <2>3
<1>3. \A c \in 1..n : One(c) \in Cand
  BY <1>2
<1> DEFINE candidates == [c \in 1..n |-> One(c)]
<1>4. /\ candidates \in Seq(Cand) /\ Len(candidates) = n
      /\ \A i \in 1..n : candidates[i] = One(i)
  BY <1>0, <1>3
<1>5. \A i \in 1..n : [of |-> i, no |-> call[i].no] \in Own(i)
  BY DEF Own
<1> HIDE DEF candidates
<1>6. ASSUME NEW i \in 1..n, candidates[i] # Nothing
      PROVE  candidates[i].as = Asked /\ candidates[i].from \in Own(i) \ open
  BY <1>2, <1>4, <1>5, <1>6
<1>7. ~(n > n)
  BY <1>0
<1> QED
  BY <1>0, <1>4, <1>6, <1>7 DEF Fit, candidates

LEMMA DrawPlaces ==
  ASSUME NEW k
  PROVE  Draw(k) \in {"serial", "batch", "pool"} /\ Propose(k) \in {"serial", "batch", "pool"}
  BY DEF Draw, Propose

LEMMA PlanKeeps ==
  ASSUME Inv, Start \/ IntentDone \/ PlanDone
  PROVE  Inv'
<1>0. Typed /\ n \in Samples /\ setup.samples \in Samples
  BY Chosen DEF Inv, Typed
<1>1. CASE Start
  <2>1. pc' = "intent" \/ pc' = Propose(n)
    BY <1>1 DEF Start, Goes
  <2> QED
    BY <1>0, <1>1, <2>1, DrawPlaces, GoingKeeps DEF Start, Goes
<1>2. CASE IntentDone
  <2>1. \/ pc' = Propose(setup.samples) /\ n' = setup.samples
        \/ (pc' = "plan" \/ pc' = Draw(n)) /\ n' = n
    BY <1>2 DEF IntentDone, Goes
  <2> QED
    BY <1>0, <1>2, <2>1, DrawPlaces, GoingKeeps DEF IntentDone, Goes
<1>3. CASE PlanDone
  <2>1. \/ pc' = Draw(n) /\ n' = n
        \/ pc' \in {"pool", "serial"} /\ n' \in 2..n
    BY <1>3 DEF PlanDone, Goes
  <2>2. 2..n \subseteq Samples
    BY <1>0, Numbers
  <2> QED
    BY <1>0, <1>3, <2>1, <2>2, DrawPlaces, GoingKeeps DEF PlanDone, Goes
<1> QED
  BY <1>1, <1>2, <1>3

\* A draw does not end in an exception after a signal: it is interrupted.
LEMMA DrawingIsUndisturbed ==
  ASSUME Inv, Drawing
  PROVE  ~(signals > 0)
  BY DEF Inv, Order, Drawing

LEMMA DoneKeeps ==
  ASSUME Inv, BatchDone \/ SerialDone \/ PoolDone
  PROVE  Inv'
<1>0. Typed /\ << >> \in Seq(Cand)
  BY DEF Inv
<1>1. CASE BatchDone
  <2>1. pc = "batch" /\ Drawing /\ Batch \in Calls
    BY <1>1, Numbers DEF BatchDone, Drawing
  <2> DEFINE got == call[Batch].got
  <2>2. CASE got = << >>
    <3>1. Goes("pool") /\ UNCHANGED <<n, profile>>
      BY <1>1, <2>2 DEF BatchDone
    <3>2. n \in Samples
      BY <1>0 DEF Typed
    <3> QED
      BY <2>1, <3>1, <3>2, GoingKeeps DEF Goes
  <2>3. CASE got # << >>
    <3>1. End("raised", << >>) \/ End("returned", got)
      BY <1>1, <2>3 DEF BatchDone, Finish
    <3>2. got \in Seq(Cand)
      BY <1>0, <2>1 DEF Typed, CallRecord
    <3>3. Len(got) >= n
      BY <2>1, <2>3 DEF Inv, Answers, Answered
    <3>4. \A i \in 1..Len(got) : /\ got[i].as = Asked /\ got[i].from \notin open
                                 /\ got[i].from = [of |-> Batch, no |-> call[Batch].no]
      BY <2>1 DEF Inv, Answers, Answered
    <3>5. \A i : [of |-> Batch, no |-> call[Batch].no] \in Own(i)
      BY DEF Own
    <3> HIDE DEF got
    <3>6. Fit(got)
      BY <3>3, <3>4, <3>5 DEF Fit
    <3> QED
      BY <2>1, <3>1, <3>2, <3>6, DrawingIsUndisturbed, EndKeeps
  <2> QED
    BY <2>2, <2>3
<1>2. CASE Drawing /\ Finish([c \in 1..n |-> One(c)])
  <2> DEFINE candidates == [c \in 1..n |-> One(c)]
  <2>1. End("raised", << >>) \/ End("returned", candidates)
    BY <1>2 DEF Finish
  <2>2. candidates \in Seq(Cand) /\ Fit(candidates)
    BY <1>2, OneEach
  <2>3. pc \notin {"start", "returned"}
    BY <1>2 DEF Drawing
  <2> HIDE DEF candidates
  <2> QED
    BY <1>2, <2>1, <2>2, <2>3, DrawingIsUndisturbed, EndKeeps
<1>3. CASE pc = "serial" /\ End("raised", << >>)
  BY <1>0, <1>3, DrawingIsUndisturbed, EndKeeps DEF Drawing
<1>4. CASE pc = "leaving" /\ End("interrupted", << >>)
  BY <1>0, <1>4, EndKeeps
<1> QED
  BY <1>1, <1>2, <1>3, <1>4 DEF SerialDone, PoolDone, Drawing

LEMMA InterruptKeeps ==
  ASSUME Inv, Interrupt
  PROVE  Inv'
<1>0. Typed
  BY DEF Inv
<1>1. /\ UNCHANGED <<setup, n, call, open, result>> /\ profile' \in {profile, "base"}
      /\ pc' \in {"leaving", "deserted", "interrupted"} /\ signals' \in 0..MaxSignals
  BY <1>0, CallsAssumption DEF Interrupt, Typed
<1>2. Typed'
  BY <1>0, <1>1 DEF Typed, Places, Profiles
<1>3. Attempts' /\ OpenIsLast' /\ Answers'
  BY <1>1 DEF Inv, Attempts, Attempt, Tries, Most, Json, OpenIsLast, Answers, Answered, Drawing
<1>4. Order' /\ Returned'
  BY <1>1 DEF Order, Drawing, Returned
<1> QED
  BY <1>2, <1>3, <1>4 DEF Inv

-------------------------------------------------------------------------------
(* The theorems. *)

LEMMA InvInit == Init => Inv
<1> SUFFICES ASSUME Init
             PROVE  Inv
  OBVIOUS
<1>1. << >> \in Seq(Cand)
  OBVIOUS
<1>2. NewCall \in CallRecord
  BY <1>1 DEF NewCall, CallRecord, States
<1>3. Typed
  BY <1>1, <1>2, CallsAssumption DEF Init, Typed, Setup, Samples, Places, Profiles
<1>4. \A c \in Calls : call[c] = NewCall
  BY DEF Init
<1>5. \A c \in Calls : /\ call[c].st = "new" /\ call[c].no = 0 /\ call[c].json = FALSE
                       /\ call[c].left = 0 /\ call[c].got = << >>
  BY <1>4 DEF NewCall
<1>6. Attempts
  BY <1>3, <1>5, Chosen DEF Attempts, Attempt
<1>7. OpenIsLast /\ Answers
  BY <1>5 DEF Init, OpenIsLast, Answers, Answered
<1>8. Order /\ Returned
  BY <1>5 DEF Init, Order, Drawing, Returned
<1> QED
  BY <1>3, <1>6, <1>7, <1>8 DEF Inv

LEMMA InvStep == Inv /\ [Next]_vars => Inv'
<1> SUFFICES ASSUME Inv, [Next]_vars
             PROVE  Inv'
  OBVIOUS
<1>1. CASE Main
  BY <1>1, PlanKeeps, DoneKeeps DEF Main
<1>2. CASE \E c \in Calls : Thread(c)
  BY <1>2, ThreadSends, DeadlineKeeps DEF Thread
<1>3. CASE \E r \in open : Answer(r)
  BY <1>3, AnswerKeeps
<1>4. CASE Interrupt
  BY <1>4, InterruptKeeps
<1>5. CASE UNCHANGED vars
  BY <1>5 DEF vars, Inv, Typed, Attempts, Attempt, Tries, Most, Json, OpenIsLast, Answers, Answered,
              Drawing, Asked, Order, Returned,
           Fit, Own
<1> QED
  BY <1>1, <1>2, <1>3, <1>4, <1>5 DEF Next, Quiet

\* The only open request of a call is its last, what a call has for an answer was
\* made of it, and a signal leaves no place of the draw but its end and the pool.
THEOREM CallsInvariant == Spec => []Inv
<1> QED
  BY InvInit, InvStep, PTL DEF Spec

LEMMA TypesFollow == Inv => TypeOK
<1> SUFFICES ASSUME Inv
             PROVE  TypeOK
  OBVIOUS
<1>0. Typed
  BY DEF Inv
<1>1. ASSUME NEW c \in Calls
      PROVE  /\ call[c].st \in {"new", "asking", "resting", "over"}
             /\ call[c].left \in 0..setup.tries /\ call[c].json \in BOOLEAN
             /\ call[c].no <= IF Json(c) /\ c # Batch THEN 2 * setup.tries ELSE setup.tries
             /\ \A i \in 1..Len(call[c].got) : call[c].got[i].is \in Outcomes
  <2>1. call[c] \in CallRecord /\ Attempt(c)
    BY <1>0 DEF Inv, Attempts, Typed
  <2>2. call[c].no <= Most(c)
    BY <1>0, <2>1, MostTries DEF Attempt, CallRecord, States
  <2>3. \A i \in 1..Len(call[c].got) : call[c].got[i] \in Cand
    BY <2>1 DEF CallRecord
  <2> QED
    BY <1>0, <2>1, <2>2, <2>3, Chosen DEF Attempt, CallRecord, States, Cand, Most
<1>2. \A r \in open : r.of \in Calls /\ r.no \in 1..call[r.of].no
  BY <1>0 DEF Inv, OpenIsLast, Typed, Request
<1> QED
  BY <1>0, <1>1, <1>2 DEF Typed, TypeOK, Places, Profiles

\* Every candidate propose returns was made of the answer to the last request of
\* its own sample or of the batch, not of one that was given up, and under the
\* profile its prompt was written for; and no call sends more than its tries.
THEOREM CandidatesAreOwn == Spec => []OwnAnswers
<1>1. Inv => OwnAnswers
  BY TypesFollow DEF Inv, Returned, Fit, OwnAnswers
<1> QED
  BY <1>1, CallsInvariant, PTL

\* However a call is tried, fails and is given up, it leaves at most one
\* connection behind.
THEOREM OneConnectionPerCall == Spec => []OneStallPerCall
<1>1. ASSUME Inv, NEW c \in Calls
      PROVE  Cardinality({r \in open : r.of = c}) <= 1
  <2> DEFINE mine == {r \in open : r.of = c}
             last == [of |-> c, no |-> call[c].no]
  <2>1. ASSUME NEW r \in mine
        PROVE  r = last
    <3>1. r \in Request /\ r.of = c /\ r.no = call[c].no
      BY <1>1, <2>1 DEF Inv, OpenIsLast, Typed
    <3> QED
      BY <3>1 DEF Request
  <2>2. mine = {} \/ mine = {last}
    BY <2>1
  <2> HIDE DEF mine
  <2>3. Cardinality(mine) <= 1
    BY <2>2, FS_EmptySet, FS_Singleton
  <2> QED
    BY <2>3 DEF mine
<1>2. Inv => OneStallPerCall
  BY <1>1 DEF OneStallPerCall
<1> QED
  BY <1>2, CallsInvariant, PTL

\* After a signal no call sends anything more, unless the draw is in the pool: the
\* retries do not swallow the interrupt.
THEOREM SignalsAreHeeded == Spec => InterruptHeeded
<1>1. ASSUME Inv, Next, signals > 0, ~InPool
      PROVE  \A c \in Calls : call'[c].no = call[c].no
  <2>1. pc = "interrupted"
    <3>1. pc \in {"leaving", "deserted", "interrupted"}
      BY <1>1 DEF Inv, Order
    <3> QED
      BY <1>1, <3>1 DEF InPool
  <2>2. Typed
    BY <1>1 DEF Inv
  <2>3. ~ \E c \in Calls : Thread(c)
    BY <2>1, <2>2, Running DEF Thread, Begin, Retry, Deadline
  <2>4. ~ \E r \in open : Answer(r)
    BY <2>1 DEF Answer, Ended
  <2>5. UNCHANGED call
    BY <1>1, <2>1, <2>3, <2>4
       DEF Next, Main, Start, IntentDone, PlanDone, BatchDone, SerialDone, PoolDone, Interrupt,
           Quiet, vars
  <2> QED
    BY <2>5
<1>2. Inv /\ [Next]_vars
        => [signals > 0 /\ ~InPool => \A c \in Calls : call'[c].no = call[c].no]_vars
  BY <1>1
<1> QED
  BY <1>2, CallsInvariant, PTL DEF Spec, InterruptHeeded
====
