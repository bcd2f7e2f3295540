------------------------ MODULE DecisionLoop_proofs -------------------------
(***************************************************************************)
(* What one attempt at a turn keeps, for every catalog, every screening    *)
(* file, every chain and any number of steps.  First the model chain: its  *)
(* calls are accounted for rightly, whatever the network replies.  Then    *)
(* the loop: its frames and its actions are accounted for, what it shows   *)
(* is proven clean, the backstop is exact, and the record tells what       *)
(* happened.                                                               *)
(***************************************************************************)
EXTENDS DecisionLoop, FiniteSetTheorems, TLAPS

(* What the accounting needs to be inductive: no failure is of a model the *)
(* chain has not come to, the model being called has refused no context,   *)
(* and the failure being judged is the last one.                           *)
Placed ==
  /\ \A i \in DOMAIN failures : failures[i].model <= model
  /\ phase = "calling" =>
       \A i \in DOMAIN failures :
         failures[i].model = model => failures[i].outcome # "context_rejected"
  /\ phase = "failed" =>
       /\ failures # <<>>
       /\ failures[Len(failures)].model = model
       /\ failures[Len(failures)].attempt = attempt

ChainInv == ChainTypeOK /\ RetryCountTrue /\ SpentBeforeFallback /\ Placed

ChainStep == ChainNext \/ (phase \notin {"calling", "failed"} /\ CompleteStep)

EventType == [type : {"provider_failure", "context_rejected", "provider_retry",
                      "provider_fallback", "model_chain_exhausted"},
              model : 1..ChainLength, attempt : 1..MaxAttempts]

-----------------------------------------------------------------------------
(* A failure of the call under way is a failure record. *)
LEMMA FailureMade ==
  ASSUME ChainTypeOK, NEW r \in Replies \cap DOMAIN Outcome,
         Outcome[r] # "decision_returned"
  PROVE  [model |-> model, attempt |-> attempt, outcome |-> Outcome[r]] \in Failure
<1>1. Outcome[r] \in Failed
  BY DEF Failed
<1>. QED  BY <1>1 DEF ChainTypeOK, Failure

(* The events of the model being tried are events of the log. *)
LEMMA EventMade ==
  ASSUME ChainTypeOK
  PROVE  /\ \A type \in {"provider_failure", "context_rejected", "provider_retry",
                         "provider_fallback", "model_chain_exhausted"} :
              Event(type) \in EventType
         /\ Rejection \in Seq(EventType)
<1>1. \A type \in {"provider_failure", "context_rejected", "provider_retry",
                   "provider_fallback", "model_chain_exhausted"} : Event(type) \in EventType
  BY DEF Event, EventType, ChainTypeOK
<1>. QED  BY <1>1 DEF Rejection

(* What failing once more appends. *)
LEMMA AppendedFailures ==
  ASSUME ChainTypeOK, NEW f \in Failure, failures' = Append(failures, f)
  PROVE  /\ failures' \in Seq(Failure)
         /\ Len(failures') = Len(failures) + 1
         /\ DOMAIN failures' = DOMAIN failures \cup {Len(failures) + 1}
         /\ \A i \in DOMAIN failures : failures'[i] = failures[i] /\ i < Len(failures) + 1
         /\ failures'[Len(failures) + 1] = f
BY DEF ChainTypeOK

(* The numbers the account compares are naturals. *)
LEMMA AccountNumbers ==
  ASSUME ChainTypeOK
  PROVE  /\ model \in Nat /\ attempt \in Nat
         /\ \A i \in DOMAIN failures : failures[i].model \in Nat /\ failures[i].attempt \in Nat
<1>1. \A i \in DOMAIN failures : failures[i] \in Failure
  BY DEF ChainTypeOK
<1>2. (1..ChainLength) \subseteq Nat /\ (1..MaxAttempts) \subseteq Nat
  OBVIOUS
<1>. QED  BY <1>1, <1>2 DEF ChainTypeOK, Failure

-----------------------------------------------------------------------------
LEMMA InitInv == ChainInit => ChainInv
<1>. SUFFICES ASSUME ChainInit PROVE ChainInv
  OBVIOUS
<1>1. ChainTypeOK
  BY ChainAssumption DEF ChainInit, ChainTypeOK
<1>2. RetryCountTrue /\ SpentBeforeFallback /\ Placed
  BY DEF ChainInit, RetryCountTrue, SpentBeforeFallback, Placed
<1>. QED  BY <1>1, <1>2 DEF ChainInv

LEMMA ResetInv == CompleteStep => ChainInv'
<1>. SUFFICES ASSUME CompleteStep PROVE ChainInv'
  OBVIOUS
<1>1. ChainTypeOK'
  BY ChainAssumption DEF CompleteStep, ChainTypeOK
<1>2. (RetryCountTrue /\ SpentBeforeFallback /\ Placed)'
  BY DEF CompleteStep, RetryCountTrue, SpentBeforeFallback, Placed
<1>. QED  BY <1>1, <1>2 DEF ChainInv

(* A call that fails adds the newest failure, of the model being tried. *)
LEMMA CallFailsInv == ChainInv /\ CallFails => ChainInv'
<1>. SUFFICES ASSUME ChainInv, CallFails PROVE ChainInv'
  OBVIOUS
<1>0. ChainTypeOK /\ RetryCountTrue /\ SpentBeforeFallback /\ Placed
  BY DEF ChainInv
<1>. PICK r \in Replies \cap DOMAIN Outcome :
       /\ Outcome[r] # "decision_returned"
       /\ failures' =
          Append(failures, [model |-> model, attempt |-> attempt, outcome |-> Outcome[r]])
  BY DEF CallFails
<1>. DEFINE f == [model |-> model, attempt |-> attempt, outcome |-> Outcome[r]]
<1>1. f \in Failure
  BY <1>0, FailureMade
<1>2. f.model = model /\ f.attempt = attempt
  OBVIOUS
<1>. HIDE DEF f
<1>3. /\ failures' \in Seq(Failure)
      /\ Len(failures') = Len(failures) + 1
      /\ DOMAIN failures' = DOMAIN failures \cup {Len(failures) + 1}
      /\ \A i \in DOMAIN failures : failures'[i] = failures[i] /\ i < Len(failures) + 1
      /\ failures'[Len(failures) + 1] = f
  BY <1>0, <1>1, AppendedFailures DEF f
<1>4. /\ phase = "calling" /\ phase' = "failed" /\ model' = model /\ attempt' = attempt
      /\ prior' = prior + 1 /\ log' = Append(log, Event("provider_failure"))
  BY DEF CallFails
<1>5. ChainTypeOK'
  <2>1. log' \in Seq(EventType)
    BY <1>0, <1>4, EventMade DEF ChainTypeOK, EventType
  <2>. QED  BY <1>0, <1>3, <1>4, <2>1 DEF ChainTypeOK, EventType
<1>6. RetryCountTrue'
  <2>1. \A i \in DOMAIN failures' : i < Len(failures) + 1 => i \in DOMAIN failures
    BY <1>0, <1>3 DEF ChainTypeOK
  <2>2. \A i, j \in DOMAIN failures' :
          i < j => LexLess(failures'[i].model, failures'[i].attempt,
                           failures'[j].model, failures'[j].attempt)
    <3>. TAKE i, j \in DOMAIN failures'
    <3>. HAVE i < j
    <3>1. CASE j = Len(failures) + 1
      <4>1. i \in DOMAIN failures
        BY <2>1, <3>1
      <4>. QED  BY <1>0, <1>2, <1>3, <1>4, <3>1, <4>1 DEF RetryCountTrue
    <3>2. CASE j \in DOMAIN failures
      <4>1. i \in DOMAIN failures
        BY <1>0, <1>3, <3>2 DEF ChainTypeOK
      <4>. QED  BY <1>0, <1>3, <3>2, <4>1 DEF RetryCountTrue
    <3>. QED  BY <1>3, <3>1, <3>2
  <2>3. prior' = Len(failures')
    BY <1>0, <1>3, <1>4 DEF RetryCountTrue
  <2>. QED  BY <1>4, <2>2, <2>3 DEF RetryCountTrue
<1>7. SpentBeforeFallback'
  <2>1. \A i, j \in DOMAIN failures' :
          (i < j /\ failures'[i].outcome = "context_rejected") =>
             failures'[i].model # failures'[j].model
    BY <1>0, <1>2, <1>3, <1>4 DEF SpentBeforeFallback, Placed, ChainTypeOK
  <2>2. \A m \in 1..(model - 1) :
          \E i \in DOMAIN failures' :
             /\ failures'[i].model = m
             /\ failures'[i].attempt = MaxAttempts \/ failures'[i].outcome = "context_rejected"
    BY <1>0, <1>3, <1>4 DEF SpentBeforeFallback
  <2>. QED  BY <1>4, <2>1, <2>2 DEF SpentBeforeFallback
<1>8. Placed'
  BY <1>0, <1>2, <1>3, <1>4 DEF Placed, ChainTypeOK
<1>. QED  BY <1>5, <1>6, <1>7, <1>8 DEF ChainInv

(* The same model is asked again: its last failure was no refusal. *)
LEMMA RetryInv == ChainInv /\ Retry => ChainInv'
<1>. SUFFICES ASSUME ChainInv, Retry PROVE ChainInv'
  OBVIOUS
<1>0. ChainTypeOK /\ RetryCountTrue /\ SpentBeforeFallback /\ Placed
  BY DEF ChainInv
<1>1. /\ phase = "failed" /\ phase' = "calling" /\ attempt' = attempt + 1
      /\ model' = model /\ prior' = prior /\ failures' = failures
      /\ log' = Append(log, Event("provider_retry"))
      /\ attempt # MaxAttempts
      /\ failures[Len(failures)].outcome # "context_rejected"
  BY DEF Retry, Spent, Rejected
<1>2. /\ failures \in Seq(Failure) /\ failures # <<>> /\ Len(failures) \in DOMAIN failures
      /\ \A i \in DOMAIN failures : i # Len(failures) => i < Len(failures)
  BY <1>0, <1>1 DEF ChainTypeOK, Placed
<1>3. ChainTypeOK'
  <2>1. log' \in Seq(EventType)
    BY <1>0, <1>1, EventMade DEF ChainTypeOK, EventType
  <2>. QED  BY <1>0, <1>1, <2>1, ChainAssumption DEF ChainTypeOK, EventType
<1>4. /\ model \in Nat /\ attempt \in Nat
      /\ \A i \in DOMAIN failures : failures[i].model \in Nat /\ failures[i].attempt \in Nat
  BY <1>0, AccountNumbers
<1>5. RetryCountTrue'
  <2>1. \A i \in DOMAIN failures : LexLess(failures[i].model, failures[i].attempt, model, attempt + 1)
    <3>. TAKE i \in DOMAIN failures
    <3>1. CASE i = Len(failures)
      BY <1>0, <1>1, <1>4, <3>1 DEF Placed, LexLess
    <3>2. CASE i # Len(failures)
      <4>1. LexLess(failures[i].model, failures[i].attempt, model, attempt)
        BY <1>0, <1>1, <1>2, <3>2 DEF RetryCountTrue, Placed
      <4>. QED  BY <1>4, <4>1 DEF LexLess
    <3>. QED  BY <3>1, <3>2
  <2>. QED  BY <1>0, <1>1, <2>1 DEF RetryCountTrue
<1>6. SpentBeforeFallback'
  BY <1>0, <1>1 DEF SpentBeforeFallback
<1>7. Placed'
  BY <1>0, <1>1, <1>2 DEF Placed, SpentBeforeFallback
<1>. QED  BY <1>3, <1>5, <1>6, <1>7 DEF ChainInv

(* The next model is asked: the last failure is what spent this one. *)
LEMMA FallbackInv == ChainInv /\ Fallback => ChainInv'
<1>. SUFFICES ASSUME ChainInv, Fallback PROVE ChainInv'
  OBVIOUS
<1>0. ChainTypeOK /\ RetryCountTrue /\ SpentBeforeFallback /\ Placed
  BY DEF ChainInv
<1>1. /\ phase = "failed" /\ phase' = "calling" /\ attempt' = 1
      /\ model' = model + 1 /\ model < ChainLength /\ prior' = prior /\ failures' = failures
      /\ log' = log \o Rejection \o <<Event("provider_fallback")>>
      /\ \/ failures[Len(failures)].outcome = "context_rejected"
         \/ attempt = MaxAttempts
  BY DEF Fallback, Spent, Rejected
<1>2. failures \in Seq(Failure) /\ failures # <<>> /\ Len(failures) \in DOMAIN failures
  BY <1>0, <1>1 DEF ChainTypeOK, Placed
<1>3. ChainTypeOK'
  <2>1. log' \in Seq(EventType)
    BY <1>0, <1>1, EventMade DEF ChainTypeOK, EventType
  <2>. QED  BY <1>0, <1>1, <2>1, ChainAssumption DEF ChainTypeOK, EventType
<1>4. \A i \in DOMAIN failures : failures[i].model < model'
  BY <1>0, <1>1, AccountNumbers DEF Placed
<1>5. RetryCountTrue'
  BY <1>0, <1>1, <1>4 DEF RetryCountTrue, LexLess
<1>6. SpentBeforeFallback'
  <2>1. \A m \in 1..model :
          \E i \in DOMAIN failures :
             /\ failures[i].model = m
             /\ failures[i].attempt = MaxAttempts \/ failures[i].outcome = "context_rejected"
    <3>. TAKE m \in 1..model
    <3>1. CASE m = model
      BY <1>0, <1>1, <1>2, <3>1 DEF Placed
    <3>2. CASE m # model
      BY <1>0, <1>1, <3>2 DEF SpentBeforeFallback, ChainTypeOK
    <3>. QED  BY <3>1, <3>2
  <2>. QED  BY <1>0, <1>1, <2>1 DEF SpentBeforeFallback, ChainTypeOK
<1>7. Placed'
  BY <1>0, <1>1, <1>4, AccountNumbers DEF Placed
<1>. QED  BY <1>3, <1>5, <1>6, <1>7 DEF ChainInv

(* The chain gives up: every model of it is spent. *)
LEMMA ExhaustedInv == ChainInv /\ Exhausted => ChainInv'
<1>. SUFFICES ASSUME ChainInv, Exhausted PROVE ChainInv'
  OBVIOUS
<1>0. ChainTypeOK /\ RetryCountTrue /\ SpentBeforeFallback /\ Placed
  BY DEF ChainInv
<1>1. /\ phase = "failed" /\ phase' = "exhausted" /\ attempt' = attempt
      /\ model' = model /\ model = ChainLength /\ prior' = prior /\ failures' = failures
      /\ log' = log \o Rejection \o <<Event("model_chain_exhausted")>>
      /\ \/ failures[Len(failures)].outcome = "context_rejected"
         \/ attempt = MaxAttempts
  BY DEF Exhausted, Spent, Rejected
<1>2. failures \in Seq(Failure) /\ failures # <<>> /\ Len(failures) \in DOMAIN failures
  BY <1>0, <1>1 DEF ChainTypeOK, Placed
<1>3. ChainTypeOK'
  <2>1. log' \in Seq(EventType)
    BY <1>0, <1>1, EventMade DEF ChainTypeOK, EventType
  <2>. QED  BY <1>0, <1>1, <2>1 DEF ChainTypeOK, EventType
<1>4. RetryCountTrue' /\ Placed'
  BY <1>0, <1>1 DEF RetryCountTrue, Placed
<1>5. SpentBeforeFallback'
  <2>1. \A m \in 1..ChainLength :
          \E i \in DOMAIN failures :
             /\ failures[i].model = m
             /\ failures[i].attempt = MaxAttempts \/ failures[i].outcome = "context_rejected"
    <3>. TAKE m \in 1..ChainLength
    <3>1. CASE m = model
      BY <1>0, <1>1, <1>2, <3>1 DEF Placed
    <3>2. CASE m # model
      BY <1>0, <1>1, <3>2, ChainAssumption DEF SpentBeforeFallback, ChainTypeOK
    <3>. QED  BY <3>1, <3>2
  <2>. QED  BY <1>0, <1>1, <2>1 DEF SpentBeforeFallback
<1>. QED  BY <1>3, <1>4, <1>5 DEF ChainInv

(* A call that returns, or raises, changes nothing of the account. *)
LEMMA SettlesInv ==
  ASSUME ChainInv, phase = "calling", phase' \in {"served", "raised"},
         UNCHANGED <<model, attempt, prior, failures, log>>
  PROVE  ChainInv'
BY DEF ChainInv, ChainTypeOK, RetryCountTrue, SpentBeforeFallback, Placed

LEMMA StepInv == ChainInv /\ [ChainStep]_chainVars => ChainInv'
<1>. SUFFICES ASSUME ChainInv, [ChainStep]_chainVars PROVE ChainInv'
  OBVIOUS
<1>1. CASE UNCHANGED chainVars
  BY <1>1 DEF chainVars, ChainInv, ChainTypeOK, RetryCountTrue,
     SpentBeforeFallback, Placed
<1>2. CASE Served \/ CallRaises
  BY <1>2, SettlesInv DEF Served, CallRaises
<1>3. CASE CallFails
  BY <1>3, CallFailsInv
<1>4. CASE Retry
  BY <1>4, RetryInv
<1>5. CASE Fallback
  BY <1>5, FallbackInv
<1>6. CASE Exhausted
  BY <1>6, ExhaustedInv
<1>7. CASE CompleteStep
  BY <1>7, ResetInv
<1>. QED  BY <1>1, <1>2, <1>3, <1>4, <1>5, <1>6, <1>7 DEF ChainStep, ChainNext

LEMMA Inductive == ChainSpec => []ChainInv
<1>1. ChainInv /\ [ChainNext \/ (phase \notin {"calling", "failed"} /\ CompleteStep)]_chainVars
        => ChainInv'
  BY StepInv DEF ChainStep
<1>. QED  BY InitInv, <1>1, PTL DEF ChainSpec

-----------------------------------------------------------------------------
(* The log.  A log in which each failure is followed by what was done      *)
(* about it, for the same model.                                           *)
OfType(s, type) == {i \in DOMAIN s : s[i].type = type}
Answered(s) ==
  \A i \in DOMAIN s :
    i < Len(s) /\ s[i].type = "provider_failure" =>
       s[i + 1].type # "provider_failure" /\ s[i + 1].model = s[i].model

(* The log is told as far as the chain has come: only while a failure is   *)
(* being judged is it the last event, not yet answered.                    *)
LogTold ==
  /\ log \in Seq(EventType)
  /\ \A type \in {"provider_failure", "provider_fallback", "model_chain_exhausted"} :
       IsFiniteSet(OfType(log, type))
  /\ Cardinality(OfType(log, "provider_failure")) = prior
  /\ Cardinality(OfType(log, "provider_fallback")) = model - 1
  /\ phase = "exhausted" <=> OfType(log, "model_chain_exhausted") # {}
  /\ Answered(log)
  /\ phase = "failed" =>
       Len(log) > 0 /\ log[Len(log)].type = "provider_failure" /\ log[Len(log)].model = model
  /\ phase # "failed" /\ Len(log) > 0 => log[Len(log)].type # "provider_failure"

(* One event more: what it adds to the events of a type, and that it       *)
(* answers a failure it follows.                                           *)
LEMMA EventAdded ==
  ASSUME NEW s \in Seq(EventType), NEW e \in EventType, NEW type,
         IsFiniteSet(OfType(s, type))
  PROVE  /\ IsFiniteSet(OfType(Append(s, e), type))
         /\ e.type = type =>
              /\ OfType(Append(s, e), type) # {}
              /\ Cardinality(OfType(Append(s, e), type)) = Cardinality(OfType(s, type)) + 1
         /\ e.type # type => OfType(Append(s, e), type) = OfType(s, type)
<1> DEFINE t == Append(s, e)
<1>1. /\ DOMAIN s = 1 .. Len(s) /\ DOMAIN t = DOMAIN s \cup {Len(s) + 1}
      /\ Len(s) + 1 \notin DOMAIN s
      /\ \A i \in DOMAIN s : t[i] = s[i]
      /\ t[Len(s) + 1] = e
  OBVIOUS
<1> HIDE DEF t
<1>2. ASSUME e.type = type PROVE OfType(t, type) = OfType(s, type) \cup {Len(s) + 1}
  BY <1>1, <1>2 DEF OfType
<1>3. ASSUME e.type # type PROVE OfType(t, type) = OfType(s, type)
  BY <1>1, <1>3 DEF OfType
<1>4. Len(s) + 1 \notin OfType(s, type)
  BY <1>1 DEF OfType
<1>5. CASE e.type = type
  <2>1. Cardinality(OfType(t, type)) = Cardinality(OfType(s, type)) + 1 /\ IsFiniteSet(OfType(t, type))
    BY <1>2, <1>4, <1>5, FS_AddElement
  <2> QED  BY <1>2, <1>5, <2>1 DEF t
<1>6. CASE e.type # type
  BY <1>3, <1>6 DEF t
<1> QED  BY <1>5, <1>6

LEMMA AnswerAdded ==
  ASSUME NEW s \in Seq(EventType), NEW e \in EventType, Answered(s),
         Len(s) > 0 /\ s[Len(s)].type = "provider_failure" =>
            e.type # "provider_failure" /\ e.model = s[Len(s)].model
  PROVE  /\ Append(s, e) \in Seq(EventType) /\ Answered(Append(s, e))
         /\ Len(Append(s, e)) > 0 /\ Append(s, e)[Len(Append(s, e))] = e
<1> DEFINE t == Append(s, e)
<1>1. /\ DOMAIN s = 1 .. Len(s) /\ Len(s) \in Nat /\ Len(t) = Len(s) + 1 /\ DOMAIN t = 1 .. Len(t)
      /\ \A i \in 1 .. Len(s) : t[i] = s[i]
      /\ t[Len(s) + 1] = e /\ t \in Seq(EventType)
  OBVIOUS
<1> HIDE DEF t
<1>2. ASSUME NEW i \in DOMAIN t, i < Len(t), t[i].type = "provider_failure"
      PROVE  t[i + 1].type # "provider_failure" /\ t[i + 1].model = t[i].model
  <2>1. CASE i < Len(s)
    BY <1>1, <1>2, <2>1 DEF Answered
  <2>2. CASE i = Len(s)
    BY <1>1, <1>2, <2>2
  <2> QED  BY <1>1, <1>2, <2>1, <2>2
<1>3. Answered(t)
  BY <1>2 DEF Answered
<1> QED  BY <1>1, <1>3 DEF t

(* A log of nothing. *)
LEMMA NothingLogged ==
  /\ \A type : OfType(<<>>, type) = {} /\ IsFiniteSet({}) /\ Cardinality({}) = 0
  /\ <<>> \in Seq(EventType) /\ Answered(<<>>) /\ Len(<<>>) = 0
<1>1. \A type : OfType(<<>>, type) = {}
  BY DEF OfType
<1>2. Answered(<<>>)
  BY DEF Answered
<1>3. IsFiniteSet({}) /\ Cardinality({}) = 0
  BY FS_EmptySet
<1> QED  BY <1>1, <1>2, <1>3

(* A request starts, and a chain that returned leaves, an empty log. *)
LEMMA LogFresh ==
  /\ ChainInit => LogTold
  /\ CompleteStep \/ ChainReturns => LogTold'
<1>1. ASSUME ChainInit PROVE LogTold
  <2>1. phase = "idle" /\ model = 1 /\ prior = 0 /\ log = <<>>
    BY <1>1 DEF ChainInit
  <2>2. /\ \A type : OfType(log, type) = {} /\ IsFiniteSet(OfType(log, type))
        /\ \A type : Cardinality(OfType(log, type)) = 0
        /\ log \in Seq(EventType) /\ Answered(log) /\ Len(log) = 0
    BY <2>1, NothingLogged
  <2> QED  BY <2>1, <2>2 DEF LogTold
<1>2. ASSUME CompleteStep \/ ChainReturns PROVE LogTold'
  <2>1. /\ phase' \in {"calling", "idle"} /\ model' = 1 /\ prior' = 0 /\ log' = <<>>
    BY <1>2 DEF CompleteStep, ChainReturns
  <2>2. /\ \A type : OfType(log', type) = {} /\ IsFiniteSet(OfType(log', type))
        /\ \A type : Cardinality(OfType(log', type)) = 0
        /\ log' \in Seq(EventType) /\ Answered(log') /\ Len(log') = 0
    BY <2>1, NothingLogged
  <2> QED  BY <2>1, <2>2 DEF LogTold
<1> QED  BY <1>1, <1>2

(* What judging a failed call writes: at most that the context was         *)
(* rejected, then what is done.                                            *)
LEMMA Judged ==
  ASSUME ChainTypeOK, LogTold, phase = "failed",
         NEW type \in {"provider_retry", "provider_fallback", "model_chain_exhausted"},
         NEW s, s = log \/ s = log \o Rejection,
         log' = Append(s, Event(type))
  PROVE  /\ log' \in Seq(EventType) /\ Answered(log')
         /\ Len(log') > 0 /\ log'[Len(log')].type = type
         /\ \A k \in {"provider_failure", "provider_fallback", "model_chain_exhausted"} :
              /\ IsFiniteSet(OfType(log', k))
              /\ k = type => Cardinality(OfType(log', k)) = Cardinality(OfType(log, k)) + 1
              /\ k = type => OfType(log', k) # {}
              /\ k # type => OfType(log', k) = OfType(log, k)
<1> DEFINE r == Event("context_rejected")
           e == Event(type)
           Kinds == {"provider_failure", "provider_fallback", "model_chain_exhausted"}
<1>1. /\ r \in EventType /\ r.type = "context_rejected" /\ r.model = model
      /\ e \in EventType /\ e.type = type /\ e.model = model
  BY EventMade DEF Event
<1>2. s = log \/ s = Append(log, r)
  <2>1. CASE Rejection = <<>>
    BY <2>1 DEF LogTold
  <2>2. CASE Rejection = <<r>>
    BY <1>1, <2>2 DEF LogTold
  <2> QED  BY <2>1, <2>2 DEF Rejection
<1> HIDE DEF r, e
<1>3. /\ s \in Seq(EventType) /\ Answered(s) /\ Len(s) > 0
      /\ s[Len(s)].type = "provider_failure" => s[Len(s)].model = model
      /\ \A k \in Kinds : IsFiniteSet(OfType(s, k)) /\ OfType(s, k) = OfType(log, k)
  <2>1. CASE s = log
    BY <2>1 DEF LogTold
  <2>2. CASE s = Append(log, r)
    <3>1. /\ s \in Seq(EventType) /\ Answered(s) /\ Len(s) > 0 /\ s[Len(s)] = r
      BY <1>1, <2>2, AnswerAdded DEF LogTold
    <3>2. \A k \in Kinds : IsFiniteSet(OfType(s, k)) /\ OfType(s, k) = OfType(log, k)
      BY <1>1, <2>2, EventAdded DEF LogTold
    <3> QED  BY <1>1, <3>1, <3>2
  <2> QED  BY <1>2, <2>1, <2>2
<1>4. log' = Append(s, e)
  BY DEF e
<1>5. /\ log' \in Seq(EventType) /\ Answered(log')
      /\ Len(log') > 0 /\ log'[Len(log')] = e
  BY <1>1, <1>3, <1>4, AnswerAdded
<1>6. ASSUME NEW k \in Kinds
      PROVE  /\ IsFiniteSet(OfType(log', k))
             /\ k = type => Cardinality(OfType(log', k)) = Cardinality(OfType(log, k)) + 1
             /\ k = type => OfType(log', k) # {}
             /\ k # type => OfType(log', k) = OfType(log, k)
  BY <1>1, <1>3, <1>4, EventAdded
<1> QED  BY <1>1, <1>5, <1>6

(* Every step of the chain keeps its log told. *)
LEMMA LogStep == ChainInv /\ LogTold /\ [ChainNext]_chainVars => LogTold'
<1> SUFFICES ASSUME ChainInv, LogTold, [ChainNext]_chainVars PROVE LogTold'
  OBVIOUS
<1>0. ChainTypeOK
  BY DEF ChainInv
<1>1. CASE Served \/ CallRaises \/ UNCHANGED chainVars
  <2>1. /\ UNCHANGED <<model, prior, log>>
        /\ phase' = phase \/ (phase = "calling" /\ phase' \in {"served", "raised"})
    BY <1>1 DEF Served, CallRaises, chainVars
  <2> QED  BY <2>1 DEF LogTold
<1>2. CASE CallFails
  <2> DEFINE e == Event("provider_failure")
  <2>1. e \in EventType /\ e.type = "provider_failure" /\ e.model = model
    BY <1>0, EventMade DEF Event
  <2>2. /\ phase = "calling" /\ phase' = "failed" /\ log' = Append(log, e)
        /\ prior' = prior + 1 /\ model' = model
    BY <1>2 DEF CallFails
  <2> HIDE DEF e
  <2>3. /\ log' \in Seq(EventType) /\ Answered(log') /\ Len(log') > 0 /\ log'[Len(log')] = e
    BY <2>1, <2>2, AnswerAdded DEF LogTold
  <2>4. /\ \A type \in {"provider_failure", "provider_fallback", "model_chain_exhausted"} :
             IsFiniteSet(OfType(log', type))
        /\ Cardinality(OfType(log', "provider_failure")) = prior + 1
        /\ OfType(log', "provider_fallback") = OfType(log, "provider_fallback")
        /\ OfType(log', "model_chain_exhausted") = OfType(log, "model_chain_exhausted")
    BY <2>1, <2>2, EventAdded DEF LogTold
  <2> QED  BY <2>1, <2>2, <2>3, <2>4 DEF LogTold
<1>3. CASE Retry
  <2>1. /\ phase = "failed" /\ phase' = "calling" /\ log' = Append(log, Event("provider_retry"))
        /\ UNCHANGED <<prior, model>>
    BY <1>3 DEF Retry
  <2> QED  BY <1>0, <2>1, Judged DEF LogTold
<1>4. CASE Fallback
  <2>1. /\ phase = "failed" /\ phase' = "calling" /\ prior' = prior /\ model' = model + 1
        /\ log' = log \o Rejection \o <<Event("provider_fallback")>>
    BY <1>4 DEF Fallback
  <2>2. log' = Append(log \o Rejection, Event("provider_fallback"))
    BY <1>0, <2>1, EventMade DEF LogTold
  <2>3. model \in Nat /\ prior \in Nat
    BY <1>0 DEF ChainTypeOK
  <2>4. /\ log' \in Seq(EventType) /\ Answered(log')
        /\ Len(log') > 0 /\ log'[Len(log')].type = "provider_fallback"
        /\ \A k \in {"provider_failure", "provider_fallback", "model_chain_exhausted"} :
             IsFiniteSet(OfType(log', k))
        /\ OfType(log', "provider_failure") = OfType(log, "provider_failure")
        /\ OfType(log', "model_chain_exhausted") = OfType(log, "model_chain_exhausted")
        /\ Cardinality(OfType(log', "provider_fallback"))
             = Cardinality(OfType(log, "provider_fallback")) + 1
    BY <1>0, <2>1, <2>2, Judged
  <2> QED  BY <2>1, <2>3, <2>4 DEF LogTold
<1>5. CASE Exhausted
  <2>1. /\ phase = "failed" /\ phase' = "exhausted" /\ UNCHANGED <<prior, model>>
        /\ log' = log \o Rejection \o <<Event("model_chain_exhausted")>>
    BY <1>5 DEF Exhausted
  <2>2. log' = Append(log \o Rejection, Event("model_chain_exhausted"))
    BY <1>0, <2>1, EventMade DEF LogTold
  <2> QED  BY <1>0, <2>1, <2>2, Judged DEF LogTold
<1> QED  BY <1>1, <1>2, <1>3, <1>4, <1>5 DEF ChainNext

(* The log of a settled chain tells what happened. *)
LEMMA LogIsTrue == ChainInv /\ LogTold => LogTellsChain
<1> SUFFICES ASSUME ChainInv, LogTold PROVE LogTellsChain
  OBVIOUS
<1>1. \A type : Events(type) = OfType(log, type)
  BY DEF Events, OfType
<1>2. model \in Nat \ {0} /\ prior \in Nat /\ Len(log) \in Nat /\ DOMAIN log = 1 .. Len(log)
  BY DEF ChainInv, ChainTypeOK, LogTold
<1>3. FallbackOccurred <=> Events("provider_fallback") # {}
  <2>1. OfType(log, "provider_fallback") = {} <=> model - 1 = 0
    BY FS_EmptySet DEF LogTold
  <2> QED  BY <1>1, <1>2, <2>1 DEF FallbackOccurred
<1>4. ASSUME phase # "failed", NEW i \in DOMAIN log, log[i].type = "provider_failure"
      PROVE  /\ i < Len(log) /\ log[i + 1].type # "provider_failure"
             /\ log[i + 1].model = log[i].model
  BY <1>2, <1>4 DEF LogTold, Answered
<1> QED  BY <1>1, <1>3, <1>4 DEF LogTold, LogTellsChain

-----------------------------------------------------------------------------
(* The chain's account is well typed. *)
THEOREM ChainTyped == ChainSpec => []ChainTypeOK
<1>1. ChainInv => ChainTypeOK
  BY DEF ChainInv
<1>. QED  BY Inductive, <1>1, PTL

(* retry_count is the number of calls that failed before the one that      *)
(* served, none made twice: provider/chain.py, FR-040.                     *)
THEOREM RetriesCounted == ChainSpec => []RetryCountTrue
<1>1. ChainInv => RetryCountTrue
  BY DEF ChainInv
<1>. QED  BY Inductive, <1>1, PTL

(* A model is left, and a chain exhausted, only once every model before is *)
(* spent; one that refused the context is not asked again: FR-041, FR-042. *)
THEOREM ModelsSpent == ChainSpec => []SpentBeforeFallback
<1>1. ChainInv => SpentBeforeFallback
  BY DEF ChainInv
<1>. QED  BY Inductive, <1>1, PTL

(* The accounting as a whole.                                              *)
THEOREM CallsCounted == ChainSpec => []CallsAccounted
<1>1. ChainInv => CallsAccounted
  BY DEF ChainInv, CallsAccounted
<1>. QED  BY Inductive, <1>1, PTL

-----------------------------------------------------------------------------
(* The loop.  Before the first board is read there is no frame yet. *)
Opening == pc \in {"observing", "imaging"} /\ decision = Undecided

Boards == [screen : Screens \cup {None}, after : Nat, id : Nat, assembled : Nat]
Written == [step : Nat, status : {"clean", "withheld"}, shown : BOOLEAN]
Decisions ==
  [action : DOMAIN Catalog \cup {"unlisted", None}, ends : BOOLEAN, prompt : BOOLEAN, refused : Nat]

(* The types of the loop's state. *)
LoopShape ==
  /\ pc \in Inside \cup Returned \cup Raised
  /\ host.profiles \in ProfileSets /\ Loads(host.profiles)
  /\ permitted \in BOOLEAN
  /\ comparability \in {"comparable", "visually_degraded", "not_comparable"}
  /\ step \in Nat \ {0} /\ executed \in Nat /\ streak \in Nat /\ clock \in Nat
  /\ observation \in Boards /\ fresh \in Boards
  /\ frames \in Seq(Captured) /\ captures \in Seq(Written)
  /\ decision \in Decisions /\ verdict \in {None} \cup Verdicts

(* Frames and their records come in step, in the steps' order: a record is *)
(* its frame's, and one is marked as shown when its frame was sent.        *)
InStep ==
  /\ pc \in {"routing", "calling"} => decision = Undecided
  /\ pc \in {"executing", "verifying"} => decision # Undecided
  /\ Opening => step = 1 /\ Len(frames) = 0 /\ Len(captures) = 0
  /\ pc \in Inside /\ ~Opening =>
       /\ Len(frames) = (IF pc = "verifying" THEN step + 1 ELSE step)
       /\ Len(captures) = (IF pc = "routing" THEN step - 1 ELSE step)
  /\ pc \in (Returned \cup Raised) \ {"catalog_error", "invalid_decision"} =>
       Len(captures) = Len(frames)
  /\ Len(captures) <= Len(frames)
  /\ \A k \in 1 .. Len(captures) :
       /\ captures[k].step = k /\ captures[k].status = frames[k].status
       /\ captures[k].shown <=> k \in sent

(* What is sent has been recorded, is clean and of a format a request can  *)
(* carry, on a run whose tier permits images.                              *)
SentClean ==
  \A i \in sent :
    /\ i \in 1 .. Len(captures) /\ permitted
    /\ frames[i].wire /\ frames[i].status = "clean"

(* From its request on, the images a step has are among those sent.        *)
Sending ==
  pc \in {"calling", "executing", "verifying"} \/ (pc \in {"observing", "imaging"} /\ ~Opening) =>
    (StepImages # {} => step \in sent)

(* The board of a step is newer than the last action, and an action is off *)
(* the record only until its step's bundle is written.                     *)
Authorized == {i \in DOMAIN steps : steps[i].authorized}
Pending ==
  IF verdict = "authorized" /\ pc \in {"observing", "imaging", "verifying"} THEN 1 ELSE 0
Counted ==
  /\ Cardinality(Authorized) \in Nat
  /\ pc \in Inside => executed = Cardinality(Authorized) + Pending
  /\ pc \in Returned => executed = Cardinality(Authorized)
  /\ pc = "observation_failed" => executed - Cardinality(Authorized) \in {0, 1}
  /\ pc \in {"imaging", "verifying"} => fresh.after = executed
  /\ pc \in {"routing", "calling", "executing"} => observation.after = executed
  /\ pc \in Inside /\ decision = Undecided => verdict = None
  /\ pc = "executing" => verdict = "authorized"

(* The bundles of the steps so far, each with what the step decided on.    *)
Bundles ==
  [ends : BOOLEAN, authorized : BOOLEAN, progress : {"changed_state", "rejected"}, streak : Nat,
   index : Nat, seen : Nat, images : SUBSET Nat, assembled : Nat, verified : Nat,
   listed : BOOLEAN, answers : BOOLEAN]
Bundled ==
  /\ steps \in Seq(Bundles)
  /\ Len(steps) = IF pc \in Returned THEN step
                  ELSE IF pc \in Inside \cup {"observation_failed"} THEN step - 1 ELSE 0
  /\ pc \in Inside /\ ~Opening => observation.id = step
  /\ pc = "verifying" => fresh.id = step + 1
  /\ pc \in Inside /\ verdict = "authorized" => decision.action \in DOMAIN Catalog
  /\ \A i \in DOMAIN steps :
       /\ steps[i].index = i /\ steps[i].seen = i /\ steps[i].images \subseteq {i}
       /\ steps[i].answers /\ (steps[i].authorized => steps[i].listed)
       /\ steps[i].images # {} => i \in sent

(* The backstop's count runs from the last step that changed the game.     *)
Backstop ==
  /\ \E last \in 0 .. Len(steps) :
       /\ streak = Len(steps) - last
       /\ last # 0 => steps[last].progress = "changed_state"
       /\ \A j \in (last + 1) .. Len(steps) : steps[j].progress # "changed_state"
  /\ \A i \in DOMAIN steps :
       (pc \in Returned /\ i = Len(steps)) \/ (steps[i].streak < Limit /\ ~steps[i].ends)
  /\ pc = "ended_by_agent" => Len(steps) > 0 /\ steps[Len(steps)].ends
  /\ pc = "ended_on_no_progress" =>
       Len(steps) > 0 /\ streak >= Limit /\ ~steps[Len(steps)].ends

(* A frame is clean or withheld. *)
LEMMA FrameStatus == \A f \in Captured : f.status \in {"clean", "withheld"}
<1> SUFFICES ASSUME NEW f \in Captured PROVE f.status \in {"clean", "withheld"}
  OBVIOUS
<1>1. PICK window \in BOOLEAN, tries \in [Tries -> TrySet], camera \in Camera :
        f = FrameOf(window, tries, camera)
  BY DEF Captured
<1>2. f.status = CaptureForStep(window, tries, camera, Reject).status
  BY <1>1 DEF FrameOf
<1> QED  BY <1>2 DEF CaptureForStep

(* The host does not change in an attempt, nor do the frames it can give. *)
LEMMA HostFixed == [Next]_vars => host' = host /\ Captured' = Captured
<1> SUFFICES ASSUME [Next]_vars PROVE host' = host /\ Captured' = Captured
  OBVIOUS
<1>1. host' = host
  BY DEF Next, vars, loopVars, ReadInputs, ReadFails, TakeFrame, AssemblyFails,
     Cancelled, StallOnUnknownScreen, CatalogGap, RefuseLeak, DispatchRequest,
     CallChain, NoDecision, Decide, Execute, RefuseDecision, EndsByAgent,
     EndsOnNoProgress, NextStep
<1> QED  BY <1>1 DEF Captured, FrameOf, Reject

(* The record of a frame is a capture record. *)
LEMMA RecordMade ==
  ASSUME LoopShape, NEW i \in 1 .. Len(frames), NEW shown \in BOOLEAN
  PROVE  Record(i, shown) \in Written
BY FrameStatus DEF LoopShape, Record, Written

(* Every step keeps the types. *)
LEMMA LoopShapeStep ==
  LoopShape /\ InStep /\ [Next]_vars => LoopShape'
<1> SUFFICES ASSUME LoopShape, InStep, [Next]_vars PROVE LoopShape'
  OBVIOUS
<1>0. host' = host /\ Captured' = Captured
  BY HostFixed
<1>1. CASE ReadInputs
  BY LoopAssumption, <1>0, <1>1 DEF ReadInputs, Leave, LoopShape, Inside, Boards
<1>2. CASE ReadFails
  BY LoopAssumption, <1>0, <1>2 DEF ReadFails, FailObservation, Propagate, Leave, LoopShape, Raised
<1>3. CASE TakeFrame
  <2>1. PICK frame \in Captured :
          frames' = Append(frames, frame) /\ comparability' = Downgraded(frame)
    BY <1>3 DEF TakeFrame, TakesFrame
  <2>2. frames' \in Seq(Captured) /\ Len(frames') \in Nat
    BY <2>1 DEF LoopShape
  <2>3. clock' \in Nat /\ [fresh EXCEPT !.id = Len(frames'), !.assembled = clock'] \in Boards
    <3>1. clock' \in Nat /\ fresh \in Boards
      BY <1>3 DEF TakeFrame, LoopShape
    <3> QED  BY <2>2, <3>1 DEF Boards
  <2>4. observation' \in Boards /\ fresh' \in Boards /\ pc' \in Inside
    <3>1. NoBoard \in Boards
      BY DEF NoBoard, Boards
    <3> QED  BY <1>3, <2>3, <3>1 DEF TakeFrame, Leave, LoopShape, Inside
  <2> QED
    BY <1>3, <1>0, <2>1, <2>2, <2>3, <2>4 DEF TakeFrame, LoopShape, Downgraded
<1>4. CASE AssemblyFails
  <2>1. PICK frame \in Captured :
          frames' = Append(frames, frame) /\ comparability' = Downgraded(frame)
    BY <1>4 DEF AssemblyFails, FailObservation, TakesFrame
  <2>2. /\ frames' \in Seq(Captured) /\ Len(frames') \in Nat
        /\ frames'[Len(frames')].status \in {"clean", "withheld"}
    BY <2>1, FrameStatus DEF LoopShape
  <2>3. captures' \in Seq(Written)
    BY <1>4, <2>2 DEF AssemblyFails, FailObservation, LoopShape, Written
  <2> QED
    BY <1>4, <1>0, <2>1, <2>2, <2>3 DEF AssemblyFails, FailObservation, Leave, LoopShape,
       Downgraded, Raised
<1>5. CASE Cancelled
  BY LoopAssumption, <1>0, <1>5 DEF Cancelled, Propagate, Leave, LoopShape, Raised
<1>6. CASE StallOnUnknownScreen
  <2>1. captures' = Append(captures, Record(step, FALSE)) /\ pc = "routing"
    BY <1>6 DEF StallOnUnknownScreen
  <2>0. step \in 1 .. Len(frames)
    BY <2>1 DEF InStep, Inside, Opening
  <2>2. captures' \in Seq(Written)
    <3> DEFINE r == Record(step, FALSE)
    <3>1. r \in Written /\ captures' = Append(captures, r)
      BY <2>0, <2>1, RecordMade
    <3> HIDE DEF r
    <3> QED  BY <3>1 DEF LoopShape
  <2> QED  BY <1>6, <1>0, <2>2 DEF StallOnUnknownScreen, Propagate, Leave, LoopShape, Raised
<1>7. CASE CatalogGap
  BY LoopAssumption, <1>0, <1>7 DEF CatalogGap, Propagate, Leave, LoopShape, Raised
<1>8. CASE RefuseLeak
  <2>1. captures' = Append(captures, Record(step, FALSE)) /\ pc = "routing"
    BY <1>8 DEF RefuseLeak, Propagate, Routed
  <2>0. step \in 1 .. Len(frames)
    BY <2>1 DEF InStep, Inside, Opening
  <2>2. captures' \in Seq(Written)
    <3> DEFINE r == Record(step, FALSE)
    <3>1. r \in Written /\ captures' = Append(captures, r)
      BY <2>0, <2>1, RecordMade
    <3> HIDE DEF r
    <3> QED  BY <3>1 DEF LoopShape
  <2> QED  BY <1>8, <1>0, <2>2 DEF RefuseLeak, Propagate, Leave, LoopShape, Raised
<1>9. CASE DispatchRequest
  <2>1. captures' = Append(captures, Record(step, StepImages # {})) /\ pc = "routing"
    BY <1>9 DEF DispatchRequest, Routed
  <2>0. step \in 1 .. Len(frames)
    BY <2>1 DEF InStep, Inside, Opening
  <2>2. captures' \in Seq(Written)
    <3> DEFINE r == Record(step, StepImages # {})
    <3>1. r \in Written /\ captures' = Append(captures, r)
      BY <2>0, <2>1, RecordMade
    <3> HIDE DEF r
    <3> QED  BY <3>1 DEF LoopShape
  <2> QED  BY <1>9, <1>0, <2>2 DEF DispatchRequest, Leave, LoopShape, Inside
<1>10. CASE CallChain
  BY LoopAssumption, <1>0, <1>10 DEF CallChain, loopVars, LoopShape
<1>11. CASE NoDecision
  BY LoopAssumption, <1>0, <1>11 DEF NoDecision, Propagate, Leave, LoopShape, Raised
<1>12. CASE Decide
  <2>1. PICK action \in DOMAIN Catalog \cup {"unlisted"}, ends \in BOOLEAN, prompt \in BOOLEAN,
             available \in BOOLEAN :
          /\ verdict' = Judgement(action, available)
          /\ decision' = [action |-> action, ends |-> ends,
                          prompt |-> prompt \/ Trigger = "prompt_response",
                          refused |-> IF verdict' = "authorized" THEN 0 ELSE clock']
    BY <1>12 DEF Decide
  <2>2. verdict' \in Verdicts
    BY <2>1 DEF Judgement, Dispatched, Verdicts
  <2>3. clock' \in Nat /\ pc' \in {"executing", "observing"}
    BY <1>12 DEF Decide, Leave, LoopShape
  <2>4. decision' \in Decisions
    BY <2>1, <2>3 DEF Decisions
  <2> QED  BY <1>12, <1>0, <2>2, <2>3, <2>4 DEF Decide, LoopShape, Inside
<1>13. CASE Execute
  BY LoopAssumption, <1>0, <1>13 DEF Execute, Propagate, Leave, LoopShape, Inside, Raised
<1>14. CASE RefuseDecision
  BY LoopAssumption, <1>0, <1>14 DEF RefuseDecision, Propagate, Leave, LoopShape, Raised
<1>15. CASE EndsByAgent
  <2>1. /\ captures' = Append(captures, Record(step + 1, FALSE))
        /\ pc = "verifying" /\ streak' \in Nat /\ clock' \in Nat
    BY <1>15 DEF EndsByAgent, Recorded, StreakAfter, LoopShape
  <2>2. captures' \in Seq(Written)
    <3>1. step + 1 \in 1 .. Len(frames)
      BY <2>1 DEF InStep, Inside, Opening
    <3> DEFINE r == Record(step + 1, FALSE)
    <3>2. r \in Written /\ captures' = Append(captures, r)
      BY <2>1, <3>1, RecordMade
    <3> HIDE DEF r
    <3> QED  BY <3>2 DEF LoopShape
  <2> QED  BY <1>15, <1>0, <2>1, <2>2 DEF EndsByAgent, Leave, LoopShape, Returned
<1>16. CASE EndsOnNoProgress
  <2>1. /\ captures' = Append(captures, Record(step + 1, FALSE))
        /\ pc = "verifying" /\ streak' \in Nat /\ clock' \in Nat
    BY <1>16 DEF EndsOnNoProgress, Recorded, StreakAfter, LoopShape
  <2>2. captures' \in Seq(Written)
    <3>1. step + 1 \in 1 .. Len(frames)
      BY <2>1 DEF InStep, Inside, Opening
    <3> DEFINE r == Record(step + 1, FALSE)
    <3>2. r \in Written /\ captures' = Append(captures, r)
      BY <2>1, <3>1, RecordMade
    <3> HIDE DEF r
    <3> QED  BY <3>2 DEF LoopShape
  <2> QED  BY <1>16, <1>0, <2>1, <2>2 DEF EndsOnNoProgress, Leave, LoopShape, Returned
<1>17. CASE NextStep
  <2>1. streak' \in Nat /\ clock' \in Nat /\ steps' = steps'
    BY <1>17 DEF NextStep, Recorded, StreakAfter, LoopShape
  <2>2. decision' \in Decisions /\ verdict' = None
    BY <1>17 DEF NextStep, Undecided, Decisions
  <2>3. observation' \in Boards /\ fresh' \in Boards
    BY <1>17 DEF NextStep, NextBoard, LoopShape, Boards, NoBoard
  <2> QED  BY <1>17, <1>0, <2>1, <2>2, <2>3 DEF NextStep, Leave, LoopShape, Inside
<1>18. CASE UNCHANGED vars
  BY LoopAssumption, <1>0, <1>18 DEF vars, loopVars, LoopShape
<1> QED
  BY <1>1, <1>2, <1>3, <1>4, <1>5, <1>6, <1>7, <1>8, <1>9, <1>10, <1>11, <1>12,
     <1>13, <1>14, <1>15, <1>16, <1>17, <1>18
     DEF Next

(* What the record of a frame says. *)
LEMMA RecordSays ==
  ASSUME LoopShape, NEW i \in 1 .. Len(frames), NEW shown \in BOOLEAN
  PROVE  \E r \in Written : /\ r = Record(i, shown) /\ r.step = i
                            /\ r.status = frames[i].status /\ (r.shown <=> shown)
<1> DEFINE e == [step |-> i, status |-> frames[i].status, shown |-> shown]
<1>1. e.shown <=> shown
  BY Zenon
<1>2. e.step = i /\ e.status = frames[i].status /\ e = Record(i, shown)
  BY DEF Record
<1>3. e \in Written
  BY <1>2, RecordMade
<1> HIDE DEF e
<1> QED  BY <1>1, <1>2, <1>3

(* The next frame's record joins those before it. *)
LEMMA Recording ==
  ASSUME LoopShape, InStep, Len(captures) < Len(frames'),
         frames \in Seq(Captured), frames' = frames \/ \E f \in Captured : frames' = Append(frames, f),
         \A k \in 1 .. Len(captures) : k \in sent' <=> k \in sent,
         NEW r \in Written, captures' = Append(captures, r),
         r.step = Len(captures) + 1, r.status = frames'[Len(captures) + 1].status,
         r.shown <=> Len(captures) + 1 \in sent'
  PROVE  /\ Len(captures') = Len(captures) + 1
         /\ \A k \in 1 .. Len(captures') :
              /\ captures'[k].step = k /\ captures'[k].status = frames'[k].status
              /\ captures'[k].shown <=> k \in sent'
<1>0. captures \in Seq(Written) /\ Len(captures) \in Nat /\ Len(captures) <= Len(frames)
  BY DEF LoopShape, InStep
<1>1. /\ Len(captures') = Len(captures) + 1
      /\ \A k \in 1 .. Len(captures) : captures'[k] = captures[k]
      /\ captures'[Len(captures) + 1] = r
  BY <1>0
<1>2. \A k \in 1 .. Len(captures) : frames'[k] = frames[k]
  BY <1>0
<1>3. ASSUME NEW k \in 1 .. Len(captures')
      PROVE  /\ captures'[k].step = k /\ captures'[k].status = frames'[k].status
             /\ captures'[k].shown <=> k \in sent'
  <2>1. CASE k \in 1 .. Len(captures)
    BY <1>1, <1>2, <2>1 DEF InStep
  <2>2. CASE k = Len(captures) + 1
    BY <1>1, <2>2
  <2> QED  BY <1>0, <1>1, <2>1, <2>2
<1> QED  BY <1>1, <1>3

(* Every step keeps frames and records in step. *)
LEMMA InStepStep ==
  LoopShape /\ InStep /\ SentClean /\ [Next]_vars => InStep'
<1> SUFFICES ASSUME LoopShape, InStep, SentClean, [Next]_vars PROVE InStep'
  OBVIOUS
<1>1. CASE ReadInputs
  BY <1>1 DEF ReadInputs, Leave, InStep, Opening, Inside
<1>2. CASE ReadFails
  BY <1>2 DEF ReadFails, FailObservation, Propagate, Leave, InStep, Opening, Inside
<1>3. CASE TakeFrame
  <2>1. PICK frame \in Captured : frames' = Append(frames, frame)
    BY <1>3 DEF TakeFrame, TakesFrame
  <2>2. /\ Len(frames') = Len(frames) + 1 /\ Len(frames) \in Nat /\ Len(captures) \in Nat
        /\ \A k \in 1 .. Len(frames) : frames'[k] = frames[k]
    BY <2>1 DEF LoopShape
  <2>3. /\ pc = "imaging" /\ UNCHANGED <<step, decision, captures, sent>>
        /\ pc' = IF decision = Undecided THEN "routing" ELSE "verifying"
    BY <1>3 DEF TakeFrame, Leave
  <2> QED
    BY <2>2, <2>3 DEF InStep, Opening, Inside, Returned, Raised
<1>4. CASE AssemblyFails
  <2>1. PICK frame \in Captured : frames' = Append(frames, frame)
    BY <1>4 DEF AssemblyFails, FailObservation, TakesFrame
  <2>2. /\ Len(frames') = Len(frames) + 1 /\ Len(frames) \in Nat /\ Len(captures) \in Nat
    BY <2>1 DEF LoopShape
  <2>3. /\ pc = "imaging" /\ sent' = sent /\ pc' = "observation_failed"
    BY <1>4 DEF AssemblyFails, FailObservation, Leave
  <2>4. Len(captures) = Len(frames)
    BY <2>3 DEF InStep, Inside, Opening
  <2> DEFINE r == [step |-> Len(frames'), shown |-> FALSE, status |-> frames'[Len(frames')].status]
  <2>5. frames'[Len(frames')].status \in {"clean", "withheld"}
    BY <2>1, FrameStatus DEF LoopShape
  <2>6. /\ r \in Written /\ captures' = Append(captures, r)
        /\ r.step = Len(captures) + 1 /\ r.status = frames'[Len(captures) + 1].status /\ ~r.shown
    BY <1>4, <2>2, <2>4, <2>5 DEF AssemblyFails, FailObservation, Written
  <2> HIDE DEF r
  <2>7. ~(Len(captures) + 1 \in sent)
    BY <2>2 DEF SentClean
  <2>9. /\ Len(captures') = Len(captures) + 1
        /\ \A k \in 1 .. Len(captures') :
             /\ captures'[k].step = k /\ captures'[k].status = frames'[k].status
             /\ captures'[k].shown <=> k \in sent'
    BY <2>1, <2>2, <2>3, <2>4, <2>6, <2>7, Recording DEF LoopShape
  <2> QED  BY <2>2, <2>3, <2>4, <2>9 DEF InStep, Opening, Inside
<1>5. CASE Cancelled
  BY <1>5 DEF Cancelled, Propagate, Leave, InStep, Opening, Inside
<1>6. CASE StallOnUnknownScreen
  <2>1. /\ pc = "routing" /\ frames' = frames /\ sent' = sent /\ UNCHANGED <<step, decision>>
        /\ pc' = "unknown_screen"
    BY <1>6 DEF StallOnUnknownScreen, Propagate, Leave
  <2>7. captures' = Append(captures, Record(step, FALSE))
    BY <1>6 DEF StallOnUnknownScreen
  <2>2. Len(frames) = step /\ Len(captures) = step - 1 /\ step \in Nat \ {0}
    BY <2>1 DEF InStep, Inside, Opening
  <2>3. PICK r \in Written : /\ captures' = Append(captures, r) /\ r.step = step
                            /\ r.status = frames[step].status /\ (r.shown <=> FALSE)
    <3>1. step \in 1 .. Len(frames) /\ (FALSE) \in BOOLEAN
      BY <2>2
    <3> QED  BY <2>7, <3>1, RecordSays, Zenon
  <2>4. ~(step \in sent)
    BY <2>2 DEF SentClean
  <2>9. /\ Len(captures') = Len(captures) + 1
        /\ \A k \in 1 .. Len(captures') :
             /\ captures'[k].step = k /\ captures'[k].status = frames'[k].status
             /\ captures'[k].shown <=> k \in sent'
    BY <2>1, <2>2, <2>3, <2>4, Recording DEF LoopShape
  <2> QED  BY <2>1, <2>2, <2>9 DEF InStep, Opening
<1>7. CASE CatalogGap
  BY <1>7 DEF CatalogGap, Propagate, Leave, InStep, Opening, Inside
<1>8. CASE RefuseLeak
  <2>1. /\ pc = "routing" /\ frames' = frames /\ sent' = sent /\ UNCHANGED <<step, decision>>
        /\ pc' = "parity_violation"
    BY <1>8 DEF RefuseLeak, Propagate, Routed, Leave
  <2>7. captures' = Append(captures, Record(step, FALSE))
    BY <1>8 DEF RefuseLeak, Propagate, Routed
  <2>2. Len(frames) = step /\ Len(captures) = step - 1 /\ step \in Nat \ {0}
    BY <2>1 DEF InStep, Inside, Opening
  <2>3. PICK r \in Written : /\ captures' = Append(captures, r) /\ r.step = step
                            /\ r.status = frames[step].status /\ (r.shown <=> FALSE)
    <3>1. step \in 1 .. Len(frames) /\ (FALSE) \in BOOLEAN
      BY <2>2
    <3> QED  BY <2>7, <3>1, RecordSays, Zenon
  <2>4. ~(step \in sent)
    BY <2>2 DEF SentClean
  <2>9. /\ Len(captures') = Len(captures) + 1
        /\ \A k \in 1 .. Len(captures') :
             /\ captures'[k].step = k /\ captures'[k].status = frames'[k].status
             /\ captures'[k].shown <=> k \in sent'
    BY <2>1, <2>2, <2>3, <2>4, Recording DEF LoopShape
  <2> QED  BY <2>1, <2>2, <2>9 DEF InStep, Opening
<1>9. CASE DispatchRequest
  <2>1. /\ pc = "routing" /\ frames' = frames /\ sent' = sent \cup StepImages /\ UNCHANGED <<step, decision>>
        /\ pc' = "calling"
    BY <1>9 DEF DispatchRequest, Routed, Leave
  <2>7. captures' = Append(captures, Record(step, StepImages # {}))
    BY <1>9 DEF DispatchRequest, Routed
  <2>2. Len(frames) = step /\ Len(captures) = step - 1 /\ step \in Nat \ {0}
    BY <2>1 DEF InStep, Inside, Opening
  <2>3. PICK r \in Written : /\ captures' = Append(captures, r) /\ r.step = step
                            /\ r.status = frames[step].status /\ (r.shown <=> StepImages # {})
    <3>1. step \in 1 .. Len(frames) /\ (StepImages # {}) \in BOOLEAN
      BY <2>2
    <3> QED  BY <2>7, <3>1, RecordSays, Zenon
  <2>4. ~(step \in sent)
    BY <2>2 DEF SentClean
  <2>5. /\ StepImages # {} <=> step \in sent'
        /\ \A k \in 1 .. Len(captures) : k \in sent' <=> k \in sent
    BY <2>1, <2>2, <2>4 DEF StepImages, Selected
  <2>9. /\ Len(captures') = Len(captures) + 1
        /\ \A k \in 1 .. Len(captures') :
             /\ captures'[k].step = k /\ captures'[k].status = frames'[k].status
             /\ captures'[k].shown <=> k \in sent'
    BY <2>1, <2>2, <2>3, <2>4, <2>5, Recording DEF LoopShape
  <2> QED  BY <2>1, <2>2, <2>9 DEF InStep, Opening
<1>10. CASE CallChain
  BY <1>10 DEF CallChain, loopVars, InStep, Opening
<1>11. CASE NoDecision
  BY <1>11 DEF NoDecision, Propagate, Leave, InStep, Opening, Inside
<1>12. CASE Decide
  <2>1. PICK action \in DOMAIN Catalog \cup {"unlisted"} : decision'.action = action
    BY <1>12 DEF Decide
  <2>2. decision' # Undecided
    BY <2>1, LoopAssumption DEF Undecided, None
  <2>3. /\ pc = "calling" /\ pc' \in {"executing", "observing"}
        /\ UNCHANGED <<step, frames, captures, sent>>
    BY <1>12 DEF Decide, Leave
  <2> QED  BY <2>2, <2>3 DEF InStep, Opening, Inside
<1>13. CASE Execute
  BY <1>13 DEF Execute, Propagate, Leave, InStep, Opening, Inside
<1>14. CASE RefuseDecision
  BY <1>14 DEF RefuseDecision, Propagate, Leave, InStep, Opening, Inside
<1>15. CASE EndsByAgent
  <2>1. /\ pc = "verifying" /\ frames' = frames /\ sent' = sent /\ UNCHANGED <<step, decision>>
        /\ pc' = "ended_by_agent"
    BY <1>15 DEF EndsByAgent, Recorded, Leave
  <2>7. captures' = Append(captures, Record(step + 1, FALSE))
    BY <1>15 DEF EndsByAgent
  <2>2. Len(frames) = step + 1 /\ Len(captures) = step /\ step \in Nat \ {0}
    BY <2>1 DEF LoopShape, InStep, Inside, Opening
  <2>3. PICK r \in Written : /\ captures' = Append(captures, r) /\ r.step = step + 1
                            /\ r.status = frames[step + 1].status /\ (r.shown <=> FALSE)
    <3>1. step + 1 \in 1 .. Len(frames) /\ FALSE \in BOOLEAN
      BY <2>2
    <3> QED  BY <2>7, <3>1, RecordSays, Zenon
  <2>4. ~(step + 1 \in sent)
    BY <2>2 DEF SentClean
  <2>9. /\ Len(captures') = Len(captures) + 1
        /\ \A k \in 1 .. Len(captures') :
             /\ captures'[k].step = k /\ captures'[k].status = frames'[k].status
             /\ captures'[k].shown <=> k \in sent'
    BY <2>1, <2>2, <2>3, <2>4, Recording DEF LoopShape
  <2> QED  BY <2>1, <2>2, <2>9, SMTT(15) DEF InStep, Opening, Inside
<1>16. CASE EndsOnNoProgress
  <2>1. /\ pc = "verifying" /\ frames' = frames /\ sent' = sent /\ UNCHANGED <<step, decision>>
        /\ pc' = "ended_on_no_progress"
    BY <1>16 DEF EndsOnNoProgress, Recorded, Leave
  <2>7. captures' = Append(captures, Record(step + 1, FALSE))
    BY <1>16 DEF EndsOnNoProgress
  <2>2. Len(frames) = step + 1 /\ Len(captures) = step /\ step \in Nat \ {0}
    BY <2>1 DEF LoopShape, InStep, Inside, Opening
  <2>3. PICK r \in Written : /\ captures' = Append(captures, r) /\ r.step = step + 1
                            /\ r.status = frames[step + 1].status /\ (r.shown <=> FALSE)
    <3>1. step + 1 \in 1 .. Len(frames) /\ FALSE \in BOOLEAN
      BY <2>2
    <3> QED  BY <2>7, <3>1, RecordSays, Zenon
  <2>4. ~(step + 1 \in sent)
    BY <2>2 DEF SentClean
  <2>9. /\ Len(captures') = Len(captures) + 1
        /\ \A k \in 1 .. Len(captures') :
             /\ captures'[k].step = k /\ captures'[k].status = frames'[k].status
             /\ captures'[k].shown <=> k \in sent'
    BY <2>1, <2>2, <2>3, <2>4, Recording DEF LoopShape
  <2> QED  BY <2>1, <2>2, <2>9 DEF InStep, Opening, Inside
<1>17. CASE NextStep
  <2>1. /\ pc = "verifying" /\ pc' = "routing" /\ step' = step + 1 /\ decision' = Undecided
        /\ UNCHANGED <<frames, captures, sent>>
    BY <1>17 DEF NextStep, Recorded, Leave
  <2> QED  BY <2>1 DEF InStep, Opening, Inside, Returned, Raised
<1>18. CASE UNCHANGED vars
  BY <1>18 DEF vars, loopVars, InStep, Opening
<1> QED
  BY <1>1, <1>2, <1>3, <1>4, <1>5, <1>6, <1>7, <1>8, <1>9, <1>10, <1>11, <1>12,
     <1>13, <1>14, <1>15, <1>16, <1>17, <1>18
     DEF Next

(* Every step keeps what is sent clean. *)
LEMMA SentCleanStep ==
  LoopShape /\ InStep /\ SentClean /\ [Next]_vars => SentClean'
<1> SUFFICES ASSUME LoopShape, InStep, SentClean, [Next]_vars PROVE SentClean'
  OBVIOUS
<1>1. CASE ReadInputs
  BY <1>1 DEF ReadInputs, Leave, SentClean
<1>2. CASE ReadFails
  BY <1>2 DEF ReadFails, FailObservation, Propagate, Leave, SentClean
<1>3. CASE TakeFrame
  <2>1. PICK frame \in Captured : frames' = Append(frames, frame)
    BY <1>3 DEF TakeFrame, TakesFrame
  <2>2. \A k \in 1 .. Len(captures) : frames'[k] = frames[k]
    BY <2>1 DEF LoopShape, InStep
  <2>3. UNCHANGED <<captures, sent, permitted>>
    BY <1>3 DEF TakeFrame
  <2> QED  BY <2>2, <2>3 DEF SentClean
<1>4. CASE AssemblyFails
  <2>1. PICK frame \in Captured : frames' = Append(frames, frame)
    BY <1>4 DEF AssemblyFails, FailObservation, TakesFrame
  <2>2. \A k \in 1 .. Len(captures) : frames'[k] = frames[k]
    BY <2>1 DEF LoopShape, InStep
  <2>3. UNCHANGED <<sent, permitted>> /\ Len(captures') = Len(captures) + 1
    BY <1>4 DEF AssemblyFails, FailObservation, LoopShape
  <2> QED  BY <2>2, <2>3 DEF SentClean, LoopShape
<1>5. CASE Cancelled
  BY <1>5 DEF Cancelled, Propagate, Leave, SentClean
<1>6. CASE StallOnUnknownScreen
  <2>1. UNCHANGED <<frames, sent, permitted>> /\ Len(captures') = Len(captures) + 1
    BY <1>6 DEF StallOnUnknownScreen, Propagate, LoopShape
  <2> QED  BY <2>1 DEF SentClean, LoopShape
<1>7. CASE CatalogGap
  BY <1>7 DEF CatalogGap, Propagate, Leave, SentClean
<1>8. CASE RefuseLeak
  <2>1. UNCHANGED <<frames, sent, permitted>> /\ Len(captures') = Len(captures) + 1
    BY <1>8 DEF RefuseLeak, Propagate, LoopShape
  <2> QED  BY <2>1 DEF SentClean, LoopShape
<1>9. CASE DispatchRequest
  <2>1. /\ pc = "routing" /\ sent' = sent \cup StepImages /\ UNCHANGED <<frames, permitted>>
        /\ Len(captures') = Len(captures) + 1 /\ Len(captures) \in Nat
    BY <1>9 DEF DispatchRequest, Routed, LoopShape
  <2>2. step = Len(captures) + 1
    BY <2>1 DEF InStep, Inside
  <2>3. ASSUME NEW i \in StepImages
        PROVE  i = step /\ permitted /\ frames[i].wire /\ frames[i].status = "clean"
    BY DEF StepImages, Selected
  <2>4. ASSUME NEW i \in sent'
        PROVE  /\ i \in 1 .. Len(captures') /\ permitted'
               /\ frames'[i].wire /\ frames'[i].status = "clean"
    <3>1. CASE i \in sent
      BY <2>1, <3>1 DEF SentClean
    <3>2. CASE i \in StepImages
      BY <2>1, <2>2, <2>3, <3>2
    <3> QED  BY <2>1, <2>4, <3>1, <3>2
  <2> QED  BY <2>4 DEF SentClean
<1>10. CASE CallChain
  BY <1>10 DEF CallChain, loopVars, SentClean
<1>11. CASE NoDecision
  BY <1>11 DEF NoDecision, Propagate, Leave, SentClean
<1>12. CASE Decide
  BY <1>12 DEF Decide, Leave, SentClean
<1>13. CASE Execute
  BY <1>13 DEF Execute, Propagate, Leave, SentClean
<1>14. CASE RefuseDecision
  BY <1>14 DEF RefuseDecision, Propagate, Leave, SentClean
<1>15. CASE EndsByAgent
  <2>1. UNCHANGED <<frames, sent, permitted>> /\ Len(captures') = Len(captures) + 1
    BY <1>15 DEF EndsByAgent, LoopShape
  <2> QED  BY <2>1 DEF SentClean, LoopShape
<1>16. CASE EndsOnNoProgress
  <2>1. UNCHANGED <<frames, sent, permitted>> /\ Len(captures') = Len(captures) + 1
    BY <1>16 DEF EndsOnNoProgress, LoopShape
  <2> QED  BY <2>1 DEF SentClean, LoopShape
<1>17. CASE NextStep
  BY <1>17 DEF NextStep, Leave, SentClean
<1>18. CASE UNCHANGED vars
  BY <1>18 DEF vars, loopVars, SentClean
<1> QED
  BY <1>1, <1>2, <1>3, <1>4, <1>5, <1>6, <1>7, <1>8, <1>9, <1>10, <1>11, <1>12,
     <1>13, <1>14, <1>15, <1>16, <1>17, <1>18
     DEF Next

(* The images of a step are its own frame, if that is sent at all.         *)
LEMMA OwnImages ==
  ASSUME LoopShape
  PROVE  StepImages \in SUBSET Nat /\ StepImages \subseteq {step}
BY DEF StepImages, Selected, LoopShape

(* A step has images exactly when its frame may be sent. *)
LEMMA HasImages ==
  StepImages # {} <=> permitted /\ frames[step].wire /\ frames[step].status = "clean"
<1>1. step \in Selected({step}) <=> frames[step].status = "clean"
  BY DEF Selected
<1>2. Selected({step}) \subseteq {step}
  BY DEF Selected
<1> HIDE DEF Selected
<1> QED  BY <1>1, <1>2 DEF StepImages

(* The same of the next state. *)
LEMMA HasImagesNext ==
  StepImages' # {} <=> permitted' /\ frames'[step'].wire /\ frames'[step'].status = "clean"
<1>1. (step \in Selected({step}))' <=> frames'[step'].status = "clean"
  BY DEF Selected
<1>2. (Selected({step}) \subseteq {step})'
  BY DEF Selected
<1> HIDE DEF Selected
<1> QED  BY <1>1, <1>2, Zenon DEF StepImages

(* What the bundle of a step says. *)
LEMMA BundleSays ==
  ASSUME LoopShape, NEW progress \in {"changed_state", "rejected"}
  PROVE  \E b \in Bundles :
           /\ b = Bundle(progress)
           /\ b.progress = progress /\ b.streak = StreakAfter(progress)
           /\ b.index = step /\ b.seen = observation.id /\ b.images = StepImages
           /\ b.ends <=> decision.ends
           /\ b.authorized <=> verdict = "authorized"
           /\ b.listed <=> decision.action \in DOMAIN Catalog
           /\ b.answers <=> (Trigger = "prompt_response" => decision.prompt)
<1> DEFINE v == IF verdict = "authorized" THEN clock + 1 ELSE decision.refused
           e == [ends |-> decision.ends, authorized |-> verdict = "authorized",
                 progress |-> progress, streak |-> StreakAfter(progress),
                 index |-> step, seen |-> observation.id, images |-> StepImages,
                 assembled |-> observation.assembled, verified |-> v,
                 listed |-> decision.action \in DOMAIN Catalog,
                 answers |-> Trigger = "prompt_response" => decision.prompt]
<1>1. e = Bundle(progress)
  BY Zenon DEF Bundle
<1>2. /\ e.ends <=> decision.ends
      /\ e.authorized <=> verdict = "authorized"
      /\ e.listed <=> decision.action \in DOMAIN Catalog
      /\ e.answers <=> (Trigger = "prompt_response" => decision.prompt)
  BY Zenon
<1>3. /\ e.progress = progress /\ e.streak = StreakAfter(progress)
      /\ e.index = step /\ e.seen = observation.id /\ e.images = StepImages
  BY Zenon
<1>4. /\ decision.ends \in BOOLEAN /\ v \in Nat /\ StreakAfter(progress) \in Nat
      /\ step \in Nat /\ observation.id \in Nat /\ observation.assembled \in Nat
      /\ decision.prompt \in BOOLEAN
  BY DEF LoopShape, Decisions, Boards, StreakAfter
<1>5. e \in Bundles
  <2> HIDE DEF v
  <2>1. /\ (verdict = "authorized") \in BOOLEAN
        /\ (decision.action \in DOMAIN Catalog) \in BOOLEAN
    OBVIOUS
  <2>2. (Trigger = "prompt_response" => decision.prompt) \in BOOLEAN
    BY <1>4
  <2> QED  BY <1>4, <2>1, <2>2, OwnImages, Zenon DEF Bundles
<1> HIDE DEF e
<1> QED  BY <1>1, <1>2, <1>3, <1>5, Zenon

(* A recorded step appends one such bundle; only an authorized action can  *)
(* have changed the game, and its streak is the new one.                   *)
LEMMA Bundling ==
  ASSUME LoopShape, \E confirmed \in BOOLEAN : Recorded(Progress(confirmed))
  PROVE  /\ pc = "verifying" /\ ~InvalidDecision /\ clock' = clock + 1
         /\ \E b \in Bundles :
              /\ steps' = Append(steps, b) /\ b.streak = streak'
              /\ streak' = IF b.progress = "changed_state" THEN 0 ELSE streak + 1
              /\ b.index = step /\ b.seen = observation.id /\ b.images = StepImages
              /\ b.ends <=> decision.ends
              /\ b.authorized <=> verdict = "authorized"
              /\ b.listed <=> decision.action \in DOMAIN Catalog
              /\ b.answers <=> (Trigger = "prompt_response" => decision.prompt)
<1>1. PICK confirmed \in BOOLEAN : Recorded(Progress(confirmed))
  OBVIOUS
<1>2. PICK progress : progress = Progress(confirmed)
  OBVIOUS
<1>3. progress \in {"changed_state", "rejected"} /\ Recorded(progress)
  BY <1>1, <1>2, Zenon DEF Progress
<1>4. /\ pc = "verifying" /\ ~InvalidDecision /\ clock' = clock + 1
      /\ streak' = StreakAfter(progress) /\ steps' = Append(steps, Bundle(progress))
  BY <1>3, Zenon DEF Recorded
<1>5. PICK b \in Bundles :
           /\ b = Bundle(progress)
           /\ b.progress = progress /\ b.streak = StreakAfter(progress)
           /\ b.index = step /\ b.seen = observation.id /\ b.images = StepImages
           /\ b.ends <=> decision.ends
           /\ b.authorized <=> verdict = "authorized"
           /\ b.listed <=> decision.action \in DOMAIN Catalog
           /\ b.answers <=> (Trigger = "prompt_response" => decision.prompt)
  BY <1>3, BundleSays, Zenon
<1>6. steps' = Append(steps, b) /\ b.streak = streak'
  BY <1>4, <1>5, Zenon
<1>7. streak' = IF b.progress = "changed_state" THEN 0 ELSE streak + 1
  BY <1>4, <1>5, Zenon DEF StreakAfter
<1> QED  BY <1>4, <1>5, <1>6, <1>7, Zenon

(* What a recorded step makes of the sequence of bundles. *)
LEMMA Appended ==
  ASSUME steps \in Seq(Bundles), NEW b \in Bundles, steps' = Append(steps, b)
  PROVE  /\ steps' \in Seq(Bundles) /\ Len(steps) \in Nat /\ Len(steps') = Len(steps) + 1
         /\ DOMAIN steps = 1 .. Len(steps) /\ DOMAIN steps' = DOMAIN steps \cup {Len(steps) + 1}
         /\ Len(steps) + 1 \notin DOMAIN steps
         /\ \A i \in DOMAIN steps : steps'[i] = steps[i]
         /\ steps'[Len(steps) + 1] = b
OBVIOUS

(* Every step keeps the images of a decided step sent. *)
LEMMA SendingStep ==
  LoopShape /\ InStep /\ SentClean /\ Sending /\ [Next]_vars => Sending'
<1> SUFFICES ASSUME LoopShape, InStep, SentClean, Sending, [Next]_vars PROVE Sending'
  OBVIOUS
<1>1. CASE ReadInputs
  BY <1>1 DEF ReadInputs, Leave, Sending, Opening, StepImages, Selected
<1>2. CASE ReadFails
  BY <1>2 DEF ReadFails, FailObservation, Propagate, Leave, Sending
<1>3. CASE TakeFrame
  <2>1. PICK frame \in Captured : frames' = Append(frames, frame)
    BY <1>3 DEF TakeFrame, TakesFrame
  <2>2. /\ pc = "imaging" /\ pc' \in {"routing", "verifying"}
        /\ UNCHANGED <<step, sent, permitted, decision>>
        /\ pc' = "verifying" => decision # Undecided
    BY <1>3 DEF TakeFrame, Leave
  <2>3. decision # Undecided => step \in 1 .. Len(frames)
    BY <2>2 DEF LoopShape, InStep, Opening, Inside
  <2>4. decision # Undecided => frames'[step] = frames[step]
    BY <2>1, <2>3 DEF LoopShape
  <2>5. decision # Undecided => (StepImages' # {} <=> StepImages # {})
    <3> SUFFICES ASSUME decision # Undecided PROVE StepImages' # {} <=> StepImages # {}
      OBVIOUS
    <3>1. permitted' = permitted /\ step' = step /\ frames'[step'].wire = frames[step].wire
          /\ frames'[step'].status = frames[step].status
      BY <2>2, <2>4
    <3> QED  BY <3>1, HasImages, HasImagesNext, Zenon
  <2> QED  BY <2>2, <2>5 DEF Sending, Opening
<1>4. CASE AssemblyFails
  BY <1>4 DEF AssemblyFails, FailObservation, Leave, Sending
<1>5. CASE Cancelled
  BY <1>5 DEF Cancelled, Propagate, Leave, Sending
<1>6. CASE StallOnUnknownScreen
  BY <1>6 DEF StallOnUnknownScreen, Propagate, Leave, Sending
<1>7. CASE CatalogGap
  BY <1>7 DEF CatalogGap, Propagate, Leave, Sending
<1>8. CASE RefuseLeak
  BY <1>8 DEF RefuseLeak, Propagate, Leave, Sending
<1>9. CASE DispatchRequest
  <2>1. /\ pc' = "calling" /\ sent' = sent \cup StepImages
        /\ UNCHANGED <<step, frames, permitted>>
    BY <1>9 DEF DispatchRequest, Leave
  <2>2. StepImages' = StepImages
    BY <2>1 DEF StepImages, Selected
  <2>3. StepImages # {} => step \in StepImages
    BY OwnImages
  <2> QED  BY <2>1, <2>2, <2>3 DEF Sending
<1>10. CASE CallChain
  BY <1>10 DEF CallChain, loopVars, Sending, StepImages, Selected
<1>11. CASE NoDecision
  BY <1>11 DEF NoDecision, Propagate, Sending, StepImages, Selected
<1>12. CASE Decide
  BY <1>12 DEF Decide, Sending, StepImages, Selected
<1>13. CASE Execute
  BY <1>13 DEF Execute, Propagate, Sending, StepImages, Selected
<1>14. CASE RefuseDecision
  BY <1>14 DEF RefuseDecision, Propagate, Sending, StepImages, Selected
<1>15. CASE EndsByAgent
  BY <1>15 DEF EndsByAgent, Leave, Sending
<1>16. CASE EndsOnNoProgress
  BY <1>16 DEF EndsOnNoProgress, Leave, Sending
<1>17. CASE NextStep
  BY <1>17 DEF NextStep, Leave, Sending
<1>18. CASE UNCHANGED vars
  BY <1>18 DEF vars, loopVars, Sending, Opening, StepImages, Selected
<1> QED
  BY <1>1, <1>2, <1>3, <1>4, <1>5, <1>6, <1>7, <1>8, <1>9, <1>10, <1>11, <1>12,
     <1>13, <1>14, <1>15, <1>16, <1>17, <1>18
     DEF Next

(* Nothing is said of bundles that went with an exception. *)
LEMMA NoneBundled ==
  ASSUME steps' = <<>>, pc' \in Raised \ {"observation_failed"}
  PROVE  Bundled'
<1>1. steps' \in Seq(Bundles) /\ Len(steps') = 0 /\ DOMAIN steps' = {}
  OBVIOUS
<1>2. pc' \notin Inside /\ pc' \notin Returned /\ pc' # "observation_failed"
  BY DEF Inside, Returned, Raised
<1> QED  BY <1>1, <1>2 DEF Bundled, Inside

(* Every step keeps the bundles the steps' own. *)
LEMMA BundledStep ==
  LoopShape /\ InStep /\ Sending /\ Bundled /\ [Next]_vars => Bundled'
<1> SUFFICES ASSUME LoopShape, InStep, Sending, Bundled, [Next]_vars PROVE Bundled'
  OBVIOUS
<1>1. CASE ReadInputs
  BY <1>1 DEF ReadInputs, Leave, Bundled, Opening, Inside, Returned
<1>2. CASE ReadFails
  <2>1. CASE FailObservation
    BY <1>2, <2>1 DEF ReadFails, FailObservation, Leave, Bundled, Inside, Returned
  <2>2. CASE Propagate("raised", <<>>)
    BY <2>2, NoneBundled DEF Propagate, Leave, Raised
  <2> QED  BY <1>2, <2>1, <2>2 DEF ReadFails
<1>3. CASE TakeFrame
  <2>1. PICK frame \in Captured : frames' = Append(frames, frame)
    BY <1>3 DEF TakeFrame, TakesFrame
  <2>2. Len(frames') = Len(frames) + 1
    BY <2>1 DEF LoopShape
  <2>3. Len(frames) = IF decision = Undecided THEN 0 ELSE step
    BY <1>3 DEF TakeFrame, InStep, Opening, Inside
  <2>4. /\ pc = "imaging" /\ UNCHANGED <<step, steps, decision, verdict, sent>>
        /\ IF decision = Undecided THEN pc' = "routing" /\ observation'.id = Len(frames')
           ELSE pc' = "verifying" /\ fresh'.id = Len(frames') /\ observation' = observation
    BY <1>3 DEF TakeFrame, Leave, LoopShape, Boards
  <2>5. decision = Undecided => step = 1
    BY <2>4 DEF InStep, Opening
  <2> QED  BY <2>2, <2>3, <2>4, <2>5 DEF Bundled, Opening, Inside, Returned
<1>4. CASE AssemblyFails
  BY <1>4 DEF AssemblyFails, FailObservation, Leave, Bundled, Inside, Returned
<1>5. CASE Cancelled
  BY <1>5, NoneBundled DEF Cancelled, Propagate, Leave, Raised
<1>6. CASE StallOnUnknownScreen
  BY <1>6, NoneBundled DEF StallOnUnknownScreen, Propagate, Leave, Raised
<1>7. CASE CatalogGap
  BY <1>7, NoneBundled DEF CatalogGap, Propagate, Leave, Raised
<1>8. CASE RefuseLeak
  BY <1>8, NoneBundled DEF RefuseLeak, Propagate, Leave, Raised
<1>9. CASE DispatchRequest
  <2>1. /\ pc = "routing" /\ pc' = "calling" /\ sent \subseteq sent'
        /\ UNCHANGED <<step, steps, decision, verdict, observation, fresh>>
    BY <1>9 DEF DispatchRequest, Routed, Leave
  <2> QED  BY <2>1 DEF Bundled, Opening, Inside, Returned
<1>10. CASE CallChain
  BY <1>10 DEF CallChain, loopVars, Bundled, Opening
<1>11. CASE NoDecision
  BY <1>11, NoneBundled DEF NoDecision, Propagate, Leave, Raised
<1>12. CASE Decide
  <2>1. PICK action \in DOMAIN Catalog \cup {"unlisted"}, available \in BOOLEAN :
          verdict' = Judgement(action, available) /\ decision'.action = action
    BY <1>12 DEF Decide
  <2>2. verdict' = "authorized" => decision'.action \in DOMAIN Catalog
    BY <2>1 DEF Judgement, Dispatched
  <2>3. /\ pc = "calling" /\ pc' \in {"executing", "observing"}
        /\ UNCHANGED <<step, steps, sent, observation, fresh>>
    BY <1>12 DEF Decide, Leave
  <2>4. step \in Nat \ {0} /\ observation.id = step
    BY <2>3 DEF LoopShape, Bundled, Opening, Inside
  <2> QED  BY <2>2, <2>3, <2>4 DEF Bundled, Returned, Inside
<1>13. CASE Execute
  <2>1. CASE Propagate("raised", <<>>)
    BY <2>1, NoneBundled DEF Propagate, Leave, Raised
  <2>2. CASE Leave("observing") /\ UNCHANGED <<steps, streak, events>>
    BY <1>13, <2>2 DEF Execute, Leave, Bundled, Opening, Inside, Returned
  <2> QED  BY <1>13, <2>1, <2>2 DEF Execute
<1>14. CASE RefuseDecision
  BY <1>14, NoneBundled DEF RefuseDecision, Propagate, Leave, Raised
<1>15. CASE EndsByAgent
  <2>1. PICK b \in Bundles :
           /\ steps' = Append(steps, b)
           /\ b.index = step /\ b.seen = observation.id /\ b.images = StepImages
           /\ b.authorized <=> verdict = "authorized"
           /\ b.listed <=> decision.action \in DOMAIN Catalog
           /\ b.answers <=> (Trigger = "prompt_response" => decision.prompt)
    BY <1>15, Bundling, Zenon DEF EndsByAgent
  <2>2. pc = "verifying" /\ ~InvalidDecision
    BY <1>15, Bundling DEF EndsByAgent
  <2>3. b.answers
    BY <2>1, <2>2 DEF InvalidDecision
  <2>4. decision # Undecided /\ Len(steps) = step - 1 /\ step \in Nat \ {0}
    BY <2>2 DEF Bundled, Inside, Returned, InStep
  <2>5. /\ b.index = step /\ b.seen = step /\ b.images \subseteq {step}
        /\ b.authorized => b.listed
    BY <2>1, <2>2, <2>4, OwnImages DEF Bundled, Opening, Inside
  <2>6. b.images # {} => step \in sent
    BY <2>1, <2>2, <2>4 DEF Sending
  <2>7. /\ steps' \in Seq(Bundles) /\ Len(steps') = step
        /\ DOMAIN steps' = DOMAIN steps \cup {step}
        /\ \A i \in DOMAIN steps : steps'[i] = steps[i]
        /\ steps'[step] = b
    BY <2>1, <2>4, Appended DEF Bundled
  <2>8. sent' = sent /\ pc' = "ended_by_agent" /\ step' = step
    BY <1>15 DEF EndsByAgent, Leave
  <2>9. \A i \in DOMAIN steps' :
          /\ steps'[i].index = i /\ steps'[i].seen = i /\ steps'[i].images \subseteq {i}
          /\ steps'[i].answers /\ (steps'[i].authorized => steps'[i].listed)
          /\ steps'[i].images # {} => i \in sent
    BY <2>3, <2>5, <2>6, <2>7, Zenon DEF Bundled
  <2> QED  BY <2>7, <2>8, <2>9 DEF Bundled, Inside, Returned
<1>16. CASE EndsOnNoProgress
  <2>1. PICK b \in Bundles :
           /\ steps' = Append(steps, b)
           /\ b.index = step /\ b.seen = observation.id /\ b.images = StepImages
           /\ b.authorized <=> verdict = "authorized"
           /\ b.listed <=> decision.action \in DOMAIN Catalog
           /\ b.answers <=> (Trigger = "prompt_response" => decision.prompt)
    BY <1>16, Bundling, Zenon DEF EndsOnNoProgress
  <2>2. pc = "verifying" /\ ~InvalidDecision
    BY <1>16, Bundling DEF EndsOnNoProgress
  <2>3. b.answers
    BY <2>1, <2>2 DEF InvalidDecision
  <2>4. decision # Undecided /\ Len(steps) = step - 1 /\ step \in Nat \ {0}
    BY <2>2 DEF Bundled, Inside, Returned, InStep
  <2>5. /\ b.index = step /\ b.seen = step /\ b.images \subseteq {step}
        /\ b.authorized => b.listed
    BY <2>1, <2>2, <2>4, OwnImages DEF Bundled, Opening, Inside
  <2>6. b.images # {} => step \in sent
    BY <2>1, <2>2, <2>4 DEF Sending
  <2>7. /\ steps' \in Seq(Bundles) /\ Len(steps') = step
        /\ DOMAIN steps' = DOMAIN steps \cup {step}
        /\ \A i \in DOMAIN steps : steps'[i] = steps[i]
        /\ steps'[step] = b
    BY <2>1, <2>4, Appended DEF Bundled
  <2>8. sent' = sent /\ pc' = "ended_on_no_progress" /\ step' = step
    BY <1>16 DEF EndsOnNoProgress, Leave
  <2>9. \A i \in DOMAIN steps' :
          /\ steps'[i].index = i /\ steps'[i].seen = i /\ steps'[i].images \subseteq {i}
          /\ steps'[i].answers /\ (steps'[i].authorized => steps'[i].listed)
          /\ steps'[i].images # {} => i \in sent
    BY <2>3, <2>5, <2>6, <2>7, Zenon DEF Bundled
  <2> QED  BY <2>7, <2>8, <2>9 DEF Bundled, Inside, Returned
<1>17. CASE NextStep
  <2>1. PICK b \in Bundles :
           /\ steps' = Append(steps, b)
           /\ b.index = step /\ b.seen = observation.id /\ b.images = StepImages
           /\ b.authorized <=> verdict = "authorized"
           /\ b.listed <=> decision.action \in DOMAIN Catalog
           /\ b.answers <=> (Trigger = "prompt_response" => decision.prompt)
    BY <1>17, Bundling, Zenon DEF NextStep
  <2>2. pc = "verifying" /\ ~InvalidDecision
    BY <1>17, Bundling DEF NextStep
  <2>3. b.answers
    BY <2>1, <2>2 DEF InvalidDecision
  <2>4. decision # Undecided /\ Len(steps) = step - 1 /\ step \in Nat \ {0}
    BY <2>2 DEF Bundled, Inside, Returned, InStep
  <2>5. /\ b.index = step /\ b.seen = step /\ b.images \subseteq {step}
        /\ b.authorized => b.listed
    BY <2>1, <2>2, <2>4, OwnImages DEF Bundled, Opening, Inside
  <2>6. b.images # {} => step \in sent
    BY <2>1, <2>2, <2>4 DEF Sending
  <2>7. /\ steps' \in Seq(Bundles) /\ Len(steps') = step
        /\ DOMAIN steps' = DOMAIN steps \cup {step}
        /\ \A i \in DOMAIN steps : steps'[i] = steps[i]
        /\ steps'[step] = b
    BY <2>1, <2>4, Appended DEF Bundled
  <2>8. sent' = sent /\ pc' = "routing" /\ step' = step + 1 /\ observation' = fresh /\ verdict' = None
    BY <1>17 DEF NextStep, Leave, NextBoard
  <2>9. \A i \in DOMAIN steps' :
          /\ steps'[i].index = i /\ steps'[i].seen = i /\ steps'[i].images \subseteq {i}
          /\ steps'[i].answers /\ (steps'[i].authorized => steps'[i].listed)
          /\ steps'[i].images # {} => i \in sent
    BY <2>3, <2>5, <2>6, <2>7, Zenon DEF Bundled
  <2>10. observation'.id = step'
    BY <2>2, <2>8 DEF Bundled
  <2> QED  BY <2>4, <2>7, <2>8, <2>9, <2>10 DEF Bundled, Returned, Inside, None
<1>18. CASE UNCHANGED vars
  BY <1>18 DEF vars, loopVars, Bundled, Opening
<1> QED
  BY <1>1, <1>2, <1>3, <1>4, <1>5, <1>6, <1>7, <1>8, <1>9, <1>10, <1>11, <1>12,
     <1>13, <1>14, <1>15, <1>16, <1>17, <1>18
     DEF Next

(* The authorized bundles among those of a step more. *)
LEMMA AuthorizedAppended ==
  ASSUME steps \in Seq(Bundles), Cardinality(Authorized) \in Nat, NEW b \in Bundles,
         steps' = Append(steps, b)
  PROVE  /\ b.authorized => Cardinality(Authorized') = Cardinality(Authorized) + 1
         /\ ~b.authorized => Cardinality(Authorized') = Cardinality(Authorized)
<1>1. /\ DOMAIN steps = 1 .. Len(steps) /\ DOMAIN steps' = DOMAIN steps \cup {Len(steps) + 1}
      /\ Len(steps) + 1 \notin DOMAIN steps /\ Len(steps) \in Nat
      /\ \A i \in DOMAIN steps : steps'[i] = steps[i]
      /\ steps'[Len(steps) + 1] = b
  BY Appended
<1>2. Authorized \subseteq DOMAIN steps /\ IsFiniteSet(Authorized)
  <2>1. Authorized \subseteq DOMAIN steps
    BY DEF Authorized
  <2>2. IsFiniteSet(DOMAIN steps)
    BY <1>1, FS_Interval
  <2> QED  BY <2>1, <2>2, FS_Subset
<1>3. ASSUME b.authorized PROVE Authorized' = Authorized \cup {Len(steps) + 1}
  BY <1>1, <1>3, Zenon DEF Authorized
<1>4. ASSUME ~b.authorized PROVE Authorized' = Authorized
  BY <1>1, <1>4, Zenon DEF Authorized
<1> QED  BY <1>1, <1>2, <1>3, <1>4, FS_AddElement

(* Bundles that stay keep those that are authorized. *)
LEMMA SameAuthorized == steps' = steps => Authorized' = Authorized
BY DEF Authorized

(* An exception that takes the bundles with it leaves none authorized. *)
LEMMA NoneAuthorized == steps' = <<>> => Cardinality(Authorized') = 0
<1> SUFFICES ASSUME steps' = <<>> PROVE Cardinality(Authorized') = 0
  OBVIOUS
<1>1. Authorized' = {}
  BY DEF Authorized
<1> QED  BY <1>1, FS_EmptySet

(* Every step keeps the count of the actions. *)
LEMMA CountedStep ==
  LoopShape /\ InStep /\ Bundled /\ Counted /\ [Next]_vars => Counted'
<1> SUFFICES ASSUME LoopShape, InStep, Bundled, Counted, [Next]_vars PROVE Counted'
  OBVIOUS
<1>1. CASE ReadInputs
  <2>1. /\ pc = "observing" /\ pc' = "imaging" /\ fresh'.after = executed
        /\ UNCHANGED <<steps, executed, decision, verdict, observation>>
    BY <1>1 DEF ReadInputs, Leave, Boards
  <2> QED  BY <2>1, SameAuthorized DEF Counted, Pending, Returned, Raised, LoopShape
<1>2. CASE ReadFails
  <2>1. pc \in Inside /\ executed' = executed
    BY <1>2 DEF ReadFails, Inside
  <2>2. CASE FailObservation
    <3>1. pc' = "observation_failed" /\ steps' = steps
      BY <2>2 DEF FailObservation, Leave
    <3> QED  BY <2>1, <3>1, SameAuthorized DEF Counted, Pending, Inside, Returned
  <2>3. CASE Propagate("raised", <<>>)
    BY <2>1, <2>3, NoneAuthorized DEF Propagate, Leave, Counted, Inside, Returned
  <2> QED  BY <1>2, <2>2, <2>3 DEF ReadFails
<1>3. CASE TakeFrame
  <2>1. /\ pc = "imaging" /\ UNCHANGED <<steps, executed, decision, verdict>>
        /\ IF decision = Undecided THEN pc' = "routing" /\ observation'.after = fresh.after
           ELSE pc' = "verifying" /\ fresh'.after = fresh.after
    BY <1>3 DEF TakeFrame, Leave, LoopShape, Boards
  <2> QED  BY <2>1, SameAuthorized DEF Counted, Pending, Returned, Raised,
     LoopShape, None
<1>4. CASE AssemblyFails
  <2>1. pc \in Inside /\ pc' = "observation_failed" /\ UNCHANGED <<steps, executed>>
    BY <1>4 DEF AssemblyFails, FailObservation, Leave, Inside
  <2> QED  BY <2>1, SameAuthorized DEF Counted, Pending, Inside, Returned, Raised
<1>5. CASE Cancelled
  BY <1>5, NoneAuthorized DEF Cancelled, Propagate, Leave, Counted, Inside, Returned
<1>6. CASE StallOnUnknownScreen
  BY <1>6, NoneAuthorized DEF StallOnUnknownScreen, Propagate, Leave, Counted, Inside, Returned
<1>7. CASE CatalogGap
  BY <1>7, NoneAuthorized DEF CatalogGap, Propagate, Leave, Counted, Inside, Returned
<1>8. CASE RefuseLeak
  BY <1>8, NoneAuthorized DEF RefuseLeak, Propagate, Leave, Counted, Inside, Returned
<1>9. CASE DispatchRequest
  <2>1. /\ pc = "routing" /\ pc' = "calling"
        /\ UNCHANGED <<steps, executed, decision, verdict, observation>>
    BY <1>9 DEF DispatchRequest, Leave, Routed
  <2> QED  BY <2>1, SameAuthorized DEF Counted, Pending, Returned, Raised, LoopShape
<1>10. CASE CallChain
  <2>1. UNCHANGED <<pc, steps, executed, decision, verdict, observation, fresh>>
    BY <1>10 DEF CallChain, loopVars
  <2> QED  BY <2>1, SameAuthorized DEF Counted, Pending
<1>11. CASE NoDecision
  BY <1>11, NoneAuthorized DEF NoDecision, Propagate, Leave, Counted, Inside, Returned
<1>12. CASE Decide
  <2>1. /\ pc = "calling" /\ pc' = IF verdict' = "authorized" THEN "executing" ELSE "observing"
        /\ UNCHANGED <<steps, executed, observation>>
    BY <1>12 DEF Decide, Leave
  <2>2. PICK action \in DOMAIN Catalog \cup {"unlisted"} : decision'.action = action
    BY <1>12 DEF Decide
  <2>3. decision' # Undecided
    BY <2>2, LoopAssumption DEF Undecided, None
  <2>4. decision = Undecided /\ verdict = None
    BY <2>1 DEF Counted, InStep, Inside
  <2> QED  BY <2>1, <2>3, <2>4, SameAuthorized DEF Counted, Pending, Inside
<1>13. CASE Execute
  <2>1. /\ pc = "executing" /\ executed' = executed + 1
        /\ UNCHANGED <<decision, verdict, observation>>
        /\ \/ pc' = "observing" /\ steps' = steps
           \/ pc' = "raised" /\ steps' = <<>>
    BY <1>13 DEF Execute, Propagate, Leave
  <2>2. verdict = "authorized" /\ decision # Undecided
    BY <2>1 DEF Counted, InStep
  <2>3. CASE pc' = "observing" /\ steps' = steps
    BY <2>1, <2>2, <2>3, SameAuthorized DEF Counted, Pending, Inside, Returned
  <2>4. CASE pc' = "raised" /\ steps' = <<>>
    BY <2>1, <2>2, <2>4, NoneAuthorized DEF Counted, Inside, Returned
  <2> QED  BY <2>1, <2>3, <2>4
<1>14. CASE RefuseDecision
  BY <1>14, NoneAuthorized DEF RefuseDecision, Propagate, Leave, Counted, Inside, Returned
<1>15. CASE EndsByAgent
  <2>1. PICK b \in Bundles : steps' = Append(steps, b) /\ (b.authorized <=> verdict = "authorized")
    BY <1>15, Bundling, Zenon DEF EndsByAgent
  <2>2. pc = "verifying"
    BY <1>15, Bundling DEF EndsByAgent
  <2>3. /\ verdict = "authorized" => Cardinality(Authorized') = Cardinality(Authorized) + 1
        /\ verdict # "authorized" => Cardinality(Authorized') = Cardinality(Authorized)
    BY <2>1, AuthorizedAppended DEF Bundled, Counted
  <2>4. pc' = "ended_by_agent" /\ executed' = executed
    BY <1>15 DEF EndsByAgent, Leave, NextBoard
  <2> QED  BY <2>2, <2>3, <2>4 DEF Counted, Pending, Inside
<1>16. CASE EndsOnNoProgress
  <2>1. PICK b \in Bundles : steps' = Append(steps, b) /\ (b.authorized <=> verdict = "authorized")
    BY <1>16, Bundling, Zenon DEF EndsOnNoProgress
  <2>2. pc = "verifying"
    BY <1>16, Bundling DEF EndsOnNoProgress
  <2>3. /\ verdict = "authorized" => Cardinality(Authorized') = Cardinality(Authorized) + 1
        /\ verdict # "authorized" => Cardinality(Authorized') = Cardinality(Authorized)
    BY <2>1, AuthorizedAppended DEF Bundled, Counted
  <2>4. pc' = "ended_on_no_progress" /\ executed' = executed
    BY <1>16 DEF EndsOnNoProgress, Leave, NextBoard
  <2> QED  BY <2>2, <2>3, <2>4 DEF Counted, Pending, Inside
<1>17. CASE NextStep
  <2>1. PICK b \in Bundles : steps' = Append(steps, b) /\ (b.authorized <=> verdict = "authorized")
    BY <1>17, Bundling, Zenon DEF NextStep
  <2>2. pc = "verifying"
    BY <1>17, Bundling DEF NextStep
  <2>3. /\ verdict = "authorized" => Cardinality(Authorized') = Cardinality(Authorized) + 1
        /\ verdict # "authorized" => Cardinality(Authorized') = Cardinality(Authorized)
    BY <2>1, AuthorizedAppended DEF Bundled, Counted
  <2>4. pc' = "routing" /\ executed' = executed /\ observation' = fresh /\ verdict' = None
    BY <1>17 DEF NextStep, Leave, NextBoard
  <2> QED  BY <2>2, <2>3, <2>4 DEF Counted, Pending, Inside
<1>18. CASE UNCHANGED vars
  <2>1. UNCHANGED <<pc, steps, executed, decision, verdict, observation, fresh>>
    BY <1>18 DEF vars, loopVars
  <2> QED  BY <2>1, SameAuthorized DEF Counted, Pending
<1> QED
  BY <1>1, <1>2, <1>3, <1>4, <1>5, <1>6, <1>7, <1>8, <1>9, <1>10, <1>11, <1>12,
     <1>13, <1>14, <1>15, <1>16, <1>17, <1>18
     DEF Next

(* A tracker that went with an exception counts nothing. *)
LEMMA NoneCounted ==
  ASSUME steps' = <<>>, streak' = 0, pc' \in Raised
  PROVE  Backstop'
<1>1. Len(steps') = 0 /\ DOMAIN steps' = {}
  OBVIOUS
<1>2. pc' # "ended_by_agent" /\ pc' # "ended_on_no_progress"
  BY DEF Raised
<1> QED  BY <1>1, <1>2 DEF Backstop

(* Every step keeps the backstop's count. *)
LEMMA BackstopStep ==
  LoopShape /\ Bundled /\ Backstop /\ [Next]_vars => Backstop'
<1> SUFFICES ASSUME LoopShape, Bundled, Backstop, [Next]_vars PROVE Backstop'
  OBVIOUS
<1>1. CASE ReadInputs
  BY <1>1 DEF ReadInputs, Leave, Backstop, Returned
<1>2. CASE ReadFails
  <2>1. CASE FailObservation
    BY <1>2, <2>1 DEF ReadFails, FailObservation, Leave, Backstop, Returned
  <2>2. CASE Propagate("raised", <<>>)
    BY <2>2, NoneCounted DEF Propagate, Leave, Raised
  <2> QED  BY <1>2, <2>1, <2>2 DEF ReadFails
<1>3. CASE TakeFrame
  BY <1>3 DEF TakeFrame, Leave, Backstop, Returned
<1>4. CASE AssemblyFails
  BY <1>4 DEF AssemblyFails, FailObservation, Leave, Backstop, Returned
<1>5. CASE Cancelled
  BY <1>5, NoneCounted DEF Cancelled, Propagate, Leave, Raised
<1>6. CASE StallOnUnknownScreen
  BY <1>6, NoneCounted DEF StallOnUnknownScreen, Propagate, Leave, Raised
<1>7. CASE CatalogGap
  BY <1>7, NoneCounted DEF CatalogGap, Propagate, Leave, Raised
<1>8. CASE RefuseLeak
  BY <1>8, NoneCounted DEF RefuseLeak, Propagate, Leave, Raised
<1>9. CASE DispatchRequest
  BY <1>9 DEF DispatchRequest, Routed, Leave, Backstop, Returned
<1>10. CASE CallChain
  BY <1>10 DEF CallChain, loopVars, Backstop
<1>11. CASE NoDecision
  BY <1>11, NoneCounted DEF NoDecision, Propagate, Leave, Raised
<1>12. CASE Decide
  BY <1>12 DEF Decide, Leave, Backstop, Returned
<1>13. CASE Execute
  <2>1. CASE Propagate("raised", <<>>)
    BY <2>1, NoneCounted DEF Propagate, Leave, Raised
  <2>2. CASE Leave("observing") /\ UNCHANGED <<steps, streak, events>>
    BY <1>13, <2>2 DEF Execute, Leave, Backstop, Returned
  <2> QED  BY <1>13, <2>1, <2>2 DEF Execute
<1>14. CASE RefuseDecision
  BY <1>14, NoneCounted DEF RefuseDecision, Propagate, Leave, Raised
<1>15. CASE EndsByAgent
  <2>1. PICK b \in Bundles :
           /\ steps' = Append(steps, b) /\ b.streak = streak'
           /\ streak' = IF b.progress = "changed_state" THEN 0 ELSE streak + 1
           /\ b.ends <=> decision.ends
    BY <1>15, Bundling, Zenon DEF EndsByAgent
  <2>2. pc = "verifying"
    BY <1>15, Bundling DEF EndsByAgent
  <2>3. /\ Len(steps) \in Nat /\ Len(steps') = Len(steps) + 1
        /\ DOMAIN steps = 1 .. Len(steps) /\ DOMAIN steps' = 1 .. Len(steps')
        /\ \A i \in 1 .. Len(steps) : steps'[i] = steps[i]
        /\ steps'[Len(steps')] = b
    BY <2>1, Appended DEF Bundled
  <2>4. decision.ends /\ pc' = "ended_by_agent"
    BY <1>15 DEF EndsByAgent, Leave, Tripped
  <2>5. PICK last \in 0 .. Len(steps) :
          /\ streak = Len(steps) - last
          /\ last # 0 => steps[last].progress = "changed_state"
          /\ \A j \in (last + 1) .. Len(steps) : steps[j].progress # "changed_state"
    BY <2>2 DEF Backstop
  <2>6. \E l \in 0 .. Len(steps') :
          /\ streak' = Len(steps') - l
          /\ l # 0 => steps'[l].progress = "changed_state"
          /\ \A j \in (l + 1) .. Len(steps') : steps'[j].progress # "changed_state"
    <3>1. CASE b.progress = "changed_state"
      <4>1. streak' = Len(steps') - Len(steps')
        BY <2>1, <2>3, <3>1
      <4>2. steps'[Len(steps')].progress = "changed_state"
        BY <2>3, <3>1
      <4> QED  BY <2>3, <4>1, <4>2
    <3>2. CASE b.progress # "changed_state"
      <4>1. streak' = Len(steps') - last
        BY <2>1, <2>3, <2>5, <3>2
      <4>2. last # 0 => steps'[last].progress = "changed_state"
        BY <2>3, <2>5
      <4>3. ASSUME NEW j \in (last + 1) .. Len(steps') PROVE steps'[j].progress # "changed_state"
        BY <2>3, <2>5, <3>2
      <4> QED  BY <2>3, <4>1, <4>2, <4>3
    <3> QED  BY <3>1, <3>2
  <2>7. \A i \in DOMAIN steps : steps[i].streak < Limit /\ ~steps[i].ends
    BY <2>2 DEF Backstop, Returned
  <2> QED  BY <2>1, <2>3, <2>4, <2>6, <2>7 DEF Backstop, Returned
<1>16. CASE EndsOnNoProgress
  <2>1. PICK b \in Bundles :
           /\ steps' = Append(steps, b) /\ b.streak = streak'
           /\ streak' = IF b.progress = "changed_state" THEN 0 ELSE streak + 1
           /\ b.ends <=> decision.ends
    BY <1>16, Bundling, Zenon DEF EndsOnNoProgress
  <2>2. pc = "verifying"
    BY <1>16, Bundling DEF EndsOnNoProgress
  <2>3. /\ Len(steps) \in Nat /\ Len(steps') = Len(steps) + 1
        /\ DOMAIN steps = 1 .. Len(steps) /\ DOMAIN steps' = 1 .. Len(steps')
        /\ \A i \in 1 .. Len(steps) : steps'[i] = steps[i]
        /\ steps'[Len(steps')] = b
    BY <2>1, Appended DEF Bundled
  <2>4. ~decision.ends /\ streak' >= Limit /\ pc' = "ended_on_no_progress"
    BY <1>16 DEF EndsOnNoProgress, Leave, Tripped
  <2>5. PICK last \in 0 .. Len(steps) :
          /\ streak = Len(steps) - last
          /\ last # 0 => steps[last].progress = "changed_state"
          /\ \A j \in (last + 1) .. Len(steps) : steps[j].progress # "changed_state"
    BY <2>2 DEF Backstop
  <2>6. \E l \in 0 .. Len(steps') :
          /\ streak' = Len(steps') - l
          /\ l # 0 => steps'[l].progress = "changed_state"
          /\ \A j \in (l + 1) .. Len(steps') : steps'[j].progress # "changed_state"
    <3>1. CASE b.progress = "changed_state"
      <4>1. streak' = Len(steps') - Len(steps')
        BY <2>1, <2>3, <3>1
      <4>2. steps'[Len(steps')].progress = "changed_state"
        BY <2>3, <3>1
      <4> QED  BY <2>3, <4>1, <4>2
    <3>2. CASE b.progress # "changed_state"
      <4>1. streak' = Len(steps') - last
        BY <2>1, <2>3, <2>5, <3>2
      <4>2. last # 0 => steps'[last].progress = "changed_state"
        BY <2>3, <2>5
      <4>3. ASSUME NEW j \in (last + 1) .. Len(steps') PROVE steps'[j].progress # "changed_state"
        BY <2>3, <2>5, <3>2
      <4> QED  BY <2>3, <4>1, <4>2, <4>3
    <3> QED  BY <3>1, <3>2
  <2>7. \A i \in DOMAIN steps : steps[i].streak < Limit /\ ~steps[i].ends
    BY <2>2 DEF Backstop, Returned
  <2>8. ~steps'[Len(steps')].ends /\ Len(steps') > 0
    BY <2>1, <2>3, <2>4
  <2>9. \A i \in DOMAIN steps' :
          i = Len(steps') \/ (steps'[i].streak < Limit /\ ~steps'[i].ends)
    BY <2>3, <2>7
  <2> QED  BY <2>4, <2>6, <2>8, <2>9 DEF Backstop, Returned
<1>17. CASE NextStep
  <2>1. PICK b \in Bundles :
           /\ steps' = Append(steps, b) /\ b.streak = streak'
           /\ streak' = IF b.progress = "changed_state" THEN 0 ELSE streak + 1
           /\ b.ends <=> decision.ends
    BY <1>17, Bundling, Zenon DEF NextStep
  <2>2. pc = "verifying"
    BY <1>17, Bundling DEF NextStep
  <2>3. /\ Len(steps) \in Nat /\ Len(steps') = Len(steps) + 1
        /\ DOMAIN steps = 1 .. Len(steps) /\ DOMAIN steps' = 1 .. Len(steps')
        /\ \A i \in 1 .. Len(steps) : steps'[i] = steps[i]
        /\ steps'[Len(steps')] = b
    BY <2>1, Appended DEF Bundled
  <2>4. ~decision.ends /\ ~(streak' >= Limit) /\ pc' = "routing"
    BY <1>17 DEF NextStep, Leave, Tripped
  <2>5. PICK last \in 0 .. Len(steps) :
          /\ streak = Len(steps) - last
          /\ last # 0 => steps[last].progress = "changed_state"
          /\ \A j \in (last + 1) .. Len(steps) : steps[j].progress # "changed_state"
    BY <2>2 DEF Backstop
  <2>6. \E l \in 0 .. Len(steps') :
          /\ streak' = Len(steps') - l
          /\ l # 0 => steps'[l].progress = "changed_state"
          /\ \A j \in (l + 1) .. Len(steps') : steps'[j].progress # "changed_state"
    <3>1. CASE b.progress = "changed_state"
      <4>1. streak' = Len(steps') - Len(steps')
        BY <2>1, <2>3, <3>1
      <4>2. steps'[Len(steps')].progress = "changed_state"
        BY <2>3, <3>1
      <4> QED  BY <2>3, <4>1, <4>2
    <3>2. CASE b.progress # "changed_state"
      <4>1. streak' = Len(steps') - last
        BY <2>1, <2>3, <2>5, <3>2
      <4>2. last # 0 => steps'[last].progress = "changed_state"
        BY <2>3, <2>5
      <4>3. ASSUME NEW j \in (last + 1) .. Len(steps') PROVE steps'[j].progress # "changed_state"
        BY <2>3, <2>5, <3>2
      <4> QED  BY <2>3, <4>1, <4>2, <4>3
    <3> QED  BY <3>1, <3>2
  <2>7. \A i \in DOMAIN steps : steps[i].streak < Limit /\ ~steps[i].ends
    BY <2>2 DEF Backstop, Returned
  <2>8. b.streak \in Nat /\ b.streak < Limit /\ ~b.ends
    BY <2>1, <2>4, LoopAssumption DEF Bundles
  <2> QED  BY <2>3, <2>4, <2>6, <2>7, <2>8 DEF Backstop
<1>18. CASE UNCHANGED vars
  BY <1>18 DEF vars, loopVars, Backstop
<1> QED
  BY <1>1, <1>2, <1>3, <1>4, <1>5, <1>6, <1>7, <1>8, <1>9, <1>10, <1>11, <1>12,
     <1>13, <1>14, <1>15, <1>16, <1>17, <1>18
     DEF Next

(* Every step keeps a degraded run from counting as comparable. *)
LEMMA DegradationStep ==
  LoopShape /\ DegradationOnRun /\ [Next]_vars => DegradationOnRun'
<1> SUFFICES ASSUME LoopShape, DegradationOnRun, [Next]_vars PROVE DegradationOnRun'
  OBVIOUS
<1>1. CASE ReadInputs
  BY <1>1 DEF ReadInputs, Leave, DegradationOnRun
<1>2. CASE ReadFails
  BY <1>2 DEF ReadFails, FailObservation, Propagate, Leave, DegradationOnRun
<1>3. CASE TakeFrame
  <2>1. PICK frame \in Captured : frames' = Append(frames, frame) /\ comparability' = Downgraded(frame)
    BY <1>3 DEF TakeFrame, TakesFrame
  <2>2. /\ DOMAIN frames' = DOMAIN frames \cup {Len(frames) + 1}
        /\ frames'[Len(frames) + 1] = frame
        /\ \A i \in DOMAIN frames : frames'[i] = frames[i]
    BY <2>1 DEF LoopShape
  <2>3. CASE frame.status = "withheld"
    BY <2>1, <2>3 DEF Downgraded, DegradationOnRun
  <2>4. CASE frame.status # "withheld"
    BY <2>1, <2>2, <2>4 DEF Downgraded, DegradationOnRun
  <2> QED  BY <2>3, <2>4
<1>4. CASE AssemblyFails
  <2>1. PICK frame \in Captured : frames' = Append(frames, frame) /\ comparability' = Downgraded(frame)
    BY <1>4 DEF AssemblyFails, FailObservation, TakesFrame
  <2>2. /\ DOMAIN frames' = DOMAIN frames \cup {Len(frames) + 1}
        /\ frames'[Len(frames) + 1] = frame
        /\ \A i \in DOMAIN frames : frames'[i] = frames[i]
    BY <2>1 DEF LoopShape
  <2>3. CASE frame.status = "withheld"
    BY <2>1, <2>3 DEF Downgraded, DegradationOnRun
  <2>4. CASE frame.status # "withheld"
    BY <2>1, <2>2, <2>4 DEF Downgraded, DegradationOnRun
  <2> QED  BY <2>3, <2>4
<1>5. CASE Cancelled
  BY <1>5 DEF Cancelled, Propagate, Leave, DegradationOnRun
<1>6. CASE StallOnUnknownScreen
  BY <1>6 DEF StallOnUnknownScreen, Propagate, Leave, DegradationOnRun
<1>7. CASE CatalogGap
  BY <1>7 DEF CatalogGap, Propagate, Leave, DegradationOnRun
<1>8. CASE RefuseLeak
  BY <1>8 DEF RefuseLeak, Propagate, DegradationOnRun
<1>9. CASE DispatchRequest
  BY <1>9 DEF DispatchRequest, DegradationOnRun
<1>10. CASE CallChain
  BY <1>10 DEF CallChain, loopVars, DegradationOnRun
<1>11. CASE NoDecision
  BY <1>11 DEF NoDecision, Propagate, Leave, DegradationOnRun
<1>12. CASE Decide
  BY <1>12 DEF Decide, Leave, DegradationOnRun
<1>13. CASE Execute
  BY <1>13 DEF Execute, Propagate, Leave, DegradationOnRun
<1>14. CASE RefuseDecision
  BY <1>14 DEF RefuseDecision, Propagate, Leave, DegradationOnRun
<1>15. CASE EndsByAgent
  BY <1>15 DEF EndsByAgent, Leave, DegradationOnRun
<1>16. CASE EndsOnNoProgress
  BY <1>16 DEF EndsOnNoProgress, Leave, DegradationOnRun
<1>17. CASE NextStep
  BY <1>17 DEF NextStep, Leave, DegradationOnRun
<1>18. CASE UNCHANGED vars
  BY <1>18 DEF vars, loopVars, DegradationOnRun
<1> QED
  BY <1>1, <1>2, <1>3, <1>4, <1>5, <1>6, <1>7, <1>8, <1>9, <1>10, <1>11, <1>12,
     <1>13, <1>14, <1>15, <1>16, <1>17, <1>18
     DEF Next

(* What leaves the chain alone keeps its accounting. *)
LEMMA ChainStays == ChainInv /\ UNCHANGED chainVars => ChainInv'
BY StepInv

(* A chain that returned has nothing to account for. *)
LEMMA ReturnInv == ChainReturns => ChainInv'
<1> SUFFICES ASSUME ChainReturns PROVE ChainInv'
  OBVIOUS
<1>1. ChainTypeOK'
  BY ChainAssumption DEF ChainReturns, ChainTypeOK
<1>2. RetryCountTrue'
  BY DEF ChainReturns, RetryCountTrue
<1>3. SpentBeforeFallback' /\ Placed'
  BY DEF ChainReturns, SpentBeforeFallback, Placed
<1> QED  BY <1>1, <1>2, <1>3 DEF ChainInv

(* Every step of the loop keeps the accounting of the chain. *)
LEMMA ChainInvStep ==
  ChainInv /\ [Next]_vars => ChainInv'
<1> SUFFICES ASSUME ChainInv, [Next]_vars PROVE ChainInv'
  OBVIOUS
<1>1. CASE ReadInputs
  BY ChainStays, <1>1 DEF ReadInputs, Leave
<1>2. CASE ReadFails
  BY ChainStays, <1>2 DEF ReadFails, FailObservation, Propagate, Leave
<1>3. CASE TakeFrame
  BY ChainStays, <1>3 DEF TakeFrame, Leave
<1>4. CASE AssemblyFails
  BY ChainStays, <1>4 DEF AssemblyFails, FailObservation, Leave
<1>5. CASE Cancelled
  BY ChainStays, <1>5 DEF Cancelled, Propagate, Leave
<1>6. CASE StallOnUnknownScreen
  BY ChainStays, <1>6 DEF StallOnUnknownScreen, Propagate, Leave
<1>7. CASE CatalogGap
  BY ChainStays, <1>7 DEF CatalogGap, Propagate, Leave
<1>8. CASE RefuseLeak
  BY ChainStays, <1>8 DEF RefuseLeak, Propagate, Routed, Leave
<1>9. CASE DispatchRequest
  BY <1>9, ResetInv DEF DispatchRequest
<1>10. CASE CallChain
  BY <1>10, StepInv DEF CallChain, ChainStep
<1>11. CASE NoDecision
  BY ChainStays, <1>11 DEF NoDecision, Propagate, Leave
<1>12. CASE Decide
  BY <1>12, ReturnInv DEF Decide
<1>13. CASE Execute
  BY ChainStays, <1>13 DEF Execute, Propagate, Leave
<1>14. CASE RefuseDecision
  BY ChainStays, <1>14 DEF RefuseDecision, Propagate, Leave
<1>15. CASE EndsByAgent
  BY ChainStays, <1>15 DEF EndsByAgent, Leave
<1>16. CASE EndsOnNoProgress
  BY ChainStays, <1>16 DEF EndsOnNoProgress, Leave
<1>17. CASE NextStep
  BY ChainStays, <1>17 DEF NextStep, Leave
<1>18. CASE UNCHANGED vars
  BY <1>18, ChainStays DEF vars
<1> QED
  BY <1>1, <1>2, <1>3, <1>4, <1>5, <1>6, <1>7, <1>8, <1>9, <1>10, <1>11, <1>12,
     <1>13, <1>14, <1>15, <1>16, <1>17, <1>18
     DEF Next

(* The events of the attempt, and where one of them is found.              *)
Notes ==
  [type : {"capture_failed", "image_withheld", "turn_ended_on_no_progress", "unknown_screen"},
   step : Nat]
Lost(type, i) == [type |-> type, step |-> i]
Places(s, e) == {k \in DOMAIN s : s[k] = e}
TurnEnds(s) == {k \in DOMAIN s : s[k].type = "turn_ended_on_no_progress"}

(* As long as the attempt may return, the events name each frame withheld  *)
(* so far once with each of the two events, and no other; the backstop's   *)
(* event is among them only once it has ended the turn.                    *)
Noted ==
  /\ events \in Seq(Notes)
  /\ pc \in Inside \cup Returned =>
       \A i \in Nat, type \in {"capture_failed", "image_withheld"} :
         IF i \in DOMAIN frames /\ frames[i].status # "clean"
         THEN \E k : Places(events, Lost(type, i)) = {k}
         ELSE Places(events, Lost(type, i)) = {}
  /\ pc = "ended_on_no_progress" <=> TurnEnds(events) # {}

(* Where an event is found after one more. *)
LEMMA NoteAdded ==
  ASSUME NEW s \in Seq(Notes), NEW e \in Notes
  PROVE  /\ Append(s, e) \in Seq(Notes)
         /\ \A x : /\ x # e => Places(Append(s, e), x) = Places(s, x)
                   /\ x = e => Places(Append(s, e), x) = Places(s, x) \cup {Len(s) + 1}
         /\ e.type # "turn_ended_on_no_progress" => TurnEnds(Append(s, e)) = TurnEnds(s)
         /\ e.type = "turn_ended_on_no_progress" => TurnEnds(Append(s, e)) # {}
<1> DEFINE t == Append(s, e)
<1>1. /\ DOMAIN s = 1 .. Len(s) /\ DOMAIN t = DOMAIN s \cup {Len(s) + 1}
      /\ Len(s) + 1 \notin DOMAIN s /\ t \in Seq(Notes)
      /\ \A i \in DOMAIN s : t[i] = s[i]
      /\ t[Len(s) + 1] = e
  OBVIOUS
<1> HIDE DEF t
<1>2. ASSUME NEW x
      PROVE  /\ x # e => Places(t, x) = Places(s, x)
             /\ x = e => Places(t, x) = Places(s, x) \cup {Len(s) + 1}
  BY <1>1 DEF Places
<1>3. /\ e.type # "turn_ended_on_no_progress" => TurnEnds(t) = TurnEnds(s)
      /\ e.type = "turn_ended_on_no_progress" => Len(s) + 1 \in TurnEnds(t)
  BY <1>1 DEF TurnEnds
<1> QED  BY <1>1, <1>2, <1>3 DEF t

(* A frame's events are told apart by type and step. *)
LEMMA Distinct ==
  /\ \A a, b, i, j : Lost(a, i) = Lost(b, j) => a = b /\ i = j
  /\ \A a, i : Lost(a, i).type = a
  /\ \A i \in Nat : \A a \in {"capture_failed", "image_withheld", "turn_ended_on_no_progress"} :
       Lost(a, i) \in Notes
<1>1. \A a, b, i, j : Lost(a, i) = Lost(b, j) => a = b /\ i = j
  <2> TAKE a, b, i, j
  <2>1. /\ Lost(a, i).type = a /\ Lost(b, j).type = b
        /\ Lost(a, i).step = i /\ Lost(b, j).step = j
    BY DEF Lost
  <2> QED  BY <2>1
<1> QED  BY <1>1 DEF Lost, Notes

(* Of the events that went with an exception nothing is asked but that the *)
(* one it may bring is none of the backstop's.                             *)
LEMMA NoneNoted ==
  ASSUME events' = <<>> \/ (step \in Nat /\ events' = <<Lost("unknown_screen", step)>>),
         pc' \in Raised
  PROVE  Noted'
<1>1. pc' \notin Inside /\ pc' \notin Returned /\ pc' # "ended_on_no_progress"
  BY DEF Inside, Returned, Raised
<1>2. step \in Nat => Lost("unknown_screen", step) \in Notes
  BY DEF Lost, Notes
<1>3. Lost("unknown_screen", step).type = "unknown_screen"
  BY Distinct
<1> DEFINE e == Lost("unknown_screen", step)
<1> HIDE DEF e
<1>4. events' \in Seq(Notes) /\ TurnEnds(events') = {}
  <2>1. CASE events' = <<>>
    BY <2>1 DEF TurnEnds
  <2>2. CASE step \in Nat /\ events' = <<e>>
    <3>1. e \in Notes /\ e.type # "turn_ended_on_no_progress"
      BY <1>2, <1>3, <2>2 DEF e
    <3>2. events' \in Seq(Notes) /\ \A k \in DOMAIN events' : events'[k] = e
      BY <2>2, <3>1
    <3> QED  BY <3>1, <3>2 DEF TurnEnds
  <2> QED  BY <2>1, <2>2 DEF e
<1> QED  BY <1>1, <1>4 DEF Noted

(* Every step keeps the events the frames'. *)
LEMMA NotedStep ==
  LoopShape /\ Noted /\ [Next]_vars => Noted'
<1> SUFFICES ASSUME LoopShape, Noted, [Next]_vars PROVE Noted'
  OBVIOUS
<1>1. CASE ReadInputs
  BY <1>1 DEF ReadInputs, Leave, Noted, Inside
<1>2. CASE ReadFails
  <2>1. CASE FailObservation
    BY <1>2, <2>1 DEF ReadFails, FailObservation, Leave, Noted, Inside, Returned
  <2>2. CASE Propagate("raised", <<>>)
    BY <2>2, NoneNoted DEF Propagate, Leave, Raised
  <2> QED  BY <1>2, <2>1, <2>2 DEF ReadFails
<1>3. CASE TakeFrame
  <2> DEFINE n == Len(frames) + 1
             a == Lost("capture_failed", n)
             b == Lost("image_withheld", n)
             Kinds == {"capture_failed", "image_withheld"}
  <2>1. PICK frame \in Captured :
          /\ frames' = Append(frames, frame) /\ events' = events \o CaptureEvents(n, frame)
    BY <1>3 DEF TakeFrame, TakesFrame
  <2>2. /\ n \in Nat /\ DOMAIN frames' = DOMAIN frames \cup {n} /\ n \notin DOMAIN frames
        /\ frames'[n] = frame /\ \A i \in DOMAIN frames : frames'[i] = frames[i]
    BY <2>1 DEF LoopShape
  <2>3. /\ pc = "imaging" /\ pc' \in Inside
    BY <1>3 DEF TakeFrame, Leave, Inside
  <2>4. /\ a \in Notes /\ b \in Notes /\ a # b
        /\ a.type # "turn_ended_on_no_progress" /\ b.type # "turn_ended_on_no_progress"
    BY <2>2, Distinct
  <2>5. \A type \in Kinds : Places(events, Lost(type, n)) = {}
    BY <2>2, <2>3 DEF Noted, Inside
  <2>6. CASE frame.status = "clean"
    <3>1. events' = events
      BY <2>1, <2>6 DEF CaptureEvents, Noted
    <3>2. ASSUME NEW i \in Nat, NEW type \in Kinds
          PROVE  IF i \in DOMAIN frames' /\ frames'[i].status # "clean"
                 THEN \E k : Places(events', Lost(type, i)) = {k}
                 ELSE Places(events', Lost(type, i)) = {}
      <4>1. i \in DOMAIN frames' /\ frames'[i].status # "clean"
              <=> i \in DOMAIN frames /\ frames[i].status # "clean"
        BY <2>2, <2>6
      <4> QED  BY <2>3, <3>1, <4>1 DEF Noted, Inside
    <3> QED  BY <2>3, <3>1, <3>2 DEF Noted, Inside
  <2>7. CASE frame.status # "clean"
    <3>1. events' = Append(Append(events, a), b)
      <4>1. events' = events \o <<a, b>>
        BY <2>1, <2>7 DEF CaptureEvents, Lost
      <4> HIDE DEF a, b
      <4> QED  BY <2>4, <4>1 DEF Noted
    <3> DEFINE s == Append(events, a)
    <3>2. /\ s \in Seq(Notes) /\ TurnEnds(s) = TurnEnds(events)
          /\ \A x : x # a => Places(s, x) = Places(events, x)
          /\ Places(s, a) = Places(events, a) \cup {Len(events) + 1}
      BY <2>4, NoteAdded DEF Noted
    <3>3. events' = Append(s, b)
      BY <3>1
    <3> HIDE DEF s, a, b
    <3>4. /\ events' \in Seq(Notes) /\ TurnEnds(events') = TurnEnds(s)
          /\ \A x : x # b => Places(events', x) = Places(s, x)
          /\ Places(events', b) = Places(s, b) \cup {Len(s) + 1}
      BY <2>4, <3>2, <3>3, NoteAdded
    <3>5. \E k : Places(events', a) = {k}
      <4>1. Places(events, a) = {}
        BY <2>5 DEF a
      <4> QED  BY <2>4, <3>2, <3>4, <4>1
    <3>6. \E k : Places(events', b) = {k}
      <4>1. Places(events, b) = {}
        BY <2>5 DEF b
      <4> QED  BY <2>4, <3>2, <3>4, <4>1
    <3>7. ASSUME NEW i \in Nat, NEW type \in Kinds
          PROVE  IF i \in DOMAIN frames' /\ frames'[i].status # "clean"
                 THEN \E k : Places(events', Lost(type, i)) = {k}
                 ELSE Places(events', Lost(type, i)) = {}
      <4>1. CASE i = n
        BY <2>2, <2>7, <3>5, <3>6, <4>1 DEF a, b
      <4>2. CASE i # n
        <5>1. Lost(type, i) # a /\ Lost(type, i) # b
          BY <4>2, Distinct DEF a, b
        <5>2. Places(events', Lost(type, i)) = Places(events, Lost(type, i))
          BY <3>2, <3>4, <5>1
        <5>3. i \in DOMAIN frames' /\ frames'[i].status # "clean"
              <=> i \in DOMAIN frames /\ frames[i].status # "clean"
          BY <2>2, <4>2
        <5> QED  BY <2>3, <5>2, <5>3 DEF Noted, Inside
      <4> QED  BY <4>1, <4>2
    <3> QED  BY <2>3, <3>2, <3>4, <3>7 DEF Noted, Inside
  <2> QED  BY <2>6, <2>7
<1>4. CASE AssemblyFails
  <2>1. pc = "imaging" /\ pc' = "observation_failed" /\ events' = events
    BY <1>4 DEF AssemblyFails, FailObservation, Leave
  <2> QED  BY <2>1 DEF Noted, Inside, Returned
<1>5. CASE Cancelled
  BY <1>5, NoneNoted DEF Cancelled, Propagate, Leave, Raised
<1>6. CASE StallOnUnknownScreen
  <2>1. pc' = "unknown_screen" /\ events' = <<Lost("unknown_screen", step)>>
    BY <1>6 DEF StallOnUnknownScreen, Propagate, Leave, Lost
  <2> QED  BY <2>1, NoneNoted DEF LoopShape, Raised
<1>7. CASE CatalogGap
  BY <1>7, NoneNoted DEF CatalogGap, Propagate, Leave, Raised
<1>8. CASE RefuseLeak
  BY <1>8, NoneNoted DEF RefuseLeak, Propagate, Leave, Raised
<1>9. CASE DispatchRequest
  BY <1>9 DEF DispatchRequest, Routed, Leave, Noted, Inside
<1>10. CASE CallChain
  BY <1>10 DEF CallChain, loopVars, Noted
<1>11. CASE NoDecision
  BY <1>11, NoneNoted DEF NoDecision, Propagate, Leave, Raised
<1>12. CASE Decide
  BY <1>12 DEF Decide, Leave, Noted, Inside
<1>13. CASE Execute
  <2>1. CASE Propagate("raised", <<>>)
    BY <2>1, NoneNoted DEF Propagate, Leave, Raised
  <2>2. CASE Leave("observing") /\ UNCHANGED <<steps, streak, events>>
    BY <1>13, <2>2 DEF Execute, Leave, Noted, Inside
  <2> QED  BY <1>13, <2>1, <2>2 DEF Execute
<1>14. CASE RefuseDecision
  BY <1>14, NoneNoted DEF RefuseDecision, Propagate, Leave, Raised
<1>15. CASE EndsByAgent
  <2>1. pc' = "ended_by_agent" /\ UNCHANGED <<frames, events>>
    BY <1>15 DEF EndsByAgent, Leave
  <2>2. pc = "verifying"
    BY <1>15, Bundling DEF EndsByAgent
  <2> QED  BY <2>1, <2>2 DEF Noted, Inside, Returned
<1>16. CASE EndsOnNoProgress
  <2> DEFINE e == Lost("turn_ended_on_no_progress", step)
  <2>1. /\ pc' = "ended_on_no_progress" /\ frames' = frames /\ events' = Append(events, e)
    BY <1>16 DEF EndsOnNoProgress, Leave, Lost
  <2>2. pc = "verifying"
    BY <1>16, Bundling DEF EndsOnNoProgress
  <2>3. e \in Notes /\ e.type = "turn_ended_on_no_progress"
    BY Distinct DEF LoopShape
  <2>4. \A i \in Nat, type \in {"capture_failed", "image_withheld"} : Lost(type, i) # e
    BY Distinct
  <2> HIDE DEF e
  <2>5. /\ events' \in Seq(Notes) /\ TurnEnds(events') # {}
        /\ \A x : x # e => Places(events', x) = Places(events, x)
    BY <2>1, <2>3, NoteAdded DEF Noted
  <2> QED  BY <2>1, <2>2, <2>4, <2>5 DEF Noted, Inside
<1>17. CASE NextStep
  <2>1. pc' = "routing" /\ UNCHANGED <<frames, events>>
    BY <1>17 DEF NextStep, Leave
  <2>2. pc = "verifying"
    BY <1>17, Bundling DEF NextStep
  <2> QED  BY <2>1, <2>2 DEF Noted, Inside, Returned
<1>18. CASE UNCHANGED vars
  BY <1>18 DEF vars, loopVars, Noted
<1> QED
  BY <1>1, <1>2, <1>3, <1>4, <1>5, <1>6, <1>7, <1>8, <1>9, <1>10, <1>11, <1>12,
     <1>13, <1>14, <1>15, <1>16, <1>17, <1>18
     DEF Next

(* What leaves the chain alone keeps its log. *)
LEMMA LogStays == ChainInv /\ LogTold /\ UNCHANGED chainVars => LogTold'
BY LogStep

(* Every step of the loop keeps the log of the chain told. *)
LEMMA LogToldStep ==
  ChainInv /\ LogTold /\ [Next]_vars => LogTold'
<1> SUFFICES ASSUME ChainInv, LogTold, [Next]_vars PROVE LogTold'
  OBVIOUS
<1>1. CASE ReadInputs
  BY LogStays, <1>1 DEF ReadInputs, Leave
<1>2. CASE ReadFails
  BY LogStays, <1>2 DEF ReadFails, FailObservation, Propagate, Leave
<1>3. CASE TakeFrame
  BY LogStays, <1>3 DEF TakeFrame, Leave
<1>4. CASE AssemblyFails
  BY LogStays, <1>4 DEF AssemblyFails, FailObservation, Leave
<1>5. CASE Cancelled
  BY LogStays, <1>5 DEF Cancelled, Propagate, Leave
<1>6. CASE StallOnUnknownScreen
  BY LogStays, <1>6 DEF StallOnUnknownScreen, Propagate, Leave
<1>7. CASE CatalogGap
  BY LogStays, <1>7 DEF CatalogGap, Propagate, Leave
<1>8. CASE RefuseLeak
  BY LogStays, <1>8 DEF RefuseLeak, Propagate, Routed, Leave
<1>9. CASE DispatchRequest
  BY <1>9, LogFresh DEF DispatchRequest
<1>10. CASE CallChain
  BY <1>10, LogStep DEF CallChain
<1>11. CASE NoDecision
  BY LogStays, <1>11 DEF NoDecision, Propagate, Leave
<1>12. CASE Decide
  BY <1>12, LogFresh DEF Decide
<1>13. CASE Execute
  BY LogStays, <1>13 DEF Execute, Propagate, Leave
<1>14. CASE RefuseDecision
  BY LogStays, <1>14 DEF RefuseDecision, Propagate, Leave
<1>15. CASE EndsByAgent
  BY LogStays, <1>15 DEF EndsByAgent, Leave
<1>16. CASE EndsOnNoProgress
  BY LogStays, <1>16 DEF EndsOnNoProgress, Leave
<1>17. CASE NextStep
  BY LogStays, <1>17 DEF NextStep, Leave
<1>18. CASE UNCHANGED vars
  BY <1>18, LogStays DEF vars
<1> QED
  BY <1>1, <1>2, <1>3, <1>4, <1>5, <1>6, <1>7, <1>8, <1>9, <1>10, <1>11, <1>12,
     <1>13, <1>14, <1>15, <1>16, <1>17, <1>18
     DEF Next

(* The inductive invariant of the loop: its chain's accounting and log, its *)
(* types, and the facts above about frames, bundles, actions and events.   *)
LoopInv ==
  /\ ChainInv /\ LogTold /\ LoopShape /\ Noted
  /\ InStep /\ SentClean /\ Sending /\ Bundled /\ Counted /\ Backstop /\ DegradationOnRun

(* It holds before the first board is read. *)
LEMMA LoopInit == Init => LoopInv
<1> SUFFICES ASSUME Init PROVE LoopInv
  OBVIOUS
<1>1. ChainInv
  BY InitInv DEF Init
<1>2. LoopShape
  <2>1. host.profiles \in ProfileSets /\ Loads(host.profiles)
    BY DEF Init
  <2>2. NoBoard \in Boards /\ Undecided \in Decisions
    BY DEF NoBoard, Boards, Undecided, Decisions
  <2> QED  BY <2>1, <2>2 DEF Init, LoopShape, Inside
<1>3. InStep /\ SentClean /\ Sending
  BY DEF Init, InStep, SentClean, Sending, Opening
<1>4. Bundled
  BY DEF Init, Bundled, Opening, Returned, None
<1>5. Counted
  <2>1. Authorized = {}
    BY DEF Init, Authorized
  <2>2. Cardinality(Authorized) = 0
    BY <2>1, FS_EmptySet
  <2> QED  BY <2>2 DEF Init, Counted, Pending, None
<1>6. Backstop
  BY DEF Init, Backstop, Returned
<1>7. DegradationOnRun
  BY DEF Init, DegradationOnRun
<1>8. LogTold
  BY LogFresh DEF Init
<1>9. Noted
  <2>1. /\ pc = "observing" /\ events = <<>> /\ frames = <<>>
    BY DEF Init
  <2>2. /\ \A e : Places(events, e) = {}
        /\ TurnEnds(events) = {} /\ events \in Seq(Notes)
    BY <2>1 DEF Places, TurnEnds
  <2> QED  BY <2>1, <2>2 DEF Noted
<1> QED  BY <1>1, <1>2, <1>3, <1>4, <1>5, <1>6, <1>7, <1>8, <1>9 DEF LoopInv

(* Every step keeps it, and every behaviour has it throughout. *)
LEMMA LoopInductive == Spec => []LoopInv
<1>1. LoopInv /\ [Next]_vars => LoopInv'
  BY ChainInvStep, LoopShapeStep, InStepStep, SentCleanStep, SendingStep,
     BundledStep, CountedStep,
     BackstopStep, DegradationStep, LogToldStep, NotedStep DEF LoopInv
<1> QED  BY LoopInit, <1>1, PTL DEF Spec

(* The records of a frame are the one at its own place in the order. *)
LEMMA RecordsInPlace ==
  ASSUME LoopInv, NEW i \in DOMAIN frames
  PROVE  RecordsOf(i) = IF i <= Len(captures) THEN {i} ELSE {}
<1>1. DOMAIN captures = 1 .. Len(captures) /\ DOMAIN frames = 1 .. Len(frames)
  BY DEF LoopInv, LoopShape
<1>2. \A k \in DOMAIN captures : captures[k].step = k
  BY <1>1 DEF LoopInv, InStep
<1>3. i \in Nat \ {0} /\ Len(captures) \in Nat
  BY <1>1 DEF LoopInv, LoopShape
<1>4. RecordsOf(i) = {k \in 1 .. Len(captures) : k = i}
  BY <1>1, <1>2 DEF RecordsOf
<1> QED  BY <1>3, <1>4

(* Frames: however an attempt ends, each frame taken is on record once and *)
(* truthfully, marked as shown exactly when it was in a request, and a     *)
(* withheld one ends the run's comparability (FR-015, FR-050, FR-051).     *)
THEOREM FramesOnRecord == Spec => []FramesAccounted
<1>1. LoopInv => FramesAccounted
  <2> SUFFICES ASSUME LoopInv PROVE FramesAccounted
    OBVIOUS
  <2>1. /\ DOMAIN captures = 1 .. Len(captures) /\ DOMAIN frames = 1 .. Len(frames)
        /\ Len(captures) <= Len(frames) /\ Len(captures) \in Nat /\ Len(frames) \in Nat
    BY DEF LoopInv, LoopShape, InStep
  <2>2. TypeOK
    <3>1. ChainTypeOK
      BY DEF LoopInv, ChainInv
    <3>2. \A i \in DOMAIN frames : frames[i].status \in {"clean", "withheld"}
      BY FrameStatus DEF LoopInv, LoopShape
    <3>3. sent \subseteq DOMAIN frames
      BY <2>1 DEF LoopInv, SentClean
    <3>4. {observation, fresh} \subseteq
            [screen : Screens \cup {None}, after : Nat, id : Nat, assembled : Nat]
      BY DEF LoopInv, LoopShape, Boards
    <3>5. captures \in Seq([step : Nat, status : {"clean", "withheld"}, shown : BOOLEAN])
      BY DEF LoopInv, LoopShape, Written
    <3> QED  BY <3>1, <3>2, <3>3, <3>4, <3>5 DEF LoopInv, LoopShape, TypeOK
  <2>3. FrameRecorded
    <3>1. ASSUME NEW i \in DOMAIN frames PROVE Cardinality(RecordsOf(i)) <= 1
      <4>1. RecordsOf(i) = {i} \/ RecordsOf(i) = {}
        BY RecordsInPlace
      <4>2. Cardinality({i}) = 1 /\ Cardinality({}) = 0
        BY FS_Singleton, FS_EmptySet
      <4> QED  BY <4>1, <4>2
    <3>2. ASSUME pc \in (Returned \cup Raised) \ {"catalog_error", "invalid_decision"},
                 NEW i \in DOMAIN frames
          PROVE  \E k \in RecordsOf(i) : captures[k].status = frames[i].status
      <4>1. i \in 1 .. Len(captures)
        BY <2>1, <3>2 DEF LoopInv, InStep
      <4>2. i \in RecordsOf(i) /\ captures[i].status = frames[i].status
        BY <4>1, RecordsInPlace DEF LoopInv, InStep
      <4> QED  BY <4>2
    <3> QED  BY <3>1, <3>2 DEF FrameRecorded
  <2>4. ShownIffSent
    <3>1. \A k \in DOMAIN captures : captures[k].shown <=> captures[k].step \in sent
      BY <2>1 DEF LoopInv, InStep
    <3>2. ASSUME NEW i \in sent PROVE RecordsOf(i) # {}
      <4>1. i \in 1 .. Len(captures) /\ i \in DOMAIN frames
        BY <2>1 DEF LoopInv, SentClean
      <4> QED  BY <4>1, RecordsInPlace
    <3> QED  BY <3>1, <3>2 DEF ShownIffSent
  <2> QED  BY <2>2, <2>3, <2>4 DEF FramesAccounted, LoopInv
<1> QED  BY LoopInductive, <1>1, PTL

(* Actions: each reaches the game only on a board read after all earlier   *)
(* ones, an attempt that returns hands on a record of them all, and one    *)
(* that loses its view of the board of all but at most the last (FR-008,   *)
(* I14, T152).                                                             *)
THEOREM ActionsOnRecord == Spec => []ActionsAccounted
<1>1. LoopInv => ActionsAccounted
  <2> SUFFICES ASSUME LoopInv PROVE ActionsAccounted
    OBVIOUS
  <2>1. FreshBoard
    BY DEF LoopInv, Counted, FreshBoard
  <2>2. pc \in Inside \cup {"observation_failed"} => executed - Cardinality(Authorized) \in {0, 1}
    <3>1. Cardinality(Authorized) \in Nat /\ Pending \in {0, 1} /\ executed \in Nat
      BY DEF LoopInv, LoopShape, Counted, Pending
    <3>2. CASE pc \in Inside
      BY <3>1, <3>2 DEF LoopInv, Counted
    <3>3. CASE pc = "observation_failed"
      BY <3>3 DEF LoopInv, Counted
    <3> QED  BY <3>2, <3>3
  <2>3. pc \in Returned => executed = Cardinality(Authorized)
    BY DEF LoopInv, Counted
  <2>4. ExecutedIsRecorded
    BY <2>2, <2>3 DEF ExecutedIsRecorded, Authorized
  <2> QED  BY <2>1, <2>4 DEF ActionsAccounted
<1> QED  BY LoopInductive, <1>1, PTL

(* The backstop counts the steps since the last that changed the game and  *)
(* ends the attempt at the first that reaches the limit, never earlier,    *)
(* unless the agent ends it first (FR-014, SC-022).                        *)
THEOREM BackstopCounts == Spec => []BackstopExact
<1>1. LoopInv => BackstopExact
  <2> SUFFICES ASSUME LoopInv PROVE BackstopExact
    OBVIOUS
  <2> DEFINE n == Len(steps)
             changed == {i \in DOMAIN steps : steps[i].progress = "changed_state"}
             newest == CHOOSE i \in changed : \A j \in changed : j <= i
             tail == n - (IF changed = {} THEN 0 ELSE newest)
  <2>1. n \in Nat /\ DOMAIN steps = 1 .. n /\ streak \in Nat
    BY DEF LoopInv, LoopShape, Bundled
  <2>2. streak = tail
    <3>1. PICK last \in 0 .. n :
            /\ streak = n - last
            /\ last # 0 => steps[last].progress = "changed_state"
            /\ \A j \in (last + 1) .. n : steps[j].progress # "changed_state"
      BY DEF LoopInv, Backstop
    <3>2. CASE last = 0
      BY <2>1, <3>1, <3>2
    <3>3. CASE last # 0
      <4>1. last \in changed /\ \A j \in changed : j <= last
        BY <2>1, <3>1, <3>3
      <4>2. newest \in changed /\ \A j \in changed : j <= newest
        BY <4>1
      <4>3. newest = last
        BY <2>1, <3>1, <4>1, <4>2
      <4> QED  BY <3>1, <4>1, <4>3
    <3> QED  BY <3>2, <3>3
  <2>3. \A i \in DOMAIN steps :
          (pc \in Returned /\ i = n) \/ (steps[i].streak < Limit /\ ~steps[i].ends)
    BY DEF LoopInv, Backstop
  <2>4. pc = "ended_on_no_progress" <=>
          (pc \in Returned /\ n > 0 /\ tail >= Limit /\ ~steps[n].ends)
    <3>1. CASE pc = "ended_on_no_progress"
      BY <2>1, <2>2, <3>1 DEF LoopInv, Backstop, Returned
    <3>2. CASE pc = "ended_by_agent"
      BY <2>1, <3>2 DEF LoopInv, Backstop
    <3>3. CASE pc \notin Returned
      BY <3>3 DEF Returned
    <3> QED  BY <3>1, <3>2, <3>3 DEF Returned
  <2> QED  BY <2>2, <2>3, <2>4 DEF BackstopExact
<1> QED  BY LoopInductive, <1>1, PTL

(* Every file that loads has something to reject in each profile.  Without *)
(* it a frame that cannot be decoded passes the content gate.              *)
StrictProfiles ==
  \A profiles \in ProfileSets :
    Loads(profiles) => \A p \in DOMAIN profiles : profiles[p] # {}

(* What the gates have proved of a clean frame. *)
LEMMA CleanIsProven ==
  ASSUME LoopInv, StrictProfiles, NEW f \in Captured, f.status = "clean", f.wire
  PROVE  \E u \in f.used :
           /\ u.camera = "declared"
           /\ u.try.ready /\ u.try.captured /\ u.try.source
           /\ u.try.geometry /\ u.try.decodes /\ u.try.wire
           /\ \A c \in u.try.shows \cap Required : Techniques[c] = "text"
<1>1. PICK window \in BOOLEAN, tries \in [Tries -> TrySet], camera \in Camera :
        f = FrameOf(window, tries, camera)
  BY DEF Captured
<1> DEFINE t == FrameUsed(tries, camera, Reject)
<1>2. CaptureForStep(window, tries, camera, Reject).status = "clean"
  BY <1>1 DEF FrameOf
<1>3. AttemptOnce(t, camera, Reject) = "clean" /\ CaptureForStep(window, tries, camera, Reject).wire = t.wire
  BY <1>2, Zenon DEF CaptureForStep, FrameUsed
<1>4. /\ t.ready /\ t.captured /\ t.source /\ t.geometry /\ camera = "declared"
      /\ Detected(t, Reject) = {}
  <2> HIDE DEF t
  <2> QED  BY <1>3, Zenon DEF AttemptOnce, Screened, SourceGate, GeometryGate,
     ProvenanceGate, ContentGate
<1>5. /\ Loads(host.profiles) /\ host.profiles \in ProfileSets
      /\ Reject # {} /\ Required \subseteq Reject /\ Required \subseteq Categories
  <2>1. Loads(host.profiles) /\ host.profiles \in ProfileSets
    BY DEF LoopInv, LoopShape
  <2>2. host.profiles["default"] # {}
    BY <2>1 DEF StrictProfiles, Loads
  <2>3. CASE host.declared # "default" /\ host.platform \in DOMAIN host.profiles
    BY <2>1, <2>3 DEF StrictProfiles, Loads, Reject, ResolveProfile, Required
  <2>4. CASE ~(host.declared # "default" /\ host.platform \in DOMAIN host.profiles)
    <3>1. Reject = host.profiles["default"]
      BY <2>4 DEF Reject, ResolveProfile
    <3>2. Required = Universal \cup UNION {host.profiles[p] : p \in DOMAIN host.profiles}
      BY <2>4 DEF Required
    <3> QED  BY <2>1, <2>2, <3>1, <3>2 DEF Loads
  <2> QED  BY <2>1, <2>3, <2>4
<1>6. t.decodes /\ \A c \in t.shows \cap Required : Techniques[c] = "text"
  <2> HIDE DEF t
  <2>1. t.decodes
    BY <1>4, <1>5 DEF Detected
  <2>2. ASSUME NEW c \in t.shows \cap Required PROVE Techniques[c] = "text"
    <3>1. c \in Reject /\ Techniques[c] \in {"border", "corner", "text"}
      BY <1>5, ScreeningAssumption
    <3>2. /\ Techniques[c] = "border" => BorderSuspect(t)
          /\ Techniques[c] = "corner" => CornerSuspect(t)
      BY DEF BorderSuspect, CornerSuspect
    <3> QED  BY <1>4, <3>1, <3>2 DEF Detected
  <2> QED  BY <2>1, <2>2
<1>7. f.used = {[try |-> t, camera |-> camera]} /\ f.wire = t.wire
  BY <1>1, <1>2, <1>3, Zenon DEF FrameOf
<1> DEFINE u == [try |-> t, camera |-> camera]
<1>8. u \in f.used /\ u.camera = camera /\ u.try = t
  BY <1>7
<1>9. t.wire
  BY <1>7
<1> HIDE DEF t, u
<1> QED  BY <1>4, <1>6, <1>8, <1>9, Zenon

(* A frame reaches the agent only on a run whose tier permits images, and  *)
(* only if that very try passed all four gates (FR-024..FR-026).           *)
THEOREM OnlyCleanIsShown == ASSUME StrictProfiles PROVE Spec => []ShownIsProvenClean
<1>1. LoopInv => ShownIsProvenClean
  <2> SUFFICES ASSUME LoopInv, NEW i \in sent
               PROVE  /\ permitted
                      /\ \E u \in frames[i].used :
                           /\ u.camera = "declared"
                           /\ u.try.ready /\ u.try.captured /\ u.try.source
                           /\ u.try.geometry /\ u.try.decodes /\ u.try.wire
                           /\ \A c \in u.try.shows \cap Required : Techniques[c] = "text"
    BY DEF ShownIsProvenClean
  <2>1. i \in 1 .. Len(frames) /\ permitted /\ frames[i].wire /\ frames[i].status = "clean"
    BY DEF LoopInv, InStep, SentClean
  <2>2. frames[i] \in Captured
    BY <2>1 DEF LoopInv, LoopShape
  <2> QED  BY <2>1, <2>2, CleanIsProven
<1> QED  BY LoopInductive, <1>1, PTL

(* In the loop, too, the calls of a step are counted truly and in order,   *)
(* and no model is given up before it is spent (FR-040, FR-041, P3).       *)
THEOREM LoopCallsCounted == Spec => []CallsAccounted
<1>1. LoopInv => CallsAccounted
  BY DEF LoopInv, ChainInv, CallsAccounted
<1> QED  BY LoopInductive, <1>1, PTL

(* The steps the audits look at are those of the one turn. *)
LEMMA AuditedSteps ==
  ASSUME NEW s, NEW record, record = [turn \in {1} |-> s]
  PROVE  /\ DOMAIN record = {1} /\ record[1] = s
         /\ \A r \in StepsOf(record) : r = <<1, r[2]>> /\ r[1] = 1 /\ r[2] \in DOMAIN s
         /\ \A i \in DOMAIN s : <<1, i>> \in StepsOf(record)
<1>1. DOMAIN record = {1} /\ record[1] = s
  OBVIOUS
<1>2. StepsOf(record) = {<<1, i>> : i \in DOMAIN s}
  BY <1>1 DEF StepsOf
<1> QED  BY <1>1, <1>2

(* Steps that use nothing but their own number use nothing twice. *)
LEMMA OwnUses ==
  ASSUME NEW s, NEW record, record = [turn \in {1} |-> s], DOMAIN s \subseteq Nat,
         NEW uses, DOMAIN uses = StepsOf(record),
         \A r \in StepsOf(record) : uses[r] \subseteq {r[2]}, NEW kind
  PROVE  Reused(uses, kind) = {}
<1>1. ASSUME NEW q \in DOMAIN uses, NEW r \in DOMAIN uses, Before(q, r)
      PROVE  uses[q] \cap uses[r] = {}
  <2>1. q[1] = 1 /\ r[1] = 1 /\ q[2] \in Nat /\ r[2] \in Nat
    BY AuditedSteps
  <2>2. q[2] # r[2]
    BY <1>1, <2>1 DEF Before
  <2> QED  BY <2>2
<1> QED  BY <1>1 DEF Reused

(* What the audits of steps, prompts and parity find in a turn returned. *)
LEMMA AuditsAreClean == LoopInv => AuditsClean
<1> SUFFICES ASSUME LoopInv, pc \in Returned PROVE AuditsClean
  BY DEF AuditsClean
<1> DEFINE record == [turn \in {1} |-> steps]
           written == {captures[k].step : k \in DOMAIN captures}
<1>1. DOMAIN steps = 1 .. Len(steps) /\ Len(steps) \in Nat /\ DOMAIN captures = 1 .. Len(captures)
  BY DEF LoopInv, LoopShape, Bundled
<1>2. /\ DOMAIN record = {1} /\ record[1] = steps
      /\ \A r \in StepsOf(record) : r = <<1, r[2]>> /\ r[1] = 1 /\ r[2] \in DOMAIN steps
      /\ \A i \in DOMAIN steps : <<1, i>> \in StepsOf(record)
  BY AuditedSteps
<1>3. \A i \in DOMAIN steps :
        /\ steps[i].index = i /\ steps[i].seen = i /\ steps[i].images \subseteq {i}
        /\ steps[i].answers /\ (steps[i].authorized => steps[i].listed)
        /\ steps[i].images # {} => i \in sent
  BY DEF LoopInv, Bundled
<1>4. ASSUME NEW i \in DOMAIN steps PROVE steps[i].images \subseteq written
  <2>1. CASE steps[i].images = {}
    BY <2>1
  <2>2. CASE steps[i].images # {}
    <3>1. i \in 1 .. Len(captures)
      BY <1>3, <2>2 DEF LoopInv, SentClean
    <3>2. captures[i].step = i
      BY <3>1 DEF LoopInv, InStep
    <3> QED  BY <1>1, <1>3, <3>1, <3>2
  <2> QED  BY <2>1, <2>2
<1>5. AuditSteps(record) = {}
  <2>1. NonContiguous(record) = {}
    BY <1>2, <1>3 DEF NonContiguous, Gapped
  <2>2. Reused(Observations(record), "observation_reused") = {}
    <3>1. /\ DOMAIN Observations(record) = StepsOf(record)
          /\ \A r \in StepsOf(record) : Observations(record)[r] \subseteq {r[2]}
      BY <1>2, <1>3 DEF Observations
    <3> QED  BY <1>1, <3>1, OwnUses
  <2>3. Reused(Captures(record), "capture_reused") = {}
    <3>1. /\ DOMAIN Captures(record) = StepsOf(record)
          /\ \A r \in StepsOf(record) : Captures(record)[r] \subseteq {r[2]}
      BY <1>2, <1>3 DEF Captures
    <3> QED  BY <1>1, <3>1, OwnUses
  <2> QED  BY <2>1, <2>2, <2>3 DEF AuditSteps
<1>6. AuditPrompts(record) = {}
  BY <1>2, <1>3 DEF AuditPrompts
<1>7. OutcomeOf(DOMAIN record, AuditSteps(record) \cup AuditPrompts(record)) = "passed"
  BY <1>2, <1>5, <1>6 DEF OutcomeOf
<1>8. AuditParity(record, written) =
        {Finding("unresolved_action", 1, i) : i \in {j \in DOMAIN steps : ~steps[j].listed}}
  <2> DEFINE T == {j \in DOMAIN steps : ~steps[j].listed}
             S == {r \in StepsOf(record) : ~record[r[1]][r[2]].listed}
             D == {r \in StepsOf(record) : ~(record[r[1]][r[2]].images \subseteq written)}
  <2> HIDE DEF written
  <2>1. S = {<<1, i>> : i \in T}
    BY <1>2
  <2>2. D = {}
    BY <1>2, <1>4
  <2>3. AuditParity(record, written)
          = {Finding("unresolved_action", r[1], r[2]) : r \in S}
              \cup {Finding("dangling_capture_reference", r[1], r[2]) : r \in D}
    BY Zenon DEF AuditParity
  <2> HIDE DEF T, S, D
  <2>4. {Finding("unresolved_action", r[1], r[2]) : r \in S}
          = {Finding("unresolved_action", 1, i) : i \in T}
    <3> DEFINE F(r) == Finding("unresolved_action", r[1], r[2])
               G(i) == Finding("unresolved_action", 1, i)
    <3>1. \A i : <<1, i>>[1] = 1 /\ <<1, i>>[2] = i
      OBVIOUS
    <3>2. \A i \in T : <<1, i>> \in S /\ F(<<1, i>>) = G(i)
      BY <2>1, <3>1, Zenon
    <3>3. ASSUME NEW x \in {F(r) : r \in S} PROVE x \in {G(i) : i \in T}
      <4>1. PICK r \in S : x = F(r)
        BY <3>3
      <4>2. PICK i \in T : r = <<1, i>>
        BY <2>1
      <4> QED  BY <3>2, <4>1, <4>2, Zenon
    <3>4. ASSUME NEW x \in {G(i) : i \in T} PROVE x \in {F(r) : r \in S}
      <4>1. PICK i \in T : x = G(i)
        BY <3>4
      <4> QED  BY <3>2, <4>1, Zenon
    <3> QED  BY <3>3, <3>4, Zenon
  <2>5. {Finding("dangling_capture_reference", r[1], r[2]) : r \in D} = {}
    BY <2>2
  <2> QED  BY <2>3, <2>4, <2>5, Zenon DEF T
<1> HIDE DEF record, written
<1> QED  BY <1>3, <1>7, <1>8 DEF AuditsClean, record, written

(* The events of a turn returned name each withheld frame, and the         *)
(* backstop, exactly.                                                      *)
LEMMA EventsAreTrue == LoopInv => EventsNameWithheld
<1> SUFFICES ASSUME LoopInv, pc \in Returned PROVE EventsNameWithheld
  BY DEF EventsNameWithheld
<1>1. ASSUME NEW i \in DOMAIN frames, NEW type \in {"capture_failed", "image_withheld"}
      PROVE  Cardinality({k \in DOMAIN events : events[k] = [type |-> type, step |-> i]})
               = (IF frames[i].status = "clean" THEN 0 ELSE 1)
  <2>1. i \in Nat
    BY DEF LoopInv, LoopShape
  <2>2. {k \in DOMAIN events : events[k] = [type |-> type, step |-> i]} = Places(events, Lost(type, i))
    BY DEF Places, Lost
  <2>3. CASE frames[i].status = "clean"
    <3>1. Places(events, Lost(type, i)) = {}
      BY <2>1, <2>3 DEF LoopInv, Noted
    <3> QED  BY <2>2, <2>3, <3>1, FS_EmptySet
  <2>4. CASE frames[i].status # "clean"
    <3>1. PICK k : Places(events, Lost(type, i)) = {k}
      BY <2>1, <2>4 DEF LoopInv, Noted
    <3> QED  BY <2>2, <2>4, <3>1, FS_Singleton
  <2> QED  BY <2>3, <2>4
<1>2. pc = "ended_on_no_progress" <=>
        \E k \in DOMAIN events : events[k].type = "turn_ended_on_no_progress"
  BY DEF LoopInv, Noted, TurnEnds
<1> QED  BY <1>1, <1>2 DEF EventsNameWithheld

(* What an auditor reads off the record of an attempt is what happened in  *)
(* it: the audits of a turn returned pass but for an action the agent made *)
(* up, the events name the withheld frames and the backstop, and those of  *)
(* the chain tell what each failed call led to.                             *)
THEOREM RecordTells == Spec => []RecordTellsAttempt
<1>1. LoopInv => RecordTellsAttempt
  BY AuditsAreClean, EventsAreTrue, LogIsTrue DEF RecordTellsAttempt, LoopInv
<1> QED  BY LoopInductive, <1>1, PTL
=============================================================================
