--------------------------- MODULE ProviderChain ---------------------------
(***************************************************************************)
(* One decision step served by the configured chain of models:             *)
(* provider/chain.py (ProviderChain.complete_step) over the adapter of     *)
(* provider/openrouter.py (OpenRouterProvider.complete).                   *)
(*                                                                         *)
(* A model is its position in the chain (1 is the primary).  The reply of  *)
(* the network to one call is a member of Replies; Outcome is what the     *)
(* adapter makes of it.  The waiting between two attempts is not modelled  *)
(* (it changes no state), the order of events and calls is.                *)
(***************************************************************************)
EXTENDS Naturals, Sequences, FiniteSets

CONSTANTS
    ChainLength,     \* 1 + the number of configured fallbacks
    MaxAttempts,     \* RetryPolicy.max_attempts_per_model
    Replies          \* the replies of the network that are explored

VARIABLES
    phase,           \* "idle", "calling", "failed", "served", "exhausted", "raised"
    model,           \* position of the model being tried
    attempt,         \* attempt against that model, from 1
    prior,           \* total_prior_attempts
    failures,        \* the failures list carried by the exhaustion event
    log              \* the run events this call has written, in order

chainVars == <<phase, model, attempt, prior, failures, log>>

(* What OpenRouterProvider.complete reports for each reply of the network. *)
Outcome ==
    [transport_error |-> "failed",           http_error    |-> "failed",
     too_many        |-> "rate_limited",     too_long      |-> "context_rejected",
     not_json        |-> "empty_response",   no_decision   |-> "empty_response",
     decision        |-> "decision_returned"]

(* Replies on which complete raises instead of reporting: more than one    *)
(* decision (P10), no API key, an image count that is not the request's.   *)
Raising == {"two_decisions", "no_credential", "images_dropped"}

ASSUME ChainAssumption ==
    /\ ChainLength \in Nat \ {0}
    /\ MaxAttempts \in Nat \ {0}
    /\ Replies \subseteq DOMAIN Outcome \cup Raising

Failed == {Outcome[r] : r \in DOMAIN Outcome} \ {"decision_returned"}
Failure == [model : 1..ChainLength, attempt : 1..MaxAttempts, outcome : Failed]
Event(type) == [type |-> type, model |-> model, attempt |-> attempt]

ChainInit ==
    /\ phase = "idle"
    /\ model = 1 /\ attempt = 1 /\ prior = 0
    /\ failures = <<>> /\ log = <<>>

(* complete_step is entered for a new request.                             *)
CompleteStep ==
    /\ phase' = "calling"
    /\ model' = 1 /\ attempt' = 1 /\ prior' = 0
    /\ failures' = <<>> /\ log' = <<>>

(* The call succeeds: retry_count and fallback_occurred are those of the   *)
(* whole chain.                                                            *)
Served ==
    /\ phase = "calling"
    /\ \E r \in Replies \cap DOMAIN Outcome : Outcome[r] = "decision_returned"
    /\ phase' = "served"
    /\ UNCHANGED <<model, attempt, prior, failures, log>>

(* complete_step has returned: its locals are gone.                        *)
ChainReturns ==
    /\ phase' = "idle"
    /\ model' = 1 /\ attempt' = 1 /\ prior' = 0
    /\ failures' = <<>> /\ log' = <<>>

RetryCount == prior
FallbackOccurred == model > 1

(* The call fails with an outcome: one failure, one PROVIDER_FAILURE event.*)
CallFails ==
    /\ phase = "calling"
    /\ \E r \in Replies \cap DOMAIN Outcome :
          /\ Outcome[r] # "decision_returned"
          /\ failures' = Append(failures, [model |-> model, attempt |-> attempt,
                                           outcome |-> Outcome[r]])
    /\ prior' = prior + 1
    /\ log' = Append(log, Event("provider_failure"))
    /\ phase' = "failed"
    /\ UNCHANGED <<model, attempt>>

CallRaises ==
    /\ phase = "calling"
    /\ Replies \cap Raising # {}
    /\ phase' = "raised"
    /\ UNCHANGED <<model, attempt, prior, failures, log>>

Rejected == failures[Len(failures)].outcome = "context_rejected"
Spent == Rejected \/ attempt = MaxAttempts

(* Events written when this model is given up, before the fallback.        *)
Rejection == IF Rejected THEN <<Event("context_rejected")>> ELSE <<>>

Retry ==
    /\ phase = "failed" /\ ~Spent
    /\ log' = Append(log, Event("provider_retry"))
    /\ attempt' = attempt + 1
    /\ phase' = "calling"
    /\ UNCHANGED <<model, prior, failures>>

Fallback_CountsAnew ==
    /\ phase = "failed" /\ Spent /\ model < ChainLength
    /\ log' = log \o Rejection \o <<Event("provider_fallback")>>
    /\ model' = model + 1 /\ attempt' = 1 /\ prior' = 0 /\ phase' = "calling"
    /\ UNCHANGED failures

Fallback ==
    /\ phase = "failed" /\ Spent /\ model < ChainLength
    /\ log' = log \o Rejection \o <<Event("provider_fallback")>>
    /\ model' = model + 1 /\ attempt' = 1
    /\ phase' = "calling"
    /\ UNCHANGED <<prior, failures>>

Exhausted ==
    /\ phase = "failed" /\ Spent /\ model = ChainLength
    /\ log' = log \o Rejection \o <<Event("model_chain_exhausted")>>
    /\ phase' = "exhausted"
    /\ UNCHANGED <<model, attempt, prior, failures>>

ChainNext == Served \/ CallFails \/ CallRaises \/ Retry \/ Fallback \/ Exhausted

(* The chain on its own, one request after another.                        *)
ChainSpec ==
    /\ ChainInit
    /\ [][ChainNext \/ (phase \notin {"calling", "failed"} /\ CompleteStep)]_chainVars

----------------------------------------------------------------------------
(* Every variable has its type.                                            *)
ChainTypeOK ==
    /\ phase \in {"idle", "calling", "failed", "served", "exhausted", "raised"}
    /\ model \in 1..ChainLength /\ attempt \in 1..MaxAttempts
    /\ prior \in Nat
    /\ failures \in Seq(Failure)
    /\ log \in Seq([type : {"provider_failure", "context_rejected", "provider_retry",
                            "provider_fallback", "model_chain_exhausted"},
                    model : 1..ChainLength, attempt : 1..MaxAttempts])

LexLess(m1, a1, m2, a2) == m1 < m2 \/ (m1 = m2 /\ a1 < a2)

(* The retry_count a served step is accounted with (FR-040, P3) is the     *)
(* number of calls that failed before it, no call is made twice, and the   *)
(* serving call comes after all of them.                                   *)
RetryCountTrue ==
    /\ prior = Len(failures)
    /\ \A i, j \in DOMAIN failures :
          i < j => LexLess(failures[i].model, failures[i].attempt,
                           failures[j].model, failures[j].attempt)
    /\ phase \in {"calling", "served"} =>
          \A i \in DOMAIN failures :
             LexLess(failures[i].model, failures[i].attempt, model, attempt)

(* A model is left only when it is spent: its last allowed attempt failed  *)
(* or it refused the context; and a model that refused the context is      *)
(* never asked again (FR-041, FR-042).                                     *)
SpentBeforeFallback ==
    /\ \A m \in 1..(IF phase = "exhausted" THEN ChainLength ELSE model - 1) :
          \E i \in DOMAIN failures :
             /\ failures[i].model = m
             /\ failures[i].attempt = MaxAttempts \/ failures[i].outcome = "context_rejected"
    /\ \A i, j \in DOMAIN failures :
          (i < j /\ failures[i].outcome = "context_rejected") =>
             failures[i].model # failures[j].model

Events(type) == {i \in DOMAIN log : log[i].type = type}

(* The events on record tell the same story as the accounting: a failure   *)
(* event for every failed call, each followed by what the chain did about  *)
(* it, and a fallback event exactly when another model served.             *)
LogTellsChain ==
    /\ phase \in {"served", "exhausted", "raised"} =>
          /\ Cardinality(Events("provider_failure")) = prior
          /\ Cardinality(Events("provider_fallback")) = model - 1
          /\ FallbackOccurred <=> Events("provider_fallback") # {}
          /\ \A i \in DOMAIN log :
                log[i].type = "provider_failure" =>
                   /\ i < Len(log)
                   /\ log[i + 1].type # "provider_failure"
                   /\ log[i + 1].model = log[i].model
    /\ phase = "exhausted" <=> Events("model_chain_exhausted") # {}

(* The accounting of a step's calls as a whole: counted truly, in order,   *)
(* and no model given up before it was spent or asked after it refused.    *)
CallsAccounted == RetryCountTrue /\ SpentBeforeFallback
=============================================================================
