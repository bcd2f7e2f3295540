------------------------------- MODULE Audit -------------------------------
(***************************************************************************)
(* The audits of operator/audit.py (civsim audit ...): what each of them   *)
(* finds in a stored record.  They only read; the modules that write the   *)
(* record use them to say what an auditor will find in it.                 *)
(*                                                                         *)
(* A record maps turns to the step bundles of their authoritative attempt. *)
(* A bundle has index, seen (the observation's id), images (the captures   *)
(* it lists), assembled and verified (times), listed (the action resolves  *)
(* in the catalog) and answers (a step a prompt triggered names a prompt). *)
(***************************************************************************)
EXTENDS Naturals, Sequences, FiniteSets

(* One finding; a turn-wide one is at step 0. *)
Finding(kind, turn, step) == [kind |-> kind, turn |-> turn, step |-> step]

(* AuditReport's outcome; without turns the per-run audits do not judge. *)
OutcomeOf(turns, findings) ==
  IF turns = {} THEN "insufficient_data"
  ELSE IF findings # {} THEN "failed" ELSE "passed"

StepsOf(record) == UNION {{<<t, i>> : i \in DOMAIN record[t]} : t \in DOMAIN record}

(* Step numbers run from 1 without a hole. *)
Gapped(steps) == \E i \in DOMAIN steps : steps[i].index # i
NonContiguous(record) ==
  {Finding("non_contiguous_step_index", t, 0) : t \in {u \in DOMAIN record : Gapped(record[u])}}

(* The second and every later use, in the order of the record. *)
Before(s, r) == s[1] < r[1] \/ (s[1] = r[1] /\ s[2] < r[2])
Reused(uses, kind) ==
  {Finding(kind, s[1], s[2]) :
     s \in {r \in DOMAIN uses :
              \E q \in DOMAIN uses : Before(q, r) /\ uses[q] \cap uses[r] # {}}}

Observations(record) == [s \in StepsOf(record) |-> {record[s[1]][s[2]].seen}]
Captures(record) == [s \in StepsOf(record) |-> record[s[1]][s[2]].images]

(* audit_steps: nothing observed or captured serves two steps of the run. *)
AuditSteps(record) ==
  NonContiguous(record)
    \cup Reused(Observations(record), "observation_reused")
    \cup Reused(Captures(record), "capture_reused")

(* audit_loop: each observation of a turn was assembled no earlier than    *)
(* the decision before it was verified.                                    *)
AuditLoop(record, turn) ==
  LET steps == record[turn]
  IN NonContiguous([t \in {turn} |-> steps])
       \cup {Finding("observation_assembled_before_prior_verification", turn, i) :
               i \in {j \in DOMAIN steps \ {1} : steps[j].assembled < steps[j - 1].verified}}
       \cup Reused(Captures([t \in {turn} |-> steps]), "capture_reused_within_turn")

(* audit_prompts: an answer to a prompt says which prompt it answers. *)
AuditPrompts(record) ==
  {Finding("prompt_response_missing_prompt_type", s[1], s[2]) :
     s \in {r \in StepsOf(record) : ~record[r[1]][r[2]].answers}}

(* audit_parity: the action of every step, and the view of every capture   *)
(* it lists, resolve in the catalog; a capture it lists is on record.      *)
AuditParity(record, onRecord) ==
  {Finding("unresolved_action", s[1], s[2]) :
     s \in {r \in StepsOf(record) : ~record[r[1]][r[2]].listed}}
    \cup
  {Finding("dangling_capture_reference", s[1], s[2]) :
     s \in {r \in StepsOf(record) : ~(record[r[1]][r[2]].images \subseteq onRecord)}}

----------------------------------------------------------------------------
(* audit_recovery, over the events turn_abandoned (the turns they name)    *)
(* and resumed ([turn, paired]: a turn_abandoned of the turn came before). *)
(* A turn's latest attempt is the one with the highest index.              *)
Latest(recs) == CHOOSE r \in recs : \A q \in recs : q.index <= r.index

AuditRecovery(abandonments, resumptions, records) ==
  LET at(t) == {r \in records : r.turn = t}
  IN {Finding("resumed_without_abandonment", r.turn, 0) :
        r \in {q \in resumptions : ~q.paired}}
     \cup {Finding("abandoned_turn_missing_from_record", t, 0) :
             t \in {u \in abandonments : at(u) = {}}}
     \cup {Finding("abandoned_attempt_still_authoritative", t, 0) :
             t \in {u \in abandonments :
                      at(u) # {} /\ Latest(at(u)).abandoned /\ Latest(at(u)).authoritative}}

(* first_owed_turn: a branch owes its record from its branch point on. *)
FirstOwed(parentTurn) == IF parentTurn = 0 THEN 1 ELSE parentTurn

(* audit_completeness: every hole in the turns the run owes. *)
AuditCompleteness(gaps, parentTurn) ==
  {Finding("turn_gap", t, 0) : t \in {g \in gaps : g >= FirstOwed(parentTurn)}}

----------------------------------------------------------------------------
(* audit_lineage of a branch, given its <<parent, turn>> (<<>> for none),  *)
(* the runs on record, the <<run, turn>> of every save point, and what the *)
(* branch_created events on the branch's own record name.                  *)
AuditLineage(lineage, runs, savePoints, created) ==
  IF lineage = <<>> THEN {"missing_lineage"}
  ELSE {finding \in {"parent_run_missing", "parent_save_point_missing",
                     "branch_created_event_missing_or_mismatched"} :
          \/ finding = "parent_run_missing" /\ lineage[1] \notin runs
          \/ finding = "parent_save_point_missing" /\ lineage \notin savePoints
          \/ /\ finding = "branch_created_event_missing_or_mismatched"
             /\ lineage \notin created}

(* audit_builds: the runs of a seed set, each build they report, and the   *)
(* transitions the set accepts.                                            *)
AuditBuilds(pinned, accepted, platform, builds) ==
  {<<"platform_transition_acceptance_missing_spike_ref", a.from, a.to>> :
     a \in {c \in accepted : platform[c.from] # platform[c.to] /\ ~c.spike}}
    \cup
  {<<"run_build_not_accounted_for", b, b>> :
     b \in builds \ ({pinned} \cup {a.to : a \in accepted})}
=============================================================================
