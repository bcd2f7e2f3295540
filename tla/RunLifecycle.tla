---------------------------- MODULE RunLifecycle ----------------------------
(***************************************************************************)
(* What one run's stored row promises (data-model.md section 4): the       *)
(* lifecycle moves only along the edges of run/lifecycle.py's              *)
(* LEGAL_TRANSITIONS, and a stop resolution is recorded exactly when the   *)
(* run reaches a terminal state.  Runner.tla is shown to implement it.     *)
(***************************************************************************)

VARIABLES
  lifecycle,   \* Run.lifecycle_state
  resolution   \* Run.stop_resolution, "none" while unset

rowVars == <<lifecycle, resolution>>

LifecycleState ==
  {"preparing", "playing", "waiting_on_model", "waiting_on_game", "paused",
   "interrupted", "resuming", "finished", "failed"}

TERMINAL_STATES == {"finished", "failed"}

StopResolution ==
  {"turn_reached", "victory", "defeat", "operator_stop",
   "unrecoverable_failure"}

LEGAL_TRANSITIONS ==
  {<<"preparing", "playing">>, <<"preparing", "failed">>,
   <<"playing", "waiting_on_model">>, <<"playing", "waiting_on_game">>,
   <<"playing", "paused">>, <<"playing", "interrupted">>,
   <<"playing", "finished">>,
   <<"waiting_on_model", "playing">>, <<"waiting_on_game", "playing">>,
   <<"paused", "playing">>, <<"interrupted", "resuming">>,
   <<"resuming", "playing">>, <<"resuming", "failed">>}

(* is_legal_transition: a self-loop is never legal. *)
IsLegalTransition(from, to) == <<from, to>> \in LEGAL_TRANSITIONS

(* Run._terminal_state_invariants, the validator every Run construction    *)
(* and every update_run passes through.  It does not ask a failed run for  *)
(* a resolution.                                                           *)
ValidRun(state, res) ==
  /\ state = "finished" => res # "none"
  /\ state \notin TERMINAL_STATES => res = "none"

-----------------------------------------------------------------------------
RowTypeOK ==
  /\ lifecycle \in LifecycleState
  /\ resolution \in StopResolution \cup {"none"}

RowInit == lifecycle = "preparing" /\ resolution = "none"

(* transition(): one legal edge; a resolution may come with it only when   *)
(* the edge enters a terminal state.                                       *)
Transition(to, res) ==
  /\ IsLegalTransition(lifecycle, to)
  /\ res # "none" => to \in TERMINAL_STATES
  /\ ValidRun(to, res)
  /\ lifecycle' = to
  /\ resolution' = res

RowNext ==
  \E to \in LifecycleState, res \in StopResolution \cup {"none"} :
    Transition(to, res)

RowSpec == RowInit /\ [][RowNext]_rowVars
=============================================================================
