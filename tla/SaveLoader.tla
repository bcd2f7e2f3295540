----------------------------- MODULE SaveLoader -----------------------------
(***************************************************************************)
(* saves/load_game.py (LuaSaveLoader.load) over the client of              *)
(* NexusClient, in the place where a run meets it: a turn is played over   *)
(* the shared connection while the watch probes it (nexus/heartbeat.py),   *)
(* the attempt is abandoned in the middle of a call, and the loader drives *)
(* the same client through the menu back to the turn's save.               *)
(***************************************************************************)
EXTENDS NexusClient

CONSTANT
    MaxPlay          \* bound: commands issued before the load

ASSUME LoaderAssumption ==
    /\ MaxPlay \in Nat /\ MaxPlay + 3 <= MaxCommands
    /\ {"turn", "watch"} \subseteq Tasks

VARIABLES
    ld,              \* where load is
    need,            \* needs_reconnect of the wait under way
    overdue,         \* the deadline of the wait under way has passed
    onDisk           \* external: the save file exists

loader == <<ld, need, overdue, onDisk>>
vars == <<nexusVars, loader>>

Waits == {"phase", "front", "await", "verify"}
Ends == {"loaded", "failed", "missing"}
LdStates == {"off", "exit", "load"} \cup Waits \cup Ends

Init ==
    /\ NexusInit
    /\ ld = "off" /\ need = FALSE /\ overdue = FALSE
    /\ onDisk \in BOOLEAN

-----------------------------------------------------------------------------
(* Play: one command of the turn at a time, and a heartbeat beside it      *)

Take(t) ==
    /\ got' = [got EXCEPT ![t] = Nothing]
    /\ call' = [call EXCEPT ![t] = Idle]

Act ==
    /\ ld = "off" /\ nonce < MaxPlay /\ got["turn"] = Nothing
    /\ Execute("turn", "InGame", "act")
    /\ UNCHANGED loader
Probe ==
    /\ ld = "off" /\ nonce < MaxPlay /\ got["watch"] = Nothing
    /\ Execute("watch", "GameCore_Tuner", "probe")
    /\ UNCHANGED loader
Receive(t) ==
    /\ ld = "off" /\ got[t] # Nothing /\ call[t].at = "idle"
    /\ Take(t)
    /\ UNCHANGED <<game, link, session, lock, waiters, strayed, loader>>

(* The bound on a detection pass cancels a probe (run_bounded); a fault or *)
(* a stopped turn cancels a command of the turn (run_under_detection).     *)
CancelCall(t) ==
    /\ ld = "off"
    /\ Cancel(t)
    /\ UNCHANGED <<game, link, session, strayed, loader>>

(* The attempt is over and no pass is under way: load(save) is entered.    *)
BeginWait(next) ==
    /\ ld' = next /\ overdue' = FALSE
    /\ need' = IF next = "verify" THEN FALSE ELSE ~writer
BeginLoad ==
    /\ ld = "off" /\ \A t \in Tasks : call[t].at = "idle"
    /\ got' = [t \in Tasks |-> Nothing] /\ call' = [t \in Tasks |-> Idle]
    /\ IF onDisk THEN BeginWait("phase")
                 ELSE ld' = "missing" /\ UNCHANGED <<need, overdue>>
    /\ UNCHANGED <<game, link, session, lock, waiters, strayed, onDisk>>

-----------------------------------------------------------------------------
(* load                                                                    *)

Free == call["turn"].at = "idle" /\ got["turn"] = Nothing
Returned == call["turn"].at = "idle" /\ got["turn"] # Nothing
Result == got["turn"]
Still == UNCHANGED <<game, link, session, lock, waiters, strayed, onDisk>>

IsFrontEnd_MenuNamed(tb) == "MainMenu" \in DOMAIN tb
IsFrontEnd(tb) == "MainMenu" \in DOMAIN tb /\ "InGame" \notin DOMAIN tb
HasGameStates(tb) == {"GameCore_Tuner", "InGame"} \subseteq DOMAIN tb
Awaited(tb) ==
    CASE ld = "phase" -> "InGame" \in DOMAIN tb \/ IsFrontEnd(tb)
      [] ld = "front" -> IsFrontEnd(tb)
      [] ld = "await" -> HasGameStates(tb)

(* _await_phase: one poll of the state table, on a new connection when the *)
(* last one failed.                                                        *)
Poll ==
    /\ ld \in Waits \ {"verify"} /\ Free
    /\ IF need THEN Reconnect("turn") ELSE Refresh("turn")
    /\ UNCHANGED loader

(* A wait that has not ended gives up once its deadline has passed.        *)
Retry_Forever == UNCHANGED <<ld, overdue>>
Retry ==
    /\ ld' = IF overdue THEN "failed" ELSE ld
    /\ UNCHANGED overdue

PollReturns ==
    /\ ld \in Waits \ {"verify"} /\ Returned /\ Take("turn")
    /\ IF Result.kind = "table" /\ Awaited(table)
       THEN BeginWait(IF ld = "await" THEN "verify"
                      ELSE IF ld = "phase" /\ "InGame" \in DOMAIN table THEN "exit"
                      ELSE "load")
       ELSE Retry /\ need' = (Result.kind # "table")
    /\ Still

(* _exit_to_main_menu, _issue_load: a delivered refusal fails the load, a  *)
(* lost answer leaves the decision to the wait that follows.               *)
Issue ==
    /\ ld \in {"exit", "load"} /\ Free
    /\ Execute("turn", IF ld = "exit" THEN "InGame" ELSE "MainMenu", ld)
    /\ UNCHANGED loader
IssueReturns ==
    /\ ld \in {"exit", "load"} /\ Returned /\ Take("turn")
    /\ IF Result.kind = "value" /\ ~Result.value.ok
       THEN ld' = "failed" /\ UNCHANGED <<need, overdue>>
       ELSE BeginWait(IF ld = "exit" THEN "front" ELSE "await")
    /\ Still

(* _verify_far_side: the position is read back from the loaded game; a     *)
(* read that fails is retried, a wrong position never is.                  *)
Verify ==
    /\ ld = "verify" /\ Free
    /\ IF need THEN Reconnect("turn") ELSE Execute("turn", "InGame", "verify")
    /\ UNCHANGED loader
(* Bound: with no command left to read with, the deadline ends the wait.   *)
VerifyExpires ==
    /\ ld = "verify" /\ Free /\ nonce = MaxCommands /\ overdue
    /\ Retry
    /\ UNCHANGED <<nexusVars, need, onDisk>>

CheckPosition_Assumed(value) == "loaded"
CheckPosition(value) == IF value.turn = Save THEN "loaded" ELSE "failed"

VerifyReturns ==
    /\ ld = "verify" /\ Returned /\ Take("turn")
    /\ \/ /\ Result.kind = "table"                  \* reconnected: go on to read
          /\ need' = FALSE /\ UNCHANGED <<ld, overdue>>
       \/ /\ Result.kind = "value" /\ Result.value.ok
          /\ ld' = CheckPosition(Result.value) /\ UNCHANGED <<need, overdue>>
       \/ /\ Result.kind = "value" /\ ~Result.value.ok
          /\ Retry /\ UNCHANGED need
       \/ /\ Result.kind \notin {"table", "value"}
          /\ Retry /\ need' = TRUE
    /\ Still

DeadlinePasses ==
    /\ ld \in Waits /\ ~overdue /\ overdue' = TRUE
    /\ UNCHANGED <<nexusVars, ld, need, onDisk>>

(* External: a save file may be removed behind the harness's back.         *)
LoseFile ==
    /\ onDisk /\ Fault /\ onDisk' = FALSE
    /\ UNCHANGED <<phase, board, link, session, calls, strayed, ld, need, overdue>>

LoaderStep ==
    \/ Poll \/ PollReturns \/ Issue \/ IssueReturns \/ Verify \/ VerifyReturns
    \/ VerifyExpires

Next ==
    \/ GameStep /\ UNCHANGED loader
    \/ \E t \in Tasks : ClientStep(t) /\ UNCHANGED loader
    \/ Act \/ Probe \/ \E t \in Tasks : Receive(t) \/ CancelCall(t)
    \/ BeginLoad \/ LoaderStep \/ DeadlinePasses \/ LoseFile

(* Every call in the client ends by its own bound, the clock runs, and a   *)
(* loader that can go on does; nothing is assumed of the game.             *)
Spec ==
    /\ Init /\ [][Next]_vars
    /\ WF_vars(LoaderStep) /\ WF_vars(DeadlinePasses)
    /\ \A t \in Tasks : WF_vars(ClientStep(t) /\ UNCHANGED loader)

-----------------------------------------------------------------------------
TypeOK ==
    /\ phase \in Phases /\ board \in Nat /\ faults \in 0..MaxFaults
    /\ {live, writer, strayed, need, overdue, onDisk} \subseteq BOOLEAN
    /\ table \in {NoTable} \cup {StateTable[p] : p \in Listening}
    /\ nonce \in 0..MaxCommands
    /\ lock \in Tasks \cup {"free"} /\ waiters \in Seq(Tasks)
    /\ \A t \in Tasks : /\ call[t].at \in {"idle", "lock", "output", "query", "dial", "greet", "shake"}
                        /\ call[t].nonce \in 0..nonce /\ call[t].tries \in 0..(ReconnectMax - 1)
                        /\ got[t].kind \in {"nothing", "value", "invalid", "table", "timeout",
                                            "closed", "refused", "unresolved"}
    /\ ld \in LdStates

(* load returns only when the client is in a game at the turn of the named *)
(* save: whatever became of the answers on the way, the position was read  *)
(* from the game that is now loaded (Principle IV).                        *)
LoadedIsNamed == ld = "loaded" => phase \in {"game", "dead"} /\ board = Save

(* LoadGame is only ever on its way to a game that has left the old game:  *)
(* it is sent from the front end or not at all.                            *)
LoadFromFrontEnd ==
    \A i \in DOMAIN requests : requests[i].body = "load" => phase = "menu"

(* load returns or raises, whatever the game does: a dead port, a leader   *)
(* screen that never clears and lost answers all end at a deadline.        *)
LoadEnds == (ld \notin {"off"} \cup Ends) ~> (ld \in Ends)

(* In well-typed states every caller is answered with its own: output by   *)
(* nonce, state tables by there being one query, one connection at a time. *)
OwnAnswers == TypeOK /\ OwnResult /\ TableIsFresh /\ TableOfThisLink

(* Commands, and LoadGame above all, reach the state and the phase they    *)
(* were meant for, however the client renumbers its states on the way.     *)
CommandsLand == RanWhereAimed /\ LoadFromFrontEnd
=============================================================================
