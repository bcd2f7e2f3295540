----------------------------- MODULE Detection ------------------------------
(***************************************************************************)
(* A turn played under the watch: run/detection.py (run_under_detection,   *)
(* DetectionWatch) over resilience/detector.py, heartbeat_monitor.py,      *)
(* liveness.py and operation_bounds.py, the lock of nexus/client.py that a *)
(* probe shares with the turn's own commands, and time.                    *)
(*                                                                         *)
(* Time moves in ticks (Tick) and only when nothing is due, except while   *)
(* the turn holds the event loop itself: provider.complete and the waits   *)
(* between its retries are plain blocking calls.  After such a call timers *)
(* that have passed are served before the answers that came meanwhile.     *)
(***************************************************************************)
EXTENDS Naturals

CONSTANTS
    Interval,        \* DEFAULT_DETECTION_INTERVAL_S, in ticks
    PassBound,       \* DEFAULT_DETECTION_PASS_BOUND_S
    CommandBound,    \* DEFAULT_COMMAND_TIMEOUT_S
    HeartbeatBound,  \* DEFAULT_HEARTBEAT_TIMEOUT_S
    ReprobeDelay,    \* DEFAULT_RECONNECT_REPROBE_DELAY_S
    Threshold,       \* DEFAULT_SUSTAINED_HEARTBEAT_FAILURES
    Budget,          \* the 60 s of SC-010
    MaxBlock,        \* bound: the longest a provider call holds the loop
    MaxRaises        \* bound: passes that raise (a store that refuses a write)

VARIABLES
    client,          \* external: "well", "dead", "deaf" (answers nothing), "lost" (refuses)
    op,              \* the turn: "observed", "queued", "command", "blocking", "decided",
                     \*           "ended", "cancelled"
    opAge,           \* age of its command, or of the blocking call
    watch,           \* "asleep", "queued", "sent", "pause", "over"
    age,             \* since the watch fell asleep, or since the pass began
    hbAge,           \* since the heartbeat was sent, or the pause began
    reprobed,        \* the connection was found lost once in this pass
    turnFirst,       \* the lock's queue: the turn asked before the watch
    streak,          \* _consecutive_pass_timeouts
    recorded,        \* detection events written
    outcome,         \* of run_under_detection: "none", "own", "fault"
    awake, wall,     \* history: ticks since the client failed, not held and in all
    starved,         \* history: the loop was held while a pass was under way
    raises           \* bound

opVars == <<op, opAge>>
watchVars == <<watch, age, hbAge, reprobed, streak>>
history == <<awake, wall, starved>>
vars == <<client, opVars, watchVars, turnFirst, recorded, outcome, history, raises>>

ASSUME DetectionAssumption ==
    /\ {Interval, PassBound, CommandBound, HeartbeatBound, ReprobeDelay, Threshold, Budget}
         \subseteq Nat \ {0}
    /\ {MaxBlock, MaxRaises} \subseteq Nat
    /\ PassBound > CommandBound + HeartbeatBound

(* Most authoritative first (RECOVERABLE_DETECTIONS).                      *)
Faults == {"crash_detected", "hang_detected", "unresponsive_detected"}

Running == op \in {"observed", "queued", "command", "blocking", "decided"}
InPass == watch \in {"queued", "sent", "pause"}
Held == op = "blocking"
LockFree == op # "command" /\ watch # "sent"

Init ==
    /\ client = "well"
    /\ op = "decided" /\ opAge = 0
    /\ watch = "asleep" /\ age = 0 /\ hbAge = 0 /\ reprobed = FALSE
    /\ turnFirst = FALSE /\ streak = 0
    /\ recorded = {} /\ outcome = "none"
    /\ awake = 0 /\ wall = 0 /\ starved = FALSE /\ raises = 0

-----------------------------------------------------------------------------
(* The client (external) fails once and stays failed.                      *)
Fail ==
    /\ client = "well"
    /\ client' \in {"dead", "deaf", "lost"}
    /\ UNCHANGED <<opVars, watchVars, turnFirst, recorded, outcome, history, raises>>

(* The turn: commands under the lock, a provider call on what they read,   *)
(* commands again for what was decided, and an end, good or bad.           *)
OpMoves(next, at) ==
    /\ op' = next /\ opAge' = at
    /\ UNCHANGED <<client, watchVars, recorded, outcome, awake, wall, raises>>

Ask ==
    /\ op \in {"observed", "decided"} /\ OpMoves("queued", 0)
    /\ turnFirst' = (watch # "queued")
    /\ UNCHANGED starved
OpTakesLock ==
    /\ op = "queued" /\ LockFree /\ (watch = "queued" => turnFirst)
    /\ OpMoves("command", 0)
    /\ UNCHANGED <<turnFirst, starved>>
(* A command suspends the turn, so a timer of the watch that has passed is *)
(* served before the command's outcome reaches the turn.                   *)
TimerDue ==
    \/ watch = "asleep" /\ age >= Interval
    \/ InPass /\ age >= PassBound
    \/ watch = "sent" /\ hbAge >= HeartbeatBound
    \/ watch = "pause" /\ hbAge >= ReprobeDelay
(* Answered by a well client, found closed on a gone one, or timed out.    *)
CommandReturns ==
    /\ op = "command" /\ ~TimerDue
    /\ client # "deaf" \/ opAge >= CommandBound
    /\ \E next \in {"observed", "ended"} : OpMoves(next, 0)
    /\ UNCHANGED <<turnFirst, starved>>
CallProvider ==
    /\ op = "observed" /\ OpMoves("blocking", 0)
    /\ starved' = (starved \/ InPass)
    /\ UNCHANGED turnFirst
ProviderReturns ==
    /\ op = "blocking" /\ OpMoves("decided", 0)
    /\ UNCHANGED <<turnFirst, starved>>
EndTurn ==
    /\ op \in {"observed", "decided"} /\ OpMoves("ended", 0)
    /\ UNCHANGED <<turnFirst, starved>>

-----------------------------------------------------------------------------
(* The watch.  Each step needs the loop.                                   *)

Sleep == watch' = "asleep" /\ age' = 0 /\ hbAge' = 0 /\ reprobed' = FALSE

(* A fault is written, the turn is cancelled, its lock released, and the   *)
(* fault raised; a turn that has ended meanwhile is passed over.           *)
CancelOp == op' = (IF Running THEN "cancelled" ELSE op) /\ opAge' = 0
RaiseFault(event) ==
    /\ recorded' = recorded \cup {event}
    /\ outcome' = "fault"
    /\ CancelOp
    /\ watch' = "over" /\ UNCHANGED <<age, hbAge, reprobed>>

WatchOnly == UNCHANGED <<client, turnFirst, history, raises>>

(* asyncio.wait returns at once when the turn is done, and otherwise when  *)
(* the interval is over.                                                   *)
Returns ==
    /\ watch = "asleep" /\ op = "ended"
    /\ outcome' = "own" /\ watch' = "over"
    /\ UNCHANGED <<opVars, age, hbAge, reprobed, streak, recorded>> /\ WatchOnly

LivenessFails == client = "dead"

PassDue == watch = "asleep" /\ age >= Interval /\ Running /\ ~Held

(* check_now: liveness alone first, then the aggregate pass, whose         *)
(* heartbeat asks for the client's lock.                                   *)
PassFindsDead ==
    /\ PassDue /\ LivenessFails
    /\ RaiseFault("crash_detected") /\ UNCHANGED streak
    /\ WatchOnly
PassBegins ==
    /\ PassDue /\ ~LivenessFails
    /\ watch' = "queued" /\ age' = 0 /\ hbAge' = 0 /\ reprobed' = FALSE
    /\ turnFirst' = (op = "queued")
    /\ UNCHANGED <<client, opVars, streak, recorded, outcome, history, raises>>

PassExpired == age >= PassBound
WatchTakesLock ==
    /\ watch = "queued" /\ ~Held /\ ~PassExpired
    /\ LockFree /\ (op = "queued" => ~turnFirst)
    /\ watch' = "sent" /\ hbAge' = 0
    /\ UNCHANGED <<opVars, age, reprobed, streak, recorded, outcome>> /\ WatchOnly

(* A pass that completes, whatever it found, ends the streak.              *)
HeartbeatExpired_SinceAsked == age >= HeartbeatBound
HeartbeatExpired == watch = "sent" /\ hbAge >= HeartbeatBound

HeartbeatAnswered ==
    /\ watch = "sent" /\ client = "well" /\ ~Held /\ ~PassExpired /\ ~HeartbeatExpired
    /\ Sleep /\ streak' = 0
    /\ UNCHANGED <<opVars, recorded, outcome>> /\ WatchOnly

HeartbeatTimesOut ==
    /\ watch \in {"sent", "queued"} /\ ~Held /\ ~PassExpired /\ HeartbeatExpired
    /\ RaiseFault("hang_detected") /\ streak' = 0
    /\ WatchOnly

ConnectionLost == watch = "sent" /\ client \in {"dead", "lost"} /\ ~Held /\ ~PassExpired
FirstLoss_Forgotten ==
    /\ ConnectionLost /\ ~reprobed
    /\ watch' = "pause" /\ hbAge' = 0 /\ reprobed' = FALSE
    /\ UNCHANGED <<opVars, age, streak, recorded, outcome>> /\ WatchOnly
FirstLoss ==
    /\ ConnectionLost /\ ~reprobed
    /\ watch' = "pause" /\ hbAge' = 0 /\ reprobed' = TRUE
    /\ UNCHANGED <<opVars, age, streak, recorded, outcome>> /\ WatchOnly
Reprobe ==
    /\ watch = "pause" /\ hbAge >= ReprobeDelay /\ ~Held /\ ~PassExpired
    /\ watch' = "queued" /\ turnFirst' = (op = "queued")
    /\ UNCHANGED <<client, opVars, age, hbAge, reprobed, streak, recorded, outcome, history,
                   raises>>
SecondLoss ==
    /\ ConnectionLost /\ reprobed
    /\ RaiseFault(IF client = "dead" THEN "crash_detected" ELSE "unresponsive_detected")
    /\ streak' = 0
    /\ WatchOnly

(* _on_pass_timed_out: one eaten pass is a busy client, Threshold in a row *)
(* are a dead port.                                                        *)
Sustained == streak + 1 >= Threshold
PassTimesOut_StreakLost ==
    /\ InPass /\ PassExpired /\ ~Held
    /\ Sleep /\ streak' = 0
    /\ UNCHANGED <<opVars, recorded, outcome>> /\ WatchOnly
PassTimesOut ==
    /\ InPass /\ PassExpired /\ ~Held
    /\ \/ /\ Sustained
          /\ RaiseFault("unresponsive_detected") /\ streak' = 0
       \/ /\ ~Sustained
          /\ Sleep /\ streak' = streak + 1
          /\ UNCHANGED <<opVars, recorded, outcome>>
    /\ WatchOnly

(* A pass that raises is skipped; the turn goes on.                        *)
PassRaises ==
    /\ InPass /\ ~Held /\ client # "well"
    /\ raises < MaxRaises /\ raises' = raises + 1
    /\ Sleep /\ UNCHANGED <<opVars, streak, recorded, outcome, client, turnFirst, history>>

-----------------------------------------------------------------------------
(* Time.  Nothing that is due, and no answer of a well client to a probe,  *)
(* waits for it unless the loop is held.                                   *)

Due ==
    \/ PassDue \/ (watch = "asleep" /\ op = "ended")
    \/ (InPass /\ PassExpired)
    \/ watch = "sent" /\ (client # "deaf" \/ HeartbeatExpired)
    \/ watch = "pause" /\ hbAge >= ReprobeDelay
    \/ watch = "queued" /\ LockFree
    \/ op = "queued" /\ LockFree
    \/ op = "command" /\ (client \in {"dead", "lost"} \/ opAge >= CommandBound)

Upto(n, bound) == IF n < bound THEN n + 1 ELSE n

Tick ==
    /\ outcome = "none"
    /\ Held \/ ~Due
    /\ Held => opAge < MaxBlock
    /\ opAge' = IF op \in {"command", "blocking"} THEN opAge + 1 ELSE 0
    /\ age' = Upto(age, PassBound)
    /\ hbAge' = IF watch \in {"sent", "pause"} THEN Upto(hbAge, HeartbeatBound) ELSE hbAge
    /\ wall' = IF client = "well" THEN 0 ELSE Upto(wall, Budget + 1)
    /\ awake' = IF client = "well" THEN 0 ELSE IF Held THEN awake ELSE Upto(awake, Budget + 1)
    /\ UNCHANGED <<client, op, watch, reprobed, streak, turnFirst, recorded, outcome, starved,
                   raises>>

TurnStep ==
    \/ Ask \/ OpTakesLock \/ CommandReturns \/ CallProvider \/ ProviderReturns \/ EndTurn
WatchStep ==
    \/ Returns \/ PassFindsDead \/ PassBegins \/ WatchTakesLock \/ HeartbeatAnswered
    \/ HeartbeatTimesOut \/ FirstLoss \/ Reprobe \/ SecondLoss \/ PassTimesOut \/ PassRaises

Playing == outcome = "none"
Next == Playing /\ (Fail \/ TurnStep \/ WatchStep \/ Tick)

(* Time passes whatever the turn does, the loop serves the watch and the   *)
(* lock's queue whenever it is free, and a provider call returns.          *)
Spec ==
    /\ Init /\ [][Next]_vars
    /\ SF_vars(Playing /\ Tick) /\ WF_vars(Playing /\ WatchStep)
    /\ WF_vars(Playing /\ OpTakesLock) /\ WF_vars(Playing /\ CommandReturns)
    /\ WF_vars(Playing /\ ProviderReturns)

-----------------------------------------------------------------------------
TypeOK ==
    /\ client \in {"well", "dead", "deaf", "lost"}
    /\ op \in {"observed", "queued", "command", "blocking", "decided", "ended", "cancelled"}
    /\ opAge \in 0..(CommandBound + MaxBlock)
    /\ watch \in {"asleep", "queued", "sent", "pause", "over"}
    /\ age \in 0..PassBound /\ hbAge \in 0..HeartbeatBound
    /\ {reprobed, turnFirst, starved} \subseteq BOOLEAN
    /\ streak \in 0..(Threshold - 1)
    /\ recorded \subseteq Faults /\ outcome \in {"none", "own", "fault"}
    /\ {awake, wall} \subseteq 0..(Budget + 1) /\ raises \in 0..MaxRaises

(* A healthy turn is never abandoned: a fault is raised only on a client   *)
(* that has failed, however busy it was with the turn's own commands       *)
(* (FR-014), unless a provider call held the loop in the middle of a pass. *)
NoFalseAlarm == outcome = "fault" => client # "well" \/ starved

(* A failed client is found within the budget of SC-010, counted while the *)
(* loop is free, whichever of the signals finds it and wherever in its     *)
(* cadence the watch was, unless the turn ends by itself or a pass raised. *)
FoundInTime ==
    outcome = "none" /\ raises = 0 /\ ~starved => awake <= Budget

(* The same by the clock on the wall: SC-010's budget is a property of the *)
(* harness and not of how long a decision step takes.                      *)
FoundInTimeByTheClock ==
    outcome = "none" /\ raises = 0 => wall <= Budget

(* A failed client does not go unnoticed for ever: the turn ends by itself *)
(* or is abandoned, even when every pass is eaten.                         *)
FailedIsNoticed == client # "well" ~> outcome # "none"
=============================================================================
