---------------------- MODULE DetectionDispatch_proofs -----------------------
(***************************************************************************)
(* Two components, proved one after the other; neither part uses the other.*)
(*                                                                         *)
(* Detection.  The watch raises no false alarm: for every interval, bound  *)
(* and threshold with PassBound > CommandBound, a turn is abandoned only   *)
(* when its client has failed or a provider call held the loop during a    *)
(* pass.  And it is in time: if an interval, a command and a heartbeat fit *)
(* in the budget, a failure is found within it.                            *)
(*                                                                         *)
(* Dispatch.  What the loader lets through serves the code behind it, for  *)
(* whatever is under catalogs/.  With the shipped entries, for every game, *)
(* decision and answer of the Lua side: what is executed a human could     *)
(* have done on the board it was decided on, the call does what the        *)
(* decision means, and what is recorded is what the board after it shows.  *)
(***************************************************************************)
EXTENDS Detection, Dispatch, Shipped, WellFoundedInduction, TLAPS

(* A command is served, or given up, within its bound. *)
CommandAge == op = "command" => opAge <= CommandBound

(* A pass over a healthy client, the loop being free: it waits for at most *)
(* one command, which was there before it, and its heartbeat is answered   *)
(* in no time; so it ends long before its own bound.                       *)
HealthyPass ==
  client = "well" /\ ~starved /\ outcome = "none" =>
    /\ watch \in {"asleep", "queued", "sent"}
    /\ InPass => ~Held /\ age <= CommandBound
    /\ watch = "queued" =>
         /\ op = "command" => age <= opAge
         /\ op = "queued" /\ turnFirst => age = 0
    /\ watch = "sent" => hbAge = 0 /\ op # "command"

DetectionInv == TypeOK /\ CommandAge /\ HealthyPass /\ NoFalseAlarm

-----------------------------------------------------------------------------
LEMMA Bounds ==
  /\ Interval \in Nat \ {0} /\ PassBound \in Nat \ {0} /\ CommandBound \in Nat \ {0}
  /\ HeartbeatBound \in Nat \ {0} /\ ReprobeDelay \in Nat \ {0} /\ Threshold \in Nat \ {0}
  /\ Budget \in Nat \ {0} /\ MaxBlock \in Nat /\ MaxRaises \in Nat
  /\ CommandBound < PassBound
<1>1. {Interval, PassBound, CommandBound, HeartbeatBound, ReprobeDelay, Threshold, Budget}
        \subseteq Nat \ {0}
  BY DetectionAssumption
<1>2. {MaxBlock, MaxRaises} \subseteq Nat
  BY DetectionAssumption
<1>3. PassBound > CommandBound + HeartbeatBound
  BY DetectionAssumption
<1>4. /\ Interval \in Nat \ {0} /\ PassBound \in Nat \ {0} /\ CommandBound \in Nat \ {0}
      /\ HeartbeatBound \in Nat \ {0} /\ ReprobeDelay \in Nat \ {0} /\ Threshold \in Nat \ {0}
      /\ Budget \in Nat \ {0}
  BY <1>1
<1>5. MaxBlock \in Nat /\ MaxRaises \in Nat
  BY <1>2
<1>6. CommandBound < PassBound
  BY <1>3, <1>4
<1>. QED  BY <1>4, <1>5, <1>6

LEMMA DetectionInit == Init => DetectionInv
<1>. SUFFICES ASSUME Init PROVE DetectionInv
  OBVIOUS
<1>1. 0 \in 0..(CommandBound + MaxBlock) /\ 0 \in 0..PassBound /\ 0 \in 0..HeartbeatBound
      /\ 0 \in 0..(Threshold - 1) /\ 0 \in 0..(Budget + 1) /\ 0 \in 0..MaxRaises
  BY Bounds
<1>2. {reprobed, turnFirst, starved} \subseteq BOOLEAN
  BY DEF Init
<1>3. TypeOK
  BY <1>1, <1>2 DEF Init, TypeOK
<1>. QED  BY <1>3 DEF Init, DetectionInv, CommandAge, HealthyPass, NoFalseAlarm, InPass

(* The turn's own steps: a command begins with age 0, and only one that    *)
(* was queued before the pass can begin during it.                         *)
LEMMA TurnKeeps ==
  ASSUME DetectionInv, outcome = "none", TurnStep
  PROVE  DetectionInv'
<1>0. TypeOK /\ CommandAge /\ HealthyPass
  BY DEF DetectionInv
<1>1. CASE Ask
  <2>1. TypeOK'
    BY <1>0, <1>1, Bounds DEF Ask, OpMoves, TypeOK, watchVars
  <2>. QED  BY <1>0, <1>1, <2>1, Bounds DEF DetectionInv, Ask, OpMoves, watchVars, TypeOK,
              CommandAge, HealthyPass, NoFalseAlarm, InPass, Held
<1>2. CASE OpTakesLock
  <2>1. TypeOK'
    BY <1>0, <1>2, Bounds DEF OpTakesLock, OpMoves, TypeOK, watchVars
  <2>. QED  BY <1>0, <1>2, <2>1, Bounds DEF DetectionInv, OpTakesLock, OpMoves,
     watchVars, TypeOK,
              CommandAge, HealthyPass, NoFalseAlarm, InPass, Held, LockFree
<1>3. CASE CommandReturns
  <2>1. TypeOK'
    BY <1>0, <1>3, Bounds DEF CommandReturns, OpMoves, TypeOK, watchVars
  <2>. QED  BY <1>0, <1>3, <2>1, Bounds DEF DetectionInv, CommandReturns, OpMoves,
     watchVars, TypeOK,
              CommandAge, HealthyPass, NoFalseAlarm, InPass, Held
<1>4. CASE CallProvider
  <2>1. TypeOK'
    BY <1>0, <1>4, Bounds DEF CallProvider, OpMoves, TypeOK, watchVars, InPass
  <2>. QED  BY <1>0, <1>4, <2>1, Bounds DEF DetectionInv, CallProvider, OpMoves,
     watchVars, TypeOK,
              CommandAge, HealthyPass, NoFalseAlarm, InPass, Held
<1>5. CASE ProviderReturns \/ EndTurn
  <2>1. TypeOK'
    BY <1>0, <1>5, Bounds DEF ProviderReturns, EndTurn, OpMoves, TypeOK, watchVars
  <2>. QED  BY <1>0, <1>5, <2>1, Bounds DEF DetectionInv, ProviderReturns, EndTurn, OpMoves,
              watchVars, TypeOK, CommandAge, HealthyPass, NoFalseAlarm, InPass, Held
<1>. QED  BY <1>1, <1>2, <1>3, <1>4, <1>5 DEF TurnStep

(* A fault that is raised ends the turn in a typed state. *)
LEMMA Raised ==
  ASSUME DetectionInv, NEW event \in Faults, RaiseFault(event), WatchOnly,
         streak' \in 0..(Threshold - 1), client # "well" \/ starved
  PROVE  DetectionInv'
<1>0. TypeOK
  BY DEF DetectionInv
<1>1. TypeOK'
  BY <1>0, Bounds DEF TypeOK, RaiseFault, CancelOp, WatchOnly, history
<1>2. op' # "command"
  BY DEF RaiseFault, CancelOp, Running
<1>. QED  BY <1>0, <1>1, <1>2 DEF DetectionInv, CommandAge, HealthyPass, NoFalseAlarm,
            RaiseFault, WatchOnly, history

(* A pass over, the watch sleeps. *)
LEMMA Slept ==
  ASSUME DetectionInv, outcome = "none", Sleep, UNCHANGED <<opVars, recorded, outcome>>,
         UNCHANGED <<client, turnFirst, history>>, raises' \in 0..MaxRaises,
         streak' \in 0..(Threshold - 1)
  PROVE  DetectionInv'
<1>0. TypeOK
  BY DEF DetectionInv
<1>a. {reprobed', turnFirst', starved'} \subseteq BOOLEAN
  BY <1>0 DEF TypeOK, Sleep, history
<1>b. age' \in 0..PassBound /\ hbAge' \in 0..HeartbeatBound
  BY Bounds DEF Sleep
<1>1. TypeOK'
  BY <1>0, <1>a, <1>b DEF TypeOK, Sleep, opVars, history
<1>. QED  BY <1>1 DEF DetectionInv, CommandAge, HealthyPass, NoFalseAlarm,
            Sleep, opVars, history, InPass

(* The watch's steps. *)
LEMMA WatchKeeps ==
  ASSUME DetectionInv, outcome = "none", WatchStep
  PROVE  DetectionInv'
<1>0. TypeOK /\ CommandAge /\ HealthyPass
  BY DEF DetectionInv
<1>1. CASE Returns
  <2>1. TypeOK'
    BY <1>0, <1>1 DEF Returns, TypeOK, opVars, WatchOnly, history
  <2>. QED  BY <1>0, <1>1, <2>1 DEF DetectionInv, CommandAge, HealthyPass, NoFalseAlarm,
              Returns, opVars, WatchOnly, history
<1>2. CASE PassFindsDead
  BY <1>0, <1>2, Raised DEF PassFindsDead, LivenessFails, TypeOK, Faults
<1>3. CASE PassBegins
  <2>a. {reprobed', turnFirst', starved'} \subseteq BOOLEAN
    BY <1>0, <1>3 DEF PassBegins, TypeOK, history
  <2>b. age' \in 0..PassBound /\ hbAge' \in 0..HeartbeatBound
    BY <1>3, Bounds DEF PassBegins
  <2>1. TypeOK'
    BY <1>0, <1>3, <2>a, <2>b DEF PassBegins, TypeOK, opVars, history
  <2>. QED  BY <1>0, <1>3, <2>1, Bounds DEF DetectionInv, CommandAge, HealthyPass,
     NoFalseAlarm,
              PassBegins, PassDue, TypeOK, opVars, history, InPass, Held
<1>4. CASE WatchTakesLock
  <2>1. TypeOK'
    BY <1>0, <1>4, Bounds DEF WatchTakesLock, TypeOK, opVars, WatchOnly, history
  <2>. QED  BY <1>0, <1>4, <2>1 DEF DetectionInv, CommandAge, HealthyPass, NoFalseAlarm,
              WatchTakesLock, LockFree, opVars, WatchOnly, history, InPass, Held
<1>5. CASE HeartbeatAnswered
  BY <1>0, <1>5, Slept, Bounds DEF HeartbeatAnswered, WatchOnly, TypeOK
<1>6. CASE HeartbeatTimesOut
  <2>1. client # "well" \/ starved
    BY <1>0, <1>6, Bounds DEF HeartbeatTimesOut, HeartbeatExpired, HealthyPass
  <2>. QED  BY <1>6, <2>1, Raised, Bounds DEF HeartbeatTimesOut, Faults
<1>7. CASE FirstLoss
  <2>1. TypeOK'
    BY <1>0, <1>7, Bounds DEF FirstLoss, TypeOK, opVars, WatchOnly, history
  <2>. QED  BY <1>0, <1>7, <2>1 DEF DetectionInv, CommandAge, HealthyPass, NoFalseAlarm,
              FirstLoss, ConnectionLost, opVars, WatchOnly, history
<1>8. CASE Reprobe
  <2>1. TypeOK'
    BY <1>0, <1>8, Bounds DEF Reprobe, TypeOK, opVars, history
  <2>2. client # "well" \/ starved
    BY <1>0, <1>8 DEF Reprobe, HealthyPass
  <2>. QED  BY <1>0, <1>8, <2>1, <2>2 DEF DetectionInv, CommandAge, HealthyPass,
     NoFalseAlarm,
              Reprobe, opVars, history
<1>9. CASE SecondLoss
  BY <1>9, Raised, Bounds DEF SecondLoss, ConnectionLost, Faults
<1>10. CASE PassTimesOut
  <2>1. client # "well" \/ starved
    BY <1>0, <1>10, Bounds DEF PassTimesOut, PassExpired, HealthyPass, TypeOK
  <2>2. CASE Sustained /\ RaiseFault("unresponsive_detected") /\ streak' = 0
    BY <1>10, <2>1, <2>2, Raised, Bounds DEF PassTimesOut, Faults
  <2>3. CASE ~Sustained /\ Sleep /\ streak' = streak + 1 /\ UNCHANGED <<opVars, recorded, outcome>>
    BY <1>0, <1>10, <2>3, Slept, Bounds DEF PassTimesOut, Sustained, WatchOnly, TypeOK
  <2>. QED  BY <1>10, <2>2, <2>3 DEF PassTimesOut
<1>11. CASE PassRaises
  BY <1>0, <1>11, Slept, Bounds DEF PassRaises, TypeOK
<1>. QED  BY <1>1, <1>2, <1>3, <1>4, <1>5, <1>6, <1>7, <1>8, <1>9, <1>10,
   <1>11 DEF WatchStep

(* Time: a tick with the loop free finds nothing due, so neither a pass    *)
(* that could take the lock nor a heartbeat under way grows older.         *)
LEMMA TickKeeps ==
  ASSUME DetectionInv, Tick
  PROVE  DetectionInv'
<1>0. TypeOK /\ CommandAge /\ HealthyPass
  BY DEF DetectionInv
<1>1. /\ outcome = "none" /\ (Held \/ ~Due) /\ (Held => opAge < MaxBlock)
      /\ opAge' = (IF op \in {"command", "blocking"} THEN opAge + 1 ELSE 0)
      /\ UNCHANGED <<client, op, watch, reprobed, streak, turnFirst, recorded, outcome, starved,
                     raises>>
  BY DEF Tick
<1>2. age' = (IF age < PassBound THEN age + 1 ELSE age)
  BY DEF Tick, Upto
<1>3. hbAge' = (IF watch \in {"sent", "pause"}
                THEN IF hbAge < HeartbeatBound THEN hbAge + 1 ELSE hbAge ELSE hbAge)
  BY DEF Tick, Upto
<1>4. CommandAge'
  BY <1>0, <1>1, Bounds DEF CommandAge, TypeOK, Held, Due
<1>5. TypeOK'
  <2>1. opAge' \in 0..(CommandBound + MaxBlock)
    BY <1>0, <1>1, <1>4, Bounds DEF TypeOK, Held, CommandAge
  <2>2. awake' \in 0..(Budget + 1) /\ wall' \in 0..(Budget + 1)
    BY <1>0, Bounds DEF TypeOK, Tick, Upto
  <2>. QED  BY <1>0, <1>1, <1>2, <1>3, <2>1, <2>2, Bounds DEF TypeOK
<1>6. HealthyPass'
  <2>. SUFFICES ASSUME client = "well", ~starved
                PROVE  /\ watch \in {"asleep", "queued", "sent"}
                       /\ InPass => ~Held /\ age' <= CommandBound
                       /\ watch = "queued" =>
                            /\ op = "command" => age' <= opAge'
                            /\ op = "queued" /\ turnFirst => age' = 0
                       /\ watch = "sent" => hbAge' = 0 /\ op # "command"
    BY <1>1 DEF HealthyPass, InPass, Held
  <2>1. InPass => ~Held /\ watch = "queued" /\ op = "command" /\ opAge < CommandBound
    BY <1>0, <1>1, Bounds DEF HealthyPass, InPass, Due, LockFree, TypeOK
  <2>. QED  BY <1>0, <1>1, <1>2, <1>3, <2>1, Bounds DEF HealthyPass, InPass, TypeOK
<1>. QED  BY <1>1, <1>4, <1>5, <1>6 DEF DetectionInv, NoFalseAlarm

LEMMA DetectionStep == DetectionInv /\ [Next]_vars => DetectionInv'
<1>. SUFFICES ASSUME DetectionInv, [Next]_vars PROVE DetectionInv'
  OBVIOUS
<1>1. CASE UNCHANGED vars
  BY <1>1 DEF vars, opVars, watchVars, history, DetectionInv, TypeOK, CommandAge,
     HealthyPass,
     NoFalseAlarm, InPass, Held
<1>2. CASE Playing /\ Fail
  <2>1. TypeOK'
    BY <1>2 DEF DetectionInv, Fail, TypeOK, opVars, watchVars, history
  <2>. QED  BY <1>2, <2>1 DEF DetectionInv, Fail, CommandAge, HealthyPass, NoFalseAlarm,
              opVars, watchVars, history
<1>3. CASE Playing /\ TurnStep
  BY <1>3, TurnKeeps DEF Playing
<1>4. CASE Playing /\ WatchStep
  BY <1>4, WatchKeeps DEF Playing
<1>5. CASE Tick
  BY <1>5, TickKeeps
<1>. QED  BY <1>1, <1>2, <1>3, <1>4, <1>5 DEF Next

LEMMA DetectionInductive == Spec => []DetectionInv
BY DetectionInit, DetectionStep, PTL DEF Spec

-----------------------------------------------------------------------------
(* Every reachable state of the watch is well typed. *)
THEOREM DetectionTyped == Spec => []TypeOK
<1>1. DetectionInv => TypeOK
  BY DEF DetectionInv
<1>. QED  BY DetectionInductive, <1>1, PTL

(* A fault is raised only on a client that has failed, unless the loop was *)
(* held in the middle of a pass (run/detection.py, FR-014), whatever the   *)
(* constants: that a pass has time for the longest command and for its own *)
(* heartbeat is all the design rests on.                                   *)
THEOREM NoTurnLostInHealth == Spec => []NoFalseAlarm
<1>1. DetectionInv => NoFalseAlarm
  BY DEF DetectionInv
<1>. QED  BY DetectionInductive, <1>1, PTL

-----------------------------------------------------------------------------
(* How the bounds fit together: an interval, a command in the lock and a   *)
(* heartbeat make up less than the budget (10, 30, 10 and 60 seconds), and *)
(* the shorter timers are shorter than those that guard them.              *)
Roomy ==
  /\ Interval + CommandBound + HeartbeatBound <= Budget
  /\ Interval <= PassBound
  /\ ReprobeDelay <= HeartbeatBound

(* A pass the loop leaves alone: it waits for the one command that was     *)
(* there before it, then for a heartbeat, or for the pause before a second *)
(* one; and the time since the failure is no more than one interval and    *)
(* the pass's own age.                                                     *)
WatchedPass ==
  outcome = "none" /\ raises = 0 /\ ~starved =>
    /\ Held => ~InPass
    /\ watch # "over" /\ op # "cancelled"
    /\ client = "well" => awake = 0
    /\ watch = "asleep" => awake <= age /\ awake <= Interval
    /\ InPass => awake <= Interval + age
    /\ watch = "queued" /\ ~reprobed =>
         /\ age <= CommandBound
         /\ op = "command" => age <= opAge
         /\ op = "queued" /\ turnFirst => age = 0
    /\ watch = "sent" =>
         /\ op # "command"
         /\ client # "deaf" => hbAge = 0
         /\ ~reprobed => age <= CommandBound + hbAge
    /\ watch = "pause" =>
         /\ reprobed /\ client \in {"dead", "lost"}
         /\ age <= CommandBound + hbAge /\ hbAge <= ReprobeDelay
    /\ watch \in {"queued", "sent"} /\ reprobed =>
         /\ client \in {"dead", "lost"}
         /\ age <= CommandBound + HeartbeatBound

(* WatchedPass holds at the start. *)
LEMMA WatchedInit == Init => WatchedPass
BY Bounds DEF Init, WatchedPass, Held, InPass

(* A pass that stops being watched, or a turn that ends, says no more. *)
LEMMA FaultEnds == ASSUME NEW event, RaiseFault(event) PROVE WatchedPass'
BY DEF RaiseFault, WatchedPass

(* The turn's own steps keep it. *)
LEMMA WatchedTurn ==
  ASSUME DetectionInv, WatchedPass, outcome = "none", TurnStep
  PROVE  WatchedPass'
<1>0. TypeOK /\ CommandAge
  BY DEF DetectionInv
<1> USE DEF WatchedPass, OpMoves, watchVars, InPass, Held
<1>1. CASE Ask
  BY <1>0, <1>1, Bounds DEF Ask, TypeOK
<1>2. CASE OpTakesLock
  BY <1>0, <1>2, Bounds DEF OpTakesLock, LockFree, TypeOK
<1>3. CASE CommandReturns
  BY <1>0, <1>3, Bounds DEF CommandReturns, TypeOK
<1>4. CASE CallProvider
  BY <1>0, <1>4, Bounds DEF CallProvider, TypeOK
<1>5. CASE ProviderReturns \/ EndTurn
  BY <1>0, <1>5, Bounds DEF ProviderReturns, EndTurn, TypeOK
<1> QED  BY <1>1, <1>2, <1>3, <1>4, <1>5 DEF TurnStep

(* The watch's steps keep it. *)
LEMMA WatchedWatch ==
  ASSUME Roomy, DetectionInv, WatchedPass, outcome = "none", WatchStep
  PROVE  WatchedPass'
<1>0. TypeOK /\ HealthyPass
  BY DEF DetectionInv
<1> USE DEF WatchedPass, WatchOnly, history, opVars, InPass, Held
<1>1. CASE Returns
  BY <1>1 DEF Returns
<1>2. CASE PassFindsDead
  BY <1>2, FaultEnds DEF PassFindsDead
<1>3. CASE PassBegins
  BY <1>0, <1>3, Bounds DEF PassBegins, PassDue, TypeOK
<1>4. CASE WatchTakesLock
  BY <1>0, <1>4, Bounds DEF WatchTakesLock, LockFree, TypeOK
<1>5. CASE HeartbeatAnswered
  BY <1>0, <1>5, Bounds DEF HeartbeatAnswered, Sleep, TypeOK
<1>6. CASE HeartbeatTimesOut
  BY <1>6, FaultEnds DEF HeartbeatTimesOut
<1>7. CASE FirstLoss
  BY <1>0, <1>7, Bounds DEF FirstLoss, ConnectionLost, TypeOK, Roomy
<1>8. CASE Reprobe
  BY <1>0, <1>8, Bounds DEF Reprobe, TypeOK, Roomy
<1>9. CASE SecondLoss
  BY <1>9, FaultEnds DEF SecondLoss
<1>10. CASE PassTimesOut
  BY <1>0, <1>10, Bounds, FaultEnds, DetectionAssumption DEF PassTimesOut,
     PassExpired, TypeOK
<1>11. CASE PassRaises
  BY <1>0, <1>11, Bounds DEF PassRaises, TypeOK
<1> QED  BY <1>1, <1>2, <1>3, <1>4, <1>5, <1>6, <1>7, <1>8, <1>9, <1>10, <1>11
   DEF WatchStep

(* Time keeps it: with the loop free, a pass only grows older behind a     *)
(* command that can still be answered, in a heartbeat that is not yet      *)
(* given up, or in the pause.                                              *)
LEMMA WatchedTick ==
  ASSUME Roomy, DetectionInv, WatchedPass, Tick
  PROVE  WatchedPass'
<1>0. TypeOK /\ CommandAge
  BY DEF DetectionInv
<1>1. /\ outcome = "none" /\ (Held \/ ~Due)
      /\ opAge' = (IF op \in {"command", "blocking"} THEN opAge + 1 ELSE 0)
      /\ UNCHANGED <<client, op, watch, reprobed, streak, turnFirst, recorded, outcome, starved,
                     raises>>
  BY DEF Tick
<1>2. age' = (IF age < PassBound THEN age + 1 ELSE age)
  BY DEF Tick, Upto
<1>3. hbAge' = (IF watch \in {"sent", "pause"}
                THEN IF hbAge < HeartbeatBound THEN hbAge + 1 ELSE hbAge ELSE hbAge)
  BY DEF Tick, Upto
<1>4. /\ client = "well" => awake' = 0
      /\ awake' = awake \/ (~Held /\ awake' = awake + 1) \/ awake' = 0
  BY DEF Tick, Upto
<1> SUFFICES ASSUME raises = 0, ~starved PROVE WatchedPass'
  BY <1>1 DEF WatchedPass
<1>5. CASE watch = "asleep"
  <2>1. ~Held => age < Interval
    BY <1>0, <1>1, <1>5, Bounds DEF Due, PassDue, Running, TypeOK, WatchedPass
  <2> QED BY <1>0, <1>1, <1>2, <1>3, <1>4, <1>5, <2>1, Bounds DEF WatchedPass,
     TypeOK, InPass, Roomy
<1>6. CASE watch = "queued"
  <2>1. ~Held /\ op = "command" /\ client \notin {"dead", "lost"} /\ opAge < CommandBound
    BY <1>0, <1>1, <1>6, Bounds DEF Due, LockFree, TypeOK, WatchedPass, InPass
  <2> QED BY <1>0, <1>1, <1>2, <1>3, <1>4, <1>6, <2>1, Bounds DEF WatchedPass,
     TypeOK, InPass, Held
<1>7. CASE watch = "sent"
  <2>1. ~Held /\ client = "deaf" /\ hbAge < HeartbeatBound
    BY <1>0, <1>1, <1>7, Bounds DEF Due, HeartbeatExpired, TypeOK, WatchedPass, InPass
  <2> QED BY <1>0, <1>1, <1>2, <1>3, <1>4, <1>7, <2>1, Bounds,
     DetectionAssumption DEF WatchedPass, TypeOK, InPass, Held
<1>8. CASE watch = "pause"
  <2>1. ~Held /\ hbAge < ReprobeDelay
    BY <1>0, <1>1, <1>8, Bounds DEF Due, TypeOK, WatchedPass, InPass
  <2> QED BY <1>0, <1>1, <1>2, <1>3, <1>4, <1>8, <2>1, Bounds,
     DetectionAssumption DEF WatchedPass, TypeOK, InPass, Held, Roomy
<1> QED BY <1>0, <1>1, <1>5, <1>6, <1>7, <1>8 DEF WatchedPass, TypeOK

(* Every step keeps it. *)
LEMMA WatchedStep ==
  ASSUME Roomy
  PROVE  DetectionInv /\ WatchedPass /\ [Next]_vars => WatchedPass'
<1> SUFFICES ASSUME DetectionInv, WatchedPass, [Next]_vars PROVE WatchedPass'
  OBVIOUS
<1>1. CASE UNCHANGED vars
  BY <1>1 DEF vars, opVars, watchVars, history, WatchedPass, InPass, Held
<1>2. CASE Playing /\ Fail
  BY <1>2, Bounds DEF Fail, WatchedPass, InPass, Held, opVars, watchVars, history
<1>3. CASE Playing /\ TurnStep
  BY <1>3, WatchedTurn DEF Playing
<1>4. CASE Playing /\ WatchStep
  BY <1>4, WatchedWatch DEF Playing
<1>5. CASE Tick
  BY <1>5, WatchedTick
<1> QED  BY <1>1, <1>2, <1>3, <1>4, <1>5 DEF Next

(* A failed client is found within the budget, whatever the turn was doing *)
(* and wherever in its cadence the watch was when it failed: after at most *)
(* an interval, the longest command and a heartbeat of free loop, unless   *)
(* the turn ended, a pass raised or a provider call held the loop during a *)
(* pass (run/detection.py, SC-010).                                        *)
THEOREM FoundWithinBudget == ASSUME Roomy PROVE Spec => []FoundInTime
<1>1. DetectionInv /\ WatchedPass => FoundInTime
  <2> SUFFICES ASSUME DetectionInv, WatchedPass, outcome = "none", raises = 0, ~starved
               PROVE  awake <= Budget
    BY DEF FoundInTime
  <2>0. TypeOK
    BY DEF DetectionInv
  <2>1. CASE watch = "asleep"
    BY <2>0, <2>1, Bounds DEF WatchedPass, TypeOK, Roomy
  <2>2. CASE InPass
    <3>1. awake <= Interval + age /\ age <= CommandBound + HeartbeatBound
      BY <2>0, <2>2, Bounds DEF WatchedPass, TypeOK, Roomy, InPass
    <3> QED BY <2>0, <3>1, Bounds DEF TypeOK, Roomy
  <2> QED BY <2>0, <2>1, <2>2 DEF WatchedPass, TypeOK, InPass
<1>2. DetectionInv /\ WatchedPass /\ [Next]_vars => WatchedPass'
  BY WatchedStep
<1> QED BY <1>1, <1>2, DetectionInductive, WatchedInit, PTL DEF Spec

----------------------------------------------------------------------------
(* Predicates: the evaluator. A predicate has at most six levels, so the   *)
(* table EvalNode chooses exists, level by level, and is the only one.     *)

Deep1(n) == Parts(n) = {}
Deep2(n) == \A p \in Parts(n) : Deep1(p)
Deep3(n) == \A p \in Parts(n) : Deep2(p)
Deep4(n) == \A p \in Parts(n) : Deep3(p)
Deep5(n) == \A p \in Parts(n) : Deep4(p)
Deep6(n) == \A p \in Parts(n) : Deep5(p)

(* A node of few levels is one of more.                                    *)
LEMMA Deeper ==
    ASSUME NEW n
    PROVE  /\ Deep1(n) => Deep2(n)
           /\ Deep2(n) => Deep3(n)
           /\ Deep3(n) => Deep4(n)
           /\ Deep4(n) => Deep5(n)
           /\ Deep5(n) => Deep6(n)
<1>1. \A m : Deep1(m) => Deep2(m)
  BY Zenon DEF Deep1, Deep2
<1>2. \A m : Deep2(m) => Deep3(m)
  BY <1>1, Zenon DEF Deep2, Deep3
<1>3. \A m : Deep3(m) => Deep4(m)
  BY <1>2, Zenon DEF Deep3, Deep4
<1>4. \A m : Deep4(m) => Deep5(m)
  BY <1>3, Zenon DEF Deep4, Deep5
<1>5. \A m : Deep5(m) => Deep6(m)
  BY <1>4, Zenon DEF Deep5, Deep6
<1>6. QED
  BY <1>1, <1>2, <1>3, <1>4, <1>5, Zenon

(* The nodes of a predicate of six levels are closed: nothing is walked    *)
(* beyond them.                                                            *)
LEMMA NodesClosed ==
    ASSUME NEW e, Deep6(e), NEW n \in Nodes(e)
    PROVE  Deep6(n) /\ Parts(n) \subseteq Nodes(e)
<1> DEFINE second == Parts(e)
           third == Below(second)
           fourth == Below(third)
           fifth == Below(fourth)
           sixth == Below(fifth)
<1>0. Nodes(e) = {e} \cup second \cup third \cup fourth \cup fifth \cup sixth
  BY Zenon DEF Nodes
<1>2. \A p \in second : Deep5(p) /\ Parts(p) \subseteq third
  BY Zenon DEF Deep6, Below
<1>3. \A p \in third : Deep4(p) /\ Parts(p) \subseteq fourth
  BY <1>2, Zenon DEF Deep5, Below
<1>4. \A p \in fourth : Deep3(p) /\ Parts(p) \subseteq fifth
  BY <1>3, Zenon DEF Deep4, Below
<1>5. \A p \in fifth : Deep2(p) /\ Parts(p) \subseteq sixth
  BY <1>4, Zenon DEF Deep3, Below
<1>6. \A p \in sixth : Deep1(p) /\ Parts(p) = {}
  BY <1>5, Zenon DEF Deep2, Deep1, Below
<1> HIDE DEF second, third, fourth, fifth, sixth
<1>7. Parts(e) \subseteq Nodes(e)
  BY <1>0, Zenon DEF second
<1>8. Deep6(n)
  BY <1>0, <1>2, <1>3, <1>4, <1>5, <1>6, Deeper, Zenon
<1>9. Parts(n) \subseteq Nodes(e)
  BY <1>0, <1>2, <1>3, <1>4, <1>5, <1>6, <1>7, Zenon
<1>10. QED
  BY <1>8, <1>9

(* A node is the root or is in one of its parts.                           *)
LEMMA NodesUnfold ==
    ASSUME NEW e, Deep6(e), NEW n \in Nodes(e)
    PROVE  n = e \/ \E p \in Parts(e) : n \in Nodes(p)
<1> DEFINE second == Parts(e)
           third == Below(second)
           fourth == Below(third)
           fifth == Below(fourth)
           sixth == Below(fifth)
<1>0. Nodes(e) = {e} \cup second \cup third \cup fourth \cup fifth \cup sixth
  BY Zenon DEF Nodes
<1>1. \A p : Nodes(p) = {p} \cup Parts(p) \cup Below(Parts(p)) \cup Below(Below(Parts(p)))
                  \cup Below(Below(Below(Parts(p)))) \cup Below(Below(Below(Below(Parts(p)))))
  BY Zenon DEF Nodes
<1>2. \A ns, m : m \in Below(ns) <=> \E q \in ns : m \in Parts(q)
  BY Zenon DEF Below
<1>3. \A m \in third : \E p \in Parts(e) : m \in Parts(p)
  BY <1>2, Zenon
<1>4. \A m \in fourth : \E p \in Parts(e) : m \in Below(Parts(p))
  <2> HIDE DEF third
  <2>1. QED
    BY <1>2, <1>3, Zenon DEF fourth
<1>5. \A m \in fifth : \E p \in Parts(e) : m \in Below(Below(Parts(p)))
  <2> HIDE DEF fourth
  <2>1. QED
    BY <1>2, <1>4, Zenon DEF fifth
<1>6. \A m \in sixth : \E p \in Parts(e) : m \in Below(Below(Below(Parts(p))))
  <2> HIDE DEF fifth
  <2>1. QED
    BY <1>2, <1>5, Zenon DEF sixth
<1> HIDE DEF third, fourth, fifth, sixth
<1>7. QED
  BY <1>0, <1>1, <1>3, <1>4, <1>5, <1>6, Zenon

(* What a node means depends on its parts alone.                           *)
LEMMA SameParts ==
    ASSUME NEW n, NEW g, NEW h, NEW b, \A p \in Parts(n) : g[p] = h[p]
    PROVE  NodeValue(n, g, b) = NodeValue(n, h, b)
<1>1. CASE n.op \in {"attr", "not", "neg"}
  <2>1. g[n.of] = h[n.of]
    BY <1>1 DEF Parts
  <2>2. QED
    BY <1>1, <2>1 DEF NodeValue
<1>2. CASE n.op \in {"and", "or", "add", "sub", "list", "compare"}
  <2>1. \A i \in DOMAIN n.parts : n.parts[i] \in Parts(n)
    BY <1>2 DEF Parts, Range
  <2>2. [i \in DOMAIN n.parts |-> g[n.parts[i]]] = [i \in DOMAIN n.parts |-> h[n.parts[i]]]
    BY <2>1
  <2>3. QED
    BY <1>2, <2>2 DEF NodeValue
<1>3. CASE n.op \notin {"attr", "not", "neg", "and", "or", "add", "sub", "list", "compare"}
  BY <1>3 DEF NodeValue
<1>4. QED
  BY <1>1, <1>2, <1>3

Values(g, nodes, b) == \A n \in nodes : g[n] = NodeValue(n, g, b)
Closed(nodes) == \A n \in nodes : Deep6(n) /\ Parts(n) \subseteq nodes

(* Two tables of values agree on the nodes they share.                     *)
LEMMA ValuesAgree ==
    ASSUME NEW b, NEW ns, Closed(ns), NEW ms, Closed(ms),
           NEW g, Values(g, ns, b), NEW h, Values(h, ms, b),
           NEW n \in ns \cap ms
    PROVE  g[n] = h[n]
<1>0. \A m \in ns \cap ms : (\A p \in Parts(m) : g[p] = h[p]) => g[m] = h[m]
  <2> SUFFICES ASSUME NEW m \in ns \cap ms, \A p \in Parts(m) : g[p] = h[p]
               PROVE  g[m] = h[m]
    BY Zenon
  <2>1. NodeValue(m, g, b) = NodeValue(m, h, b)
    BY SameParts, Zenon
  <2>2. g[m] = NodeValue(m, g, b) /\ h[m] = NodeValue(m, h, b)
    BY Zenon DEF Values
  <2>3. QED
    BY <2>1, <2>2, Zenon
<1>p. \A m \in ns \cap ms : Parts(m) \subseteq ns \cap ms
  BY Zenon DEF Closed
<1>1. \A m \in ns \cap ms : Deep1(m) => g[m] = h[m]
  BY <1>0, Zenon DEF Deep1
<1>2. \A m \in ns \cap ms : Deep2(m) => g[m] = h[m]
  BY <1>0, <1>p, <1>1, Zenon DEF Deep2
<1>3. \A m \in ns \cap ms : Deep3(m) => g[m] = h[m]
  BY <1>0, <1>p, <1>2, Zenon DEF Deep3
<1>4. \A m \in ns \cap ms : Deep4(m) => g[m] = h[m]
  BY <1>0, <1>p, <1>3, Zenon DEF Deep4
<1>5. \A m \in ns \cap ms : Deep5(m) => g[m] = h[m]
  BY <1>0, <1>p, <1>4, Zenon DEF Deep5
<1>6. \A m \in ns \cap ms : Deep6(m) => g[m] = h[m]
  BY <1>0, <1>p, <1>5, Zenon DEF Deep6
<1>7. QED
  BY <1>6, Zenon DEF Closed

(* Every closed set of nodes has a table of values: level by level.        *)
LEMMA ValuesExist ==
    ASSUME NEW b, NEW ns, Closed(ns)
    PROVE  \E g : g = [n \in ns |-> NodeValue(n, g, b)]
<1> DEFINE g0 == [n \in ns |-> Err]
           g1 == [n \in ns |-> NodeValue(n, g0, b)]
           g2 == [n \in ns |-> NodeValue(n, g1, b)]
           g3 == [n \in ns |-> NodeValue(n, g2, b)]
           g4 == [n \in ns |-> NodeValue(n, g3, b)]
           g5 == [n \in ns |-> NodeValue(n, g4, b)]
           g6 == [n \in ns |-> NodeValue(n, g5, b)]
           g7 == [n \in ns |-> NodeValue(n, g6, b)]
<1>p. \A m \in ns : Parts(m) \subseteq ns
  BY Zenon DEF Closed
<1>1. \A m \in ns : Deep1(m) => g1[m] = g2[m]
  <2> SUFFICES ASSUME NEW m \in ns, Deep1(m) PROVE NodeValue(m, g0, b) = NodeValue(m, g1, b)
    BY Zenon
  <2> HIDE DEF g0, g1
  <2>1. QED
    BY SameParts, Zenon DEF Deep1
<1>2. \A m \in ns : Deep2(m) => g2[m] = g3[m]
  <2> SUFFICES ASSUME NEW m \in ns, Deep2(m) PROVE NodeValue(m, g1, b) = NodeValue(m, g2, b)
    BY Zenon
  <2> HIDE DEF g1, g2
  <2>1. QED
    BY <1>1, <1>p, SameParts, Zenon DEF Deep2
<1>3. \A m \in ns : Deep3(m) => g3[m] = g4[m]
  <2> SUFFICES ASSUME NEW m \in ns, Deep3(m) PROVE NodeValue(m, g2, b) = NodeValue(m, g3, b)
    BY Zenon
  <2> HIDE DEF g2, g3
  <2>1. QED
    BY <1>2, <1>p, SameParts, Zenon DEF Deep3
<1>4. \A m \in ns : Deep4(m) => g4[m] = g5[m]
  <2> SUFFICES ASSUME NEW m \in ns, Deep4(m) PROVE NodeValue(m, g3, b) = NodeValue(m, g4, b)
    BY Zenon
  <2> HIDE DEF g3, g4
  <2>1. QED
    BY <1>3, <1>p, SameParts, Zenon DEF Deep4
<1>5. \A m \in ns : Deep5(m) => g5[m] = g6[m]
  <2> SUFFICES ASSUME NEW m \in ns, Deep5(m) PROVE NodeValue(m, g4, b) = NodeValue(m, g5, b)
    BY Zenon
  <2> HIDE DEF g4, g5
  <2>1. QED
    BY <1>4, <1>p, SameParts, Zenon DEF Deep5
<1>6. \A m \in ns : Deep6(m) => g6[m] = g7[m]
  <2> SUFFICES ASSUME NEW m \in ns, Deep6(m) PROVE NodeValue(m, g5, b) = NodeValue(m, g6, b)
    BY Zenon
  <2> HIDE DEF g5, g6
  <2>1. QED
    BY <1>5, <1>p, SameParts, Zenon DEF Deep6
<1>7. \A m \in ns : g6[m] = g7[m]
  BY <1>6, Zenon DEF Closed
<1>8. g6 = [n \in ns |-> NodeValue(n, g6, b)]
  <2> HIDE DEF g5
  <2>1. g6 = [n \in ns |-> g6[n]] /\ \A m \in ns : g7[m] = NodeValue(m, g6, b)
    BY Zenon
  <2> HIDE DEF g6, g7
  <2>2. QED
    BY <2>1, <1>7, Zenon
<1>9. QED
  BY <1>8, Zenon

(* The evaluator does what its recursion in the code says: the value of a  *)
(* node is made of the values of its parts.                                *)
THEOREM EvalStep ==
    ASSUME NEW e, Deep6(e), NEW b
    PROVE  EvalNode(e, b) = NodeValue(e, [p \in Parts(e) |-> EvalNode(p, b)], b)
<1>1. ASSUME NEW n, Deep6(n)
      PROVE  /\ Closed(Nodes(n)) /\ n \in Nodes(n)
             /\ \E g : Values(g, Nodes(n), b) /\ EvalNode(n, b) = g[n]
  <2>1. Closed(Nodes(n)) /\ n \in Nodes(n)
    <3>1. Closed(Nodes(n))
      BY <1>1, NodesClosed, Zenon DEF Closed
    <3>2. n \in Nodes(n)
      BY Zenon DEF Nodes
    <3>3. QED
      BY <3>1, <3>2
  <2> DEFINE v == CHOOSE g : g = [m \in Nodes(n) |-> NodeValue(m, g, b)]
  <2>2. EvalNode(n, b) = v[n]
    BY Zenon DEF EvalNode
  <2>3. v = [m \in Nodes(n) |-> NodeValue(m, v, b)]
    BY <2>1, ValuesExist, Zenon
  <2> HIDE DEF v
  <2>4. \A m \in Nodes(n) : v[m] = NodeValue(m, v, b)
    <3> DEFINE w == [m \in Nodes(n) |-> NodeValue(m, v, b)]
    <3>1. \A m \in Nodes(n) : w[m] = NodeValue(m, v, b)
      BY Zenon
    <3> HIDE DEF w
    <3>2. v = w
      BY <2>3, Zenon DEF w
    <3>3. QED
      BY <3>1, <3>2, Zenon
  <2>5. Values(v, Nodes(n), b)
    BY <2>4, Zenon DEF Values
  <2>6. QED
    BY <2>1, <2>2, <2>5, Zenon
<1>2. PICK g : Values(g, Nodes(e), b) /\ EvalNode(e, b) = g[e]
  BY <1>1, Zenon
<1>3. \A p \in Parts(e) : Deep6(p) /\ p \in Nodes(e)
  BY <1>1, NodesClosed, Zenon
<1>4. ASSUME NEW p \in Parts(e)
      PROVE  g[p] = EvalNode(p, b)
  <2>1. PICK h : Values(h, Nodes(p), b) /\ EvalNode(p, b) = h[p]
    BY <1>1, <1>3, Zenon
  <2>2. p \in Nodes(e) \cap Nodes(p) /\ Closed(Nodes(e)) /\ Closed(Nodes(p))
    BY <1>1, <1>3, Zenon
  <2>3. g[p] = h[p]
    BY <1>2, <2>1, <2>2, ValuesAgree
  <2>4. QED
    BY <2>1, <2>3, Zenon
<1> DEFINE h == [p \in Parts(e) |-> EvalNode(p, b)]
<1>5. \A p \in Parts(e) : g[p] = h[p]
  BY <1>4, Zenon
<1>6. g[e] = NodeValue(e, g, b)
  BY <1>1, <1>2, Zenon DEF Values
<1> HIDE DEF h
<1>7. NodeValue(e, g, b) = NodeValue(e, h, b)
  BY <1>5, SameParts, Zenon
<1>8. QED
  BY <1>2, <1>6, <1>7, Zenon DEF h

(* The first of one is that one.                                           *)
LEMMA FirstOr1 ==
    ASSUME NEW a, NEW truth PROVE FirstOr(<<a>>, truth) = a
BY DEF FirstOr

(* Of two values the first decides, or the second is taken.                *)
LEMMA FirstOr2 ==
    ASSUME NEW a, NEW c, NEW truth
    PROVE  FirstOr(<<a, c>>, truth) = IF a = Err \/ Truthy(a) = truth THEN a ELSE c
<1> DEFINE values == <<a, c>>
           deciding == {i \in DOMAIN values : values[i] = Err \/ Truthy(values[i]) = truth}
<1>1. DOMAIN values = {1, 2} /\ Len(values) = 2
  OBVIOUS
<1>2. CASE a = Err \/ Truthy(a) = truth
  <2>1. 1 \in deciding /\ deciding \subseteq {1, 2}
    BY <1>1, <1>2
  <2> HIDE DEF deciding
  <2>2. (CHOOSE i \in deciding : \A j \in deciding : i <= j) = 1
    <3> DEFINE least == CHOOSE i \in deciding : \A j \in deciding : i <= j
    <3>1. 1 \in deciding /\ \A j \in deciding : 1 <= j
      BY <2>1
    <3>2. least \in deciding /\ \A j \in deciding : least <= j
      BY <3>1, Zenon
    <3> HIDE DEF least
    <3>3. least = 1
      BY <2>1, <3>1, <3>2
    <3>4. QED
      BY <3>3, Zenon DEF least
  <2>3. deciding # {}
    BY <2>1
  <2>4. QED
    BY <1>2, <2>2, <2>3 DEF FirstOr, deciding
<1>3. CASE ~(a = Err \/ Truthy(a) = truth) /\ (c = Err \/ Truthy(c) = truth)
  <2>1. deciding = {2}
    BY <1>1, <1>3
  <2> HIDE DEF deciding
  <2>2. (CHOOSE i \in deciding : \A j \in deciding : i <= j) = 2
    BY <2>1
  <2>3. QED
    BY <1>3, <2>1, <2>2 DEF FirstOr, deciding
<1>4. CASE ~(a = Err \/ Truthy(a) = truth) /\ ~(c = Err \/ Truthy(c) = truth)
  <2>1. deciding = {}
    BY <1>1, <1>4
  <2>2. QED
    BY <1>1, <1>4, <2>1, Zenon DEF FirstOr
<1>5. QED
  BY <1>2, <1>3, <1>4

(* Python's "and" and "or" of two values: the second is looked at only if  *)
(* the first leaves it open.                                               *)
LEMMA FirstOfTwo ==
    ASSUME NEW a, NEW c
    PROVE  /\ FirstOr(<<a, c>>, FALSE) = IF a = Err \/ ~Truthy(a) THEN a ELSE c
           /\ FirstOr(<<a, c>>, TRUE) = IF a = Err \/ Truthy(a) THEN a ELSE c
<1>1. FirstOr(<<a, c>>, FALSE) = IF a = Err \/ Truthy(a) = FALSE THEN a ELSE c
  BY FirstOr2, Zenon
<1>2. FirstOr(<<a, c>>, TRUE) = IF a = Err \/ Truthy(a) = TRUE THEN a ELSE c
  BY FirstOr2, Zenon
<1>3. Truthy(a) \in BOOLEAN
  BY DEF Truthy
<1>4. QED
  BY <1>1, <1>2, <1>3

(* A set of naturals has a least element.                                  *)
LEMMA LeastNat ==
    ASSUME NEW T, T \subseteq Nat, T # {}
    PROVE  \E x \in T : \A y \in T : x <= y
<1>1. PICK x \in T : \A y \in T : ~(<<y, x>> \in OpToRel(<, Nat))
  BY NatLessThanWellFounded, WFMin
<1>2. ASSUME NEW y \in T, y < x PROVE FALSE
  <2>1. <<y, x>> \in OpToRel(<, Nat)
    BY <1>2 DEF OpToRel
  <2>2. QED
    BY <1>1, <2>1
<1>3. QED
  BY <1>2

(* An "and" is true when every value is there and true.                    *)
LEMMA FirstOfAll ==
    ASSUME NEW values, NEW count \in Nat \ {0}, DOMAIN values = 1..count, Len(values) = count
    PROVE  FirstOr(values, FALSE) # Err /\ Truthy(FirstOr(values, FALSE))
                <=> \A i \in 1..count : values[i] # Err /\ Truthy(values[i])
<1> DEFINE deciding == {i \in DOMAIN values : values[i] = Err \/ Truthy(values[i]) = FALSE}
           least == CHOOSE i \in deciding : \A j \in deciding : i <= j
<1>1. FirstOr(values, FALSE) = IF deciding = {} THEN values[Len(values)] ELSE values[least]
  BY Zenon DEF FirstOr
<1>2. \A v : Truthy(v) \in BOOLEAN
  BY DEF Truthy
<1>3. \A i \in 1..count : i \in deciding <=> values[i] = Err \/ ~Truthy(values[i])
  BY <1>2
<1>4. deciding \subseteq 1..count
  OBVIOUS
<1>5. deciding # {} => least \in deciding
  <2> HIDE DEF deciding
  <2>0. deciding \subseteq Nat
    BY <1>4
  <2>1. deciding # {} => \E i \in deciding : \A j \in deciding : i <= j
    BY <2>0, LeastNat, Zenon
  <2>2. QED
    BY <2>1, Zenon
<1> HIDE DEF deciding, least
<1>6. CASE deciding = {}
  <2>1. \A i \in 1..count : values[i] # Err /\ Truthy(values[i])
    BY <1>3, <1>6, Zenon
  <2>2. FirstOr(values, FALSE) = values[count]
    BY <1>1, <1>6, Zenon
  <2>3. count \in 1..count
    OBVIOUS
  <2>4. QED
    BY <2>1, <2>2, <2>3, Zenon
<1>7. CASE deciding # {}
  <2>1. least \in 1..count /\ (values[least] = Err \/ ~Truthy(values[least]))
    BY <1>3, <1>4, <1>5, <1>7, Zenon
  <2>2. FirstOr(values, FALSE) = values[least]
    BY <1>1, <1>7, Zenon
  <2>3. QED
    BY <2>1, <2>2, Zenon
<1>8. QED
  BY <1>6, <1>7

(* A boolean is true when it is.                                           *)
LEMMA TruthyBool ==
    ASSUME NEW x \in BOOLEAN PROVE Bool(x) # Err /\ (Truthy(Bool(x)) <=> x)
BY DEF Bool, Err, Truthy, Is, Number

Holds(e, b) == EvalNode(e, b) # Err /\ Truthy(EvalNode(e, b))
AllAllowed(e) == \A n \in Nodes(e) : n.op \in Allowed

(* What _evaluate returns True for has a value, and a true one.            *)
LEMMA EvaluateHolds ==
    ASSUME NEW e, NEW b, Evaluate(e, b) = True
    PROVE  Holds(e, b)
<1>1. Bool(TRUE) # Err
  BY DEF Bool, Err
<1>2. Bool(Truthy(EvalNode(e, b))) = Bool(TRUE) => Truthy(EvalNode(e, b))
  BY DEF Bool
<1>3. QED
  BY <1>1, <1>2 DEF Evaluate, Holds, True

(* And for a predicate of the grammar whose names are exposed that is      *)
(* enough.                                                                 *)
LEMMA HoldsEvaluate ==
    ASSUME NEW e, NEW b, UnknownSymbols(e) = {}, AllAllowed(e), Holds(e, b)
    PROVE  Evaluate(e, b) = True
<1>1. Truthy(EvalNode(e, b)) \in BOOLEAN
  BY DEF Truthy
<1>2. Truthy(EvalNode(e, b)) = TRUE
  BY <1>1 DEF Holds
<1>3. QED
  BY <1>2 DEF Evaluate, Holds, AllAllowed, True

(* A predicate is in the grammar if its root and its parts are.            *)
LEMMA AllowedParts ==
    ASSUME NEW e, Deep6(e), e.op \in Allowed, \A p \in Parts(e) : AllAllowed(p)
    PROVE  AllAllowed(e)
BY NodesUnfold, Zenon DEF AllAllowed

(* A constant is its value.                                                *)
LEMMA EvalConst ==
    ASSUME NEW v, NEW b
    PROVE  Deep1(Const(v)) /\ AllAllowed(Const(v)) /\ EvalNode(Const(v), b) = v
<1>1. Parts(Const(v)) = {} /\ Const(v).op = "const"
  BY DEF Parts, Const
<1>2. Deep1(Const(v)) /\ Deep6(Const(v))
  BY <1>1, Deeper, Zenon DEF Deep1
<1>3. AllAllowed(Const(v))
  BY <1>1, <1>2, AllowedParts DEF Allowed
<1>4. EvalNode(Const(v), b) = v
  <2>1. EvalNode(Const(v), b) = NodeValue(Const(v), [p \in Parts(Const(v)) |-> EvalNode(p, b)], b)
    BY <1>2, EvalStep, Zenon
  <2>2. \A g : NodeValue(Const(v), g, b) = v
    BY DEF NodeValue, Const
  <2>3. QED
    BY <2>1, <2>2, Zenon
<1>5. QED
  BY <1>2, <1>3, <1>4

(* A name is what it resolves to.                                          *)
LEMMA EvalName ==
    ASSUME NEW id, NEW b
    PROVE  Deep1(Name(id)) /\ AllAllowed(Name(id)) /\ EvalNode(Name(id), b) = ResolveName(id, b)
<1>1. Parts(Name(id)) = {} /\ Name(id).op = "name"
  BY DEF Parts, Name
<1>2. Deep1(Name(id)) /\ Deep6(Name(id))
  BY <1>1, Deeper, Zenon DEF Deep1
<1>3. AllAllowed(Name(id))
  BY <1>1, <1>2, AllowedParts DEF Allowed
<1>4. EvalNode(Name(id), b) = ResolveName(id, b)
  <2>1. EvalNode(Name(id), b) = NodeValue(Name(id), [p \in Parts(Name(id)) |-> EvalNode(p, b)], b)
    BY <1>2, EvalStep, Zenon
  <2>2. \A g : NodeValue(Name(id), g, b) = ResolveName(id, b)
    BY DEF NodeValue, Name
  <2>3. QED
    BY <2>1, <2>2, Zenon
<1>5. QED
  BY <1>2, <1>3, <1>4

(* A field of a namespace is looked up in what the namespace resolves to.  *)
LEMMA EvalAttr ==
    ASSUME NEW id, NEW field, NEW b
    PROVE  /\ Deep2(Attr(Name(id), field)) /\ AllAllowed(Attr(Name(id), field))
           /\ EvalNode(Attr(Name(id), field), b) = ResolveAttribute(ResolveName(id, b), field)
<1> DEFINE e == Attr(Name(id), field)
<1>1. Parts(e) = {Name(id)} /\ e.op = "attr" /\ e.of = Name(id) /\ e.field = field
  BY DEF Parts, Attr
<1> HIDE DEF e
<1>2. Deep2(e) /\ Deep6(e)
  BY <1>1, EvalName, Deeper, Zenon DEF Deep2
<1>3. AllAllowed(e)
  BY <1>1, <1>2, AllowedParts, EvalName DEF Allowed
<1> DEFINE g == [p \in Parts(e) |-> EvalNode(p, b)]
<1>4. EvalNode(e, b) = NodeValue(e, g, b)
  BY <1>2, EvalStep, Zenon
<1>5. g[e.of] = ResolveName(id, b)
  BY <1>1, EvalName
<1> HIDE DEF g
<1>6. NodeValue(e, g, b) = ResolveAttribute(ResolveName(id, b), field)
  BY <1>1, <1>5 DEF NodeValue
<1>7. QED
  BY <1>2, <1>3, <1>4, <1>6, Zenon DEF e

(* "not" holds when its operand has a value that is not true.              *)
LEMMA EvalNot ==
    ASSUME NEW e, Deep3(e), AllAllowed(e), NEW b
    PROVE  /\ Deep4(Not(e)) /\ AllAllowed(Not(e))
           /\ Holds(Not(e), b) <=> EvalNode(e, b) # Err /\ ~Truthy(EvalNode(e, b))
<1> DEFINE n == Not(e)
<1>1. Parts(n) = {e} /\ n.op = "not" /\ n.of = e
  BY DEF Parts, Not
<1> HIDE DEF n
<1>2. Deep4(n) /\ Deep6(n)
  BY <1>1, Deeper, Zenon DEF Deep4
<1>3. AllAllowed(n)
  BY <1>1, <1>2, AllowedParts DEF Allowed
<1> DEFINE g == [p \in Parts(n) |-> EvalNode(p, b)]
<1>4. EvalNode(n, b) = NodeValue(n, g, b)
  BY <1>2, EvalStep, Zenon
<1>5. g[n.of] = EvalNode(e, b)
  BY <1>1
<1> HIDE DEF g
<1>6. EvalNode(n, b) = IF EvalNode(e, b) = Err THEN Err ELSE Bool(~Truthy(EvalNode(e, b)))
  BY <1>1, <1>4, <1>5 DEF NodeValue
<1>7. Holds(n, b) <=> EvalNode(e, b) # Err /\ ~Truthy(EvalNode(e, b))
  <2>1. CASE EvalNode(e, b) = Err
    BY <1>6, <2>1, Zenon DEF Holds
  <2>2. CASE EvalNode(e, b) # Err
    <3> DEFINE x == ~Truthy(EvalNode(e, b))
    <3>1. x \in BOOLEAN
      BY DEF Truthy
    <3>2. EvalNode(n, b) = Bool(x)
      BY <1>6, <2>2, Zenon
    <3> HIDE DEF x
    <3>3. Holds(n, b) <=> x
      BY <3>1, <3>2, TruthyBool, Zenon DEF Holds
    <3>4. QED
      BY <2>2, <3>3, Zenon DEF x
  <2>3. QED
    BY <2>1, <2>2
<1>8. QED
  BY <1>2, <1>3, <1>7, Zenon DEF n

(* A comparison applies to two values, and an error on either side is an   *)
(* error.                                                                  *)
LEMMA EvalCompare ==
    ASSUME NEW l, Deep3(l), AllAllowed(l), NEW r, Deep3(r), AllAllowed(r), NEW link, NEW b
    PROVE  /\ Deep4(Compare(l, link, r)) /\ AllAllowed(Compare(l, link, r))
           /\ EvalNode(Compare(l, link, r), b) =
                 IF EvalNode(l, b) = Err \/ EvalNode(r, b) = Err THEN Err
                 ELSE ApplyComparison(link, EvalNode(l, b), EvalNode(r, b))
<1> DEFINE n == Compare(l, link, r)
<1>1. Parts(n) = {l, r} /\ n.op = "compare" /\ n.parts = <<l, r>> /\ n.links = <<link>>
  BY DEF Parts, Compare, Chain, Range
<1> HIDE DEF n
<1>2. Deep4(n) /\ Deep6(n)
  BY <1>1, Deeper, Zenon DEF Deep4
<1>3. AllAllowed(n)
  BY <1>1, <1>2, AllowedParts DEF Allowed
<1> DEFINE g == [p \in Parts(n) |-> EvalNode(p, b)]
           parts == [i \in DOMAIN n.parts |-> g[n.parts[i]]]
           Link(i) == IF parts[i + 1] = Err THEN Err
                      ELSE ApplyComparison(n.links[i], parts[i], parts[i + 1])
<1>4. EvalNode(n, b) = NodeValue(n, g, b)
  BY <1>2, EvalStep, Zenon
<1>5. g[l] = EvalNode(l, b) /\ g[r] = EvalNode(r, b)
  BY <1>1
<1> HIDE DEF g
<1>6. parts[1] = EvalNode(l, b) /\ parts[2] = EvalNode(r, b)
  BY <1>1, <1>5
<1>7. NodeValue(n, g, b) =
        IF parts[1] = Err THEN Err ELSE FirstOr([i \in DOMAIN n.links |-> Link(i)], FALSE)
  BY <1>1 DEF NodeValue
<1> HIDE DEF parts
<1>8. [i \in DOMAIN n.links |-> Link(i)] =
        << IF parts[2] = Err THEN Err ELSE ApplyComparison(link, parts[1], parts[2]) >>
  BY <1>1
<1>9. FirstOr([i \in DOMAIN n.links |-> Link(i)], FALSE)
        = IF parts[2] = Err THEN Err ELSE ApplyComparison(link, parts[1], parts[2])
  BY <1>8, FirstOr1, Zenon
<1>10. QED
  BY <1>2, <1>3, <1>4, <1>6, <1>7, <1>9, Zenon DEF n

(* "and" holds when every part does.                                       *)
LEMMA EvalAnd ==
    ASSUME NEW parts, NEW count \in Nat \ {0}, DOMAIN parts = 1..count, Len(parts) = count,
           \A i \in 1..count : Deep4(parts[i]) /\ AllAllowed(parts[i]), NEW b
    PROVE  /\ AllAllowed(And(parts))
           /\ Holds(And(parts), b) <=> \A i \in 1..count : Holds(parts[i], b)
<1> DEFINE n == And(parts)
<1>1. Parts(n) = Range(parts) /\ n.op = "and" /\ n.parts = parts
  BY DEF Parts, And
<1> HIDE DEF n
<1>2. \A p \in Parts(n) : Deep4(p) /\ AllAllowed(p)
  BY <1>1, Zenon DEF Range
<1>3. Deep6(n)
  BY <1>2, Deeper, Zenon DEF Deep6
<1>4. AllAllowed(n)
  BY <1>1, <1>2, <1>3, AllowedParts DEF Allowed
<1> DEFINE g == [p \in Parts(n) |-> EvalNode(p, b)]
           values == [i \in DOMAIN n.parts |-> g[n.parts[i]]]
<1>5. EvalNode(n, b) = NodeValue(n, g, b)
  BY <1>3, EvalStep, Zenon
<1>6. \A i \in 1..count : g[parts[i]] = EvalNode(parts[i], b)
  BY <1>1, Zenon DEF Range
<1> HIDE DEF g
<1>7. /\ DOMAIN values = 1..count
      /\ \A i \in 1..count : values[i] = EvalNode(parts[i], b)
  BY <1>1, <1>6
<1>8. EvalNode(n, b) = FirstOr(values, FALSE)
  BY <1>1, <1>5 DEF NodeValue
<1>9. Len(values) = count
  BY <1>7
<1> HIDE DEF values
<1>10. QED
  BY <1>4, <1>7, <1>8, <1>9, FirstOfAll, Zenon DEF n, Holds

(* "or" of two holds when the first has a value and one is true.           *)
LEMMA EvalOr2 ==
    ASSUME NEW l, Deep4(l), AllAllowed(l), NEW r, Deep4(r), AllAllowed(r), NEW b
    PROVE  /\ AllAllowed(Or(<<l, r>>))
           /\ Holds(Or(<<l, r>>), b) <=>
                 EvalNode(l, b) # Err /\ (Truthy(EvalNode(l, b)) \/ Holds(r, b))
<1> DEFINE n == Or(<<l, r>>)
<1>1. Parts(n) = {l, r} /\ n.op = "or" /\ n.parts = <<l, r>>
  BY DEF Parts, Or, Range
<1> HIDE DEF n
<1>2. Deep6(n)
  BY <1>1, Deeper, Zenon DEF Deep6
<1>3. AllAllowed(n)
  BY <1>1, <1>2, AllowedParts DEF Allowed
<1> DEFINE g == [p \in Parts(n) |-> EvalNode(p, b)]
<1>4. EvalNode(n, b) = NodeValue(n, g, b)
  BY <1>2, EvalStep, Zenon
<1>5. g[l] = EvalNode(l, b) /\ g[r] = EvalNode(r, b)
  BY <1>1
<1> HIDE DEF g
<1>6. [i \in DOMAIN n.parts |-> g[n.parts[i]]] = <<EvalNode(l, b), EvalNode(r, b)>>
  BY <1>1, <1>5
<1>7. EvalNode(n, b) = FirstOr(<<EvalNode(l, b), EvalNode(r, b)>>, TRUE)
  BY <1>1, <1>4, <1>6 DEF NodeValue
<1>8. \A v : Truthy(v) \in BOOLEAN
  BY DEF Truthy
<1>9. QED
  <2>1. EvalNode(n, b) = IF EvalNode(l, b) = Err \/ Truthy(EvalNode(l, b))
                         THEN EvalNode(l, b) ELSE EvalNode(r, b)
    BY <1>7, FirstOfTwo, Zenon
  <2>2. QED
    BY <1>3, <1>8, <2>1 DEF n, Holds

(* A sum is the sum of two values.                                         *)
LEMMA EvalAdd ==
    ASSUME NEW l, Deep1(l), AllAllowed(l), NEW r, Deep1(r), AllAllowed(r), NEW b
    PROVE  /\ Deep2(Add(l, r)) /\ AllAllowed(Add(l, r))
           /\ EvalNode(Add(l, r), b) =
                 IF EvalNode(l, b) = Err \/ EvalNode(r, b) = Err THEN Err
                 ELSE Arithmetic("add", EvalNode(l, b), EvalNode(r, b))
<1> DEFINE n == Add(l, r)
<1>1. Parts(n) = {l, r} /\ n.op = "add" /\ n.parts = <<l, r>>
  BY DEF Parts, Add, Range
<1> HIDE DEF n
<1>2. Deep2(n) /\ Deep6(n)
  BY <1>1, Deeper, Zenon DEF Deep2
<1>3. AllAllowed(n)
  BY <1>1, <1>2, AllowedParts DEF Allowed
<1> DEFINE g == [p \in Parts(n) |-> EvalNode(p, b)]
<1>4. EvalNode(n, b) = NodeValue(n, g, b)
  BY <1>2, EvalStep, Zenon
<1>5. g[l] = EvalNode(l, b) /\ g[r] = EvalNode(r, b)
  BY <1>1
<1> HIDE DEF g
<1>6. [i \in DOMAIN n.parts |-> g[n.parts[i]]] = <<EvalNode(l, b), EvalNode(r, b)>>
  BY <1>1, <1>5
<1>7. EvalNode(n, b) = IF Err \in Range(<<EvalNode(l, b), EvalNode(r, b)>>) THEN Err
                       ELSE Arithmetic("add", EvalNode(l, b), EvalNode(r, b))
  BY <1>1, <1>4, <1>6 DEF NodeValue
<1>8. Err \in Range(<<EvalNode(l, b), EvalNode(r, b)>>) <=> EvalNode(l, b) = Err \/ EvalNode(r, b) = Err
  BY DEF Range
<1>9. QED
  BY <1>2, <1>3, <1>7, <1>8, Zenon DEF n

----------------------------------------------------------------------------
(* The loader.                                                             *)

(* What the loader has made sure of in a catalog. *)
CatalogOK(c) ==
    /\ Range(c.order) = DOMAIN c.declarations
    /\ DOMAIN c.order \subseteq Nat \X Nat
    /\ \A id \in DOMAIN c.declarations :
          LET d == c.declarations[id]
          IN  /\ d.id = id /\ ValidDeclaration(d)
              /\ d.capability \in DOMAIN c.capabilities
              /\ d.kind = "action" => ChecksSymbols(d)
    /\ \A k \in DOMAIN c.capabilities :
          ValidCapability(c.capabilities[k]) /\ c.capabilities[k].path \in {"firetuner", "bespoke"}

(* The index by id is of the entries and misses none.                      *)
LEMMA ByIdEntries ==
    ASSUME NEW entries
    PROVE  /\ \A id \in DOMAIN ById(entries) :
                 \E i \in DOMAIN entries : entries[i].id = id /\ ById(entries)[id] = entries[i]
           /\ \A i \in DOMAIN entries : entries[i].id \in DOMAIN ById(entries)
<1>1. ASSUME NEW id \in DOMAIN ById(entries)
      PROVE  \E i \in DOMAIN entries : entries[i].id = id /\ ById(entries)[id] = entries[i]
  <2>1. \E i \in DOMAIN entries : entries[i].id = id
    BY <1>1, Zenon DEF ById
  <2> DEFINE chosen == CHOOSE i \in DOMAIN entries : entries[i].id = id
  <2>2. chosen \in DOMAIN entries /\ entries[chosen].id = id
    BY <2>1, Zenon
  <2>3. ById(entries)[id] = entries[chosen]
    BY <1>1, Zenon DEF ById
  <2>4. QED
    BY <2>2, <2>3, Zenon
<1>2. QED
  BY <1>1, Zenon DEF ById

(* What load_catalog lets through is sound, and made of the entries on     *)
(* disk.                                                                   *)
LEMMA LoadedOK ==
    ASSUME NEW r \in Roots, LoadsCatalog(r)
    PROVE  /\ CatalogOK(LoadedCatalog(r))
           /\ \A id \in DOMAIN LoadedCatalog(r).declarations :
                 LoadedCatalog(r).declarations[id] \in Range(Entries(r.declarations))
<1> DEFINE c == LoadedCatalog(r)
           ds == Entries(r.declarations)
           cs == Entries(r.capabilities)
<1>1. /\ DOMAIN ds \subseteq Nat \X Nat
      /\ \A k \in Range(cs) : k.path \in {"firetuner", "bespoke"}
  BY RootsAssumption DEF Entries
<1>2. /\ \A k \in Range(cs) : ValidCapability(k)
      /\ \A d \in Range(ds) : /\ ValidDeclaration(d)
                              /\ d.kind = "action" => ChecksSymbols(d)
                              /\ \E i \in DOMAIN cs : cs[i].id = d.capability
  BY Zenon DEF LoadsCatalog, LoadsCapabilities, LoadsDeclarations, Resolves
<1> HIDE DEF ds, cs
<1>3. c.order = [i \in DOMAIN ds |-> ds[i].id] /\ c.declarations = ById(ds) /\ c.capabilities = ById(cs)
  BY DEF LoadedCatalog, ds, cs
<1> HIDE DEF c
<1>r. (\A i \in DOMAIN ds : ds[i] \in Range(ds)) /\ (\A i \in DOMAIN cs : cs[i] \in Range(cs))
  BY DEF Range
<1>4. \A id \in DOMAIN ById(ds) :
         \E d \in Range(ds) : d.id = id /\ ById(ds)[id] = d
  BY <1>r, ByIdEntries, Zenon
<1>5. \A k \in DOMAIN ById(cs) : ById(cs)[k] \in Range(cs)
  BY <1>r, ByIdEntries, Zenon
<1>6. Range(c.order) = DOMAIN c.declarations
  <2>1. DOMAIN ById(ds) = {ds[i].id : i \in DOMAIN ds}
    BY DEF ById
  <2>2. Range(c.order) = {ds[i].id : i \in DOMAIN ds}
    BY <1>3 DEF Range
  <2>3. QED
    BY <1>3, <2>1, <2>2, Zenon
<1>7. \A i \in DOMAIN cs : cs[i].id \in DOMAIN c.capabilities
  BY <1>3, ByIdEntries, Zenon
<1>8. DOMAIN c.order \subseteq Nat \X Nat
  BY <1>1, <1>3
<1>9. \A id \in DOMAIN c.declarations :
         /\ c.declarations[id].id = id /\ c.declarations[id] \in Range(ds)
         /\ ValidDeclaration(c.declarations[id])
         /\ c.declarations[id].capability \in DOMAIN c.capabilities
         /\ c.declarations[id].kind = "action" => ChecksSymbols(c.declarations[id])
  <2> SUFFICES ASSUME NEW id \in DOMAIN c.declarations
               PROVE  LET e == c.declarations[id]
                      IN  /\ e.id = id /\ e \in Range(ds) /\ ValidDeclaration(e)
                          /\ e.capability \in DOMAIN c.capabilities
                          /\ e.kind = "action" => ChecksSymbols(e)
    BY Zenon
  <2>1. PICK d \in Range(ds) : d.id = id /\ c.declarations[id] = d
    <3>1. id \in DOMAIN ById(ds) /\ c.declarations[id] = ById(ds)[id]
      BY <1>3, Zenon
    <3>2. QED
      BY <1>4, <3>1
  <2>2. d.capability \in DOMAIN c.capabilities
    BY <1>2, <1>7, Zenon
  <2>3. QED
    BY <1>2, <2>1, <2>2, Zenon
<1>10. \A k \in DOMAIN c.capabilities :
         ValidCapability(c.capabilities[k]) /\ c.capabilities[k].path \in {"firetuner", "bespoke"}
  BY <1>1, <1>2, <1>3, <1>5, Zenon
<1>11. CatalogOK(c)
  BY <1>6, <1>8, <1>9, <1>10, Zenon DEF CatalogOK
<1>12. QED
  BY <1>9, <1>11, Zenon DEF c, ds

(* Before the load there is nothing that could be unsound.                 *)
LEMMA NoCatalogOK == CatalogOK(NoCatalog)
BY DEF CatalogOK, NoCatalog, Range

(* The names a board binds, whatever is on it. *)
LEMMA BoundNames ==
    ASSUME NEW values, NEW target, NEW snapshot
    PROVE  ExposedNamespaces \subseteq DOMAIN Bindings(values, target, snapshot)
BY DEF ExposedNamespaces, Bindings, Joined, SubjectSources

(* A sound catalog has what the code after the loader takes for granted.   *)
LEMMA ServesCatalog ==
    ASSUME CatalogOK(catalog)
    PROVE  LoadedServes
<1> DEFINE bound == DOMAIN Bindings(board, Null, <<>>)
           names(e) == {n.id : n \in {m \in Nodes(e) : m.op = "name"}} \ DOMAIN Literals
<1>1. \A e : UnknownSymbols(e) = {} => names(e) \subseteq bound \cup ObservedNames \cup OtherSpellings
  <2>1. ExposedNamespaces \subseteq bound
    BY BoundNames, Zenon
  <2> HIDE DEF bound
  <2>2. QED
    BY <2>1 DEF UnknownSymbols
<1>2. ASSUME NEW id \in DOMAIN catalog.declarations
      PROVE  LET d == catalog.declarations[id]
             IN  /\ d.capability \in DOMAIN catalog.capabilities
                 /\ d.kind # "action" => d.schema # <<>>
                 /\ d.kind = "action" =>
                       \A e \in {d.availability[1], d.verification[1]} :
                          names(e) \subseteq bound \cup ObservedNames \cup OtherSpellings
  <2> DEFINE d == catalog.declarations[id]
  <2>1. /\ ValidDeclaration(d) /\ d.capability \in DOMAIN catalog.capabilities
        /\ d.kind = "action" => ChecksSymbols(d)
    BY <1>2, Zenon DEF CatalogOK
  <2> HIDE DEF d, names, bound
  <2>2. d.kind # "action" => d.schema # <<>>
    BY <2>1, Zenon DEF ValidDeclaration
  <2>3. ASSUME d.kind = "action", NEW e \in {d.availability[1], d.verification[1]}
        PROVE  names(e) \subseteq bound \cup ObservedNames \cup OtherSpellings
    <3>1. UnknownSymbols(e) = {}
      BY <2>1, <2>3, Zenon DEF ChecksSymbols
    <3>2. QED
      BY <1>1, <3>1, Zenon
  <2>4. QED
    BY <2>1, <2>2, <2>3, Zenon DEF d
<1>3. CapabilityFindings(catalog, DOMAIN catalog.declarations) = {}
  <2>1. \A id \in DOMAIN catalog.declarations :
           CapabilityFor(catalog, id).path # "firetuner" => CapabilityFor(catalog, id).gap \in Stated
    BY Zenon DEF CatalogOK, ValidCapability, CapabilityFor
  <2>2. QED
    BY <2>1, Zenon DEF CapabilityFindings, Declared
<1>4. QED
  BY <1>2, <1>3, Zenon DEF LoadedServes

----------------------------------------------------------------------------
(* What a board holds. The catalog's schemas and the consistency of a      *)
(* screen let nothing through but what the game is.                        *)

Screens == {<<"screen", "world">>, <<"screen", "unknown">>, <<"prompt", "declare_war_response">>,
            <<"prompt", "diplomatic_approach">>}
Games == [turn : Int, mine : BOOLEAN, screen : Screens, rival : {"peace", "war", "gone"},
          person : {"free", "taken", "ours"}, tech : {"none", "pottery"}]

ScreenId == <<"game", "screen_state">>
TurnId == <<"game", "turn_state">>
DiplomacyId == <<"diplomacy", "state">>
PeopleId == <<"great_people", "state">>
ResearchId == <<"research", "state">>

(* What the Lua side answers of each kind, when it answers as it should. *)
TurnState(number, mine) ==
    Rec([turn_number |-> Whole(number), is_local_player_turn |-> Bool(mine),
         is_waiting_for_other_players |-> Bool(~mine)])
Relations(rival) ==
    Rec([relations |-> List(IF rival = "gone" THEN <<>> ELSE << Relation(Rival, rival) >>)])
People(person) ==
    Rec([recruitable_individuals |-> List(IF person = "free" THEN << Person >> ELSE <<>>)])
Research(tech) ==
    Rec([researchable_techs |-> List(<< Str("pottery") >>),
         current_research |-> IF tech = "none" THEN Null ELSE Str(tech)])

Genuine(values) ==
    \A id \in DOMAIN values :
       \/ id = ScreenId /\ \E s \in Screens : values[id] = ScreenState(s, IsPrompt(s))
       \/ id = TurnId /\ \E n \in Int, mine \in BOOLEAN : values[id] = TurnState(n, mine)
       \/ id = DiplomacyId /\ \E rival \in {"peace", "war", "gone"} : values[id] = Relations(rival)
       \/ id = PeopleId /\ \E person \in {"free", "taken", "ours"} : values[id] = People(person)
       \/ id = ResearchId /\ \E tech \in {"none", "pottery"} : values[id] = Research(tech)

Catalogued ==
    /\ CatalogOK(catalog)
    /\ \A id \in DOMAIN catalog.declarations : AsShipped(catalog.declarations[id])

WholeBoard ==
    /\ DOMAIN fresh \subseteq Observables(catalog)
    /\ pc = "verifying" => DOMAIN fresh = Observables(catalog)
    /\ pc \in {"routing", "deciding"} \/ proposal # NoProposal => DOMAIN board = Observables(catalog)

(* A verdict is the judgement of the pending decision on the board it was  *)
(* taken on; a call follows it and nothing else.                           *)
Pending ==
    IF proposal = NoProposal
    THEN /\ verdict = "none" /\ call = NotSent
         /\ pc \notin {"executing", "verifying"}
    ELSE /\ proposal \in Proposals /\ verdict = Judgement(proposal)
         /\ pc \notin {"loading", "routing", "deciding"}
         /\ pc = "executing" => verdict = "authorized"
         /\ pc \in {"reading", "verifying"} => (call # NotSent <=> verdict = "authorized")

Unloaded == pc = "loading" => proposal = NoProposal /\ record = NoRecord /\ fresh = <<>> /\ board = <<>>

DispatchInv ==
    /\ DispatchTypeOK /\ game \in Games /\ root \in Roots
    /\ Catalogued /\ Unloaded
    /\ Genuine(board) /\ Genuine(fresh)
    /\ WholeBoard /\ Pending
    /\ RecordIsShown

(* A value that passes its schema has one of its types and every required  *)
(* field.                                                                  *)
LEMMA ConformsNode ==
    ASSUME NEW node, NEW value, Conforms(node, value)
    PROVE  /\ node.types # <<>> => \E type \in node.types[1] : MatchesType(value, type)
           /\ Is(value, {"rec"}) => node.required \subseteq DOMAIN value[2]
<1>1. <<node, value>> \in Compared(node, value)
  BY Zenon DEF Compared
<1>2. QED
  BY <1>1 DEF Conforms

(* And so does every item of its lists.                                    *)
LEMMA ConformsSecond ==
    ASSUME NEW node, NEW value, Conforms(node, value), Is(value, {"rec"}),
           NEW f \in DOMAIN node.properties \cap DOMAIN value[2],
           Is(value[2][f], {"list"}), node.properties[f].items # <<>>,
           ~node.properties[f].positional, NEW i \in DOMAIN value[2][f][2],
           Is(value[2][f][2][i], {"rec"})
    PROVE  node.properties[f].items[1].required \subseteq DOMAIN value[2][f][2][i][2]
<1> DEFINE list == <<node.properties[f], value[2][f]>>
           item == <<node.properties[f].items[1], value[2][f][2][i]>>
<1>1. list \in Inner(node, value)
  BY DEF Inner
<1>2. item \in Inner(list[1], list[2])
  BY DEF Inner
<1>3. item \in InnerOf(Inner(node, value))
  <2> HIDE DEF list, item
  <2>1. QED
    BY <1>1, <1>2 DEF InnerOf
<1>4. item \in Compared(node, value)
  <2> HIDE DEF item
  <2>1. QED
    BY <1>3 DEF Compared
<1>5. Is(item[2], {"rec"}) => item[1].required \subseteq DOMAIN item[2][2]
  <2> HIDE DEF item
  <2>1. QED
    BY <1>4, Zenon DEF Conforms
<1>6. item[1] = node.properties[f].items[1] /\ item[2] = value[2][f][2][i]
  OBVIOUS
<1>7. QED
  BY <1>5, <1>6, Zenon

(* And every field of an item that its schema types.                       *)
LEMMA ConformsThird ==
    ASSUME NEW node, NEW value, Conforms(node, value), Is(value, {"rec"}),
           NEW f \in DOMAIN node.properties \cap DOMAIN value[2],
           Is(value[2][f], {"list"}), node.properties[f].items # <<>>,
           ~node.properties[f].positional, NEW i \in DOMAIN value[2][f][2],
           Is(value[2][f][2][i], {"rec"}),
           NEW g \in DOMAIN node.properties[f].items[1].properties
                      \cap DOMAIN value[2][f][2][i][2],
           node.properties[f].items[1].properties[g].types # <<>>
    PROVE  \E type \in node.properties[f].items[1].properties[g].types[1] :
              MatchesType(value[2][f][2][i][2][g], type)
<1> DEFINE list == <<node.properties[f], value[2][f]>>
           item == <<node.properties[f].items[1], value[2][f][2][i]>>
           leaf == <<node.properties[f].items[1].properties[g], value[2][f][2][i][2][g]>>
<1>1. list \in Inner(node, value)
  BY DEF Inner
<1>2. item \in Inner(list[1], list[2])
  BY DEF Inner
<1>3. leaf \in Inner(item[1], item[2])
  BY DEF Inner
<1>4. item \in InnerOf(Inner(node, value))
  <2> HIDE DEF list, item
  <2>1. QED
    BY <1>1, <1>2 DEF InnerOf
<1>5. leaf \in InnerOf(InnerOf(Inner(node, value)))
  <2> HIDE DEF item, leaf
  <2>1. QED
    BY <1>3, <1>4 DEF InnerOf
<1>6. leaf \in Compared(node, value)
  <2> HIDE DEF leaf
  <2>1. QED
    BY <1>5 DEF Compared
<1>7. leaf[1].types # <<>> => \E type \in leaf[1].types[1] : MatchesType(leaf[2], type)
  <2> HIDE DEF leaf
  <2>1. QED
    BY <1>6, Zenon DEF Conforms
<1>8. QED
  BY <1>7

(* A declared observation is one of the five, with its schema.             *)
LEMMA ShippedObservation ==
    ASSUME NEW d, AsShipped(d), d.kind = "observation"
    PROVE  \/ d.id = ScreenId /\ d.schema = ScreenStateEntry.schema
           \/ d.id = TurnId /\ d.schema = TurnStateEntry.schema
           \/ d.id = DiplomacyId /\ d.schema = DiplomacyEntry.schema
           \/ d.id = PeopleId /\ d.schema = GreatPeopleEntry.schema
           \/ d.id = ResearchId /\ d.schema = ResearchEntry.schema
<1>1. Range(Observations) =
        {ScreenStateEntry, TurnStateEntry, DiplomacyEntry, GreatPeopleEntry, ResearchEntry}
  BY DEF Range, Observations
<1>2. \A a \in Range(Actions) : a.kind = "action"
  <2>1. Range(Actions) = {EndTurnEntry, DeclareWarEntry, MakePeaceEntry, RecruitEntry,
                          SetTechEntry, AnswerWarEntry, ZoomEntry, CastVoteEntry}
    BY DEF Range, Actions
  <2>2. QED
    BY <2>1 DEF EndTurnEntry, DeclareWarEntry, MakePeaceEntry, RecruitEntry,
                SetTechEntry, AnswerWarEntry, ZoomEntry, CastVoteEntry, Action
<1>3. /\ ScreenStateEntry.id = ScreenId /\ TurnStateEntry.id = TurnId
      /\ DiplomacyEntry.id = DiplomacyId /\ GreatPeopleEntry.id = PeopleId
      /\ ResearchEntry.id = ResearchId
  BY DEF ScreenStateEntry, TurnStateEntry, DiplomacyEntry, GreatPeopleEntry, ResearchEntry,
         Observation, ScreenId, TurnId, DiplomacyId, PeopleId, ResearchId
<1>4. d \notin Range(Actions) /\ d.kind # "action"
  BY <1>2
<1>5. QED
  BY <1>1, <1>3, <1>4, Zenon DEF AsShipped

(* An answer that is accepted is a genuine one: the schemas and the        *)
(* consistency of a screen reject the malformed ones.                      *)
LEMMA AnswerGenuine ==
    ASSUME game \in Games, NEW id, NEW d, d = catalog.declarations[id], AsShipped(d), d.id = id,
           d.kind = "observation",
           NEW value \in {ValueOf(id)} \cup Malformed(id), Accepted(id, value)
    PROVE  Genuine([i \in {id} |-> value])
<1> DEFINE Sound(v) ==
       \/ id = ScreenId /\ \E s \in Screens : v = ScreenState(s, IsPrompt(s))
       \/ id = TurnId /\ \E n \in Int, mine \in BOOLEAN : v = TurnState(n, mine)
       \/ id = DiplomacyId /\ \E rival \in {"peace", "war", "gone"} : v = Relations(rival)
       \/ id = PeopleId /\ \E person \in {"free", "taken", "ours"} : v = People(person)
       \/ id = ResearchId /\ \E tech \in {"none", "pottery"} : v = Research(tech)
<1>0. Conforms(d.schema[1], value)
  BY Zenon DEF Accepted
<1>1. \/ id = ScreenId /\ d.schema = ScreenStateEntry.schema
      \/ id = TurnId /\ d.schema = TurnStateEntry.schema
      \/ id = DiplomacyId /\ d.schema = DiplomacyEntry.schema
      \/ id = PeopleId /\ d.schema = GreatPeopleEntry.schema
      \/ id = ResearchId /\ d.schema = ResearchEntry.schema
  BY ShippedObservation, Zenon
<1>2. /\ d.schema[1].types = <<{"object"}>> /\ d.schema[1].required # {}
  <2>1. /\ ScreenStateEntry.schema[1].types = <<{"object"}>> /\ ScreenStateEntry.schema[1].required # {}
        /\ TurnStateEntry.schema[1].types = <<{"object"}>> /\ TurnStateEntry.schema[1].required # {}
    BY DEF ScreenStateEntry, TurnStateEntry, Observation, Object, Node
  <2>2. /\ DiplomacyEntry.schema[1].types = <<{"object"}>> /\ DiplomacyEntry.schema[1].required # {}
        /\ GreatPeopleEntry.schema[1].types = <<{"object"}>> /\ GreatPeopleEntry.schema[1].required # {}
        /\ ResearchEntry.schema[1].types = <<{"object"}>> /\ ResearchEntry.schema[1].required # {}
    BY DEF DiplomacyEntry, GreatPeopleEntry, ResearchEntry, Observation, Object, Node
  <2>3. QED
    BY <1>1, <2>1, <2>2
<1>3. value # Null
  <2>1. value = Null => ~\E type \in {"object"} : MatchesType(value, type)
    BY DEF MatchesType, Is, Null
  <2>2. QED
    BY <1>0, <1>2, <2>1, ConformsNode
<1>4. value # Rec(<<>>)
  <2>1. value = Rec(<<>>) => Is(value, {"rec"}) /\ DOMAIN value[2] = {}
    BY DEF Is, Rec
  <2>2. QED
    BY <1>0, <1>2, <2>1, ConformsNode
<1>5. Sound(ValueOf(id))
  <2>1. game.screen \in Screens /\ game.turn \in Int /\ game.mine \in BOOLEAN
        /\ game.rival \in {"peace", "war", "gone"} /\ game.person \in {"free", "taken", "ours"}
        /\ game.tech \in {"none", "pottery"}
    BY DEF Games
  <2>2. CASE id = ScreenId
    <3>1. ValueOf(id) = ScreenState(game.screen, IsPrompt(game.screen))
      BY <2>2 DEF ValueOf, ScreenId
    <3>2. QED
      BY <2>1, <2>2, <3>1, Zenon
  <2>3. CASE id = TurnId
    <3>1. ValueOf(id) = TurnState(game.turn, game.mine)
      BY <2>3 DEF ValueOf, TurnId, TurnState
    <3>2. QED
      BY <2>1, <2>3, <3>1, Zenon
  <2>4. CASE id = DiplomacyId
    <3>1. ValueOf(id) = Relations(game.rival)
      BY <2>4 DEF ValueOf, DiplomacyId, Relations
    <3>2. QED
      BY <2>1, <2>4, <3>1, Zenon
  <2>5. CASE id = PeopleId
    <3>1. ValueOf(id) = People(game.person)
      BY <2>5 DEF ValueOf, PeopleId, People
    <3>2. QED
      BY <2>1, <2>5, <3>1, Zenon
  <2>6. CASE id = ResearchId
    <3>1. ValueOf(id) = Research(game.tech)
      BY <2>6 DEF ValueOf, ResearchId, Research
    <3>2. QED
      BY <2>1, <2>6, <3>1, Zenon
  <2>7. QED
    BY <1>1, <2>2, <2>3, <2>4, <2>5, <2>6, Zenon
<1>6. ~(id = DiplomacyId /\ value = Rec([relations |-> List(<< Rec([has_met |-> Bool(TRUE)]) >>)]))
  <2> SUFFICES ASSUME id = DiplomacyId,
                      value = Rec([relations |-> List(<< Rec([has_met |-> Bool(TRUE)]) >>)])
               PROVE  FALSE
    OBVIOUS
  <2> DEFINE node == d.schema[1]
  <2>1. node = Object([relations |-> ListOf(RelationSchema)], {"relations"})
    BY <1>1 DEF DiplomacyEntry, Observation, ScreenId, TurnId, DiplomacyId, PeopleId, ResearchId
  <2>2. /\ "relations" \in DOMAIN node.properties
        /\ node.properties["relations"] = ListOf(RelationSchema)
    BY <2>1 DEF Object, Node
  <2>3. /\ ListOf(RelationSchema).items = <<RelationSchema>>
        /\ ListOf(RelationSchema).positional = FALSE
        /\ "player_id" \in RelationSchema.required
    BY DEF ListOf, Node, RelationSchema, Object
  <2>4. /\ Is(value, {"rec"}) /\ "relations" \in DOMAIN value[2]
        /\ value[2]["relations"] = List(<< Rec([has_met |-> Bool(TRUE)]) >>)
    BY DEF Rec, Is
  <2> DEFINE items == List(<< Rec([has_met |-> Bool(TRUE)]) >>)
  <2>5. /\ Is(items, {"list"}) /\ 1 \in DOMAIN items[2] /\ Is(items[2][1], {"rec"})
        /\ "player_id" \notin DOMAIN items[2][1][2]
    BY DEF List, Rec, Is
  <2> HIDE DEF items, node
  <2>6. node.properties["relations"].items[1].required \subseteq DOMAIN items[2][1][2]
    <3>1. value[2]["relations"] = items
      BY <2>4 DEF items
    <3>2. node.properties["relations"].items # <<>> /\ ~node.properties["relations"].positional
      BY <2>2, <2>3
    <3>3. "relations" \in DOMAIN node.properties \cap DOMAIN value[2]
      BY <2>2, <2>4
    <3>4. Conforms(node, value)
      BY <1>0 DEF node
    <3>5. QED
      BY <2>4, <2>5, <3>1, <3>2, <3>3, <3>4, ConformsSecond
  <2>7. QED
    BY <2>2, <2>3, <2>5, <2>6
<1>7. ~(id = ScreenId /\ value = ScreenState(<<"screen", "world">>, TRUE))
  <2> SUFFICES ASSUME id = ScreenId, value = ScreenState(<<"screen", "world">>, TRUE)
               PROVE  FALSE
    OBVIOUS
  <2>1. Truthy(value[2]["recognized"]) /\ Truthy(value[2]["has_blocking_prompt"])
           => IsPrompt(value[2]["screen"][2])
    BY Zenon DEF Accepted, ScreenId
  <2>2. /\ value[2]["recognized"] = Bool(TRUE) /\ value[2]["has_blocking_prompt"] = Bool(TRUE)
        /\ value[2]["screen"] = Id(<<"screen", "world">>)
    <3>1. <<"screen", "world">> # <<"screen", "unknown">>
      OBVIOUS
    <3>2. QED
      BY <3>1 DEF ScreenState, Rec
  <2>3. Truthy(Bool(TRUE)) /\ ~IsPrompt(Id(<<"screen", "world">>)[2])
    BY TruthyBool DEF Id, IsPrompt
  <2>4. QED
    BY <2>1, <2>2, <2>3, Zenon
<1>b. ~(id = DiplomacyId /\ value = Rec([relations |-> List(<< Relation(True, "war") >>)]))
  <2> SUFFICES ASSUME id = DiplomacyId,
                      value = Rec([relations |-> List(<< Relation(True, "war") >>)])
               PROVE  FALSE
    OBVIOUS
  <2> DEFINE node == d.schema[1]
             items == List(<< Relation(True, "war") >>)
  <2>1. node = Object([relations |-> ListOf(RelationSchema)], {"relations"})
    BY <1>1 DEF DiplomacyEntry, Observation, ScreenId, TurnId, DiplomacyId, PeopleId, ResearchId
  <2>2. /\ "relations" \in DOMAIN node.properties
        /\ node.properties["relations"] = ListOf(RelationSchema)
    BY <2>1 DEF Object, Node
  <2>3. /\ ListOf(RelationSchema).items = <<RelationSchema>>
        /\ ListOf(RelationSchema).positional = FALSE
    BY DEF ListOf, Node
  <2>4. /\ "player_id" \in DOMAIN RelationSchema.properties
        /\ RelationSchema.properties["player_id"].types = <<{"integer"}>>
    BY DEF RelationSchema, Object, Node, Typed
  <2>5. /\ Is(value, {"rec"}) /\ "relations" \in DOMAIN value[2] /\ value[2]["relations"] = items
    BY DEF Rec, Is
  <2>6. /\ Is(items, {"list"}) /\ 1 \in DOMAIN items[2] /\ Is(items[2][1], {"rec"})
        /\ "player_id" \in DOMAIN items[2][1][2] /\ items[2][1][2]["player_id"] = True
    BY DEF List, Relation, Rec, Is
  <2>7. ~MatchesType(True, "integer")
    BY DEF MatchesType, Is, True, Bool
  <2> HIDE DEF items, node
  <2>8. \E type \in RelationSchema.properties["player_id"].types[1] :
           MatchesType(items[2][1][2]["player_id"], type)
    <3>1. node.properties["relations"].items # <<>> /\ ~node.properties["relations"].positional
          /\ node.properties["relations"].items[1] = RelationSchema
      BY <2>2, <2>3
    <3>2. Conforms(node, value)
      BY <1>0 DEF node
    <3>3. "relations" \in DOMAIN node.properties \cap DOMAIN value[2]
      BY <2>2, <2>5
    <3>4. "player_id" \in DOMAIN node.properties["relations"].items[1].properties
                          \cap DOMAIN value[2]["relations"][2][1][2]
      BY <2>4, <2>5, <2>6, <3>1
    <3>5. node.properties["relations"].items[1].properties["player_id"].types # <<>>
      <4>1. node.properties["relations"].items[1].properties["player_id"].types = <<{"integer"}>>
        BY <2>4, <3>1, Zenon
      <4>2. <<{"integer"}>> # <<>>
        OBVIOUS
      <4> QED  BY <4>1, <4>2, Zenon
    <3>6. QED
      BY <2>5, <2>6, <3>1, <3>2, <3>3, <3>4, <3>5, ConformsThird
  <2>9. QED
    BY <2>4, <2>6, <2>7, <2>8
<1>8. Sound(value)
  BY <1>3, <1>4, <1>5, <1>6, <1>b, <1>7 DEF Malformed, DiplomacyId, ScreenId
<1> HIDE DEF Sound
<1>9. QED
  <2> DEFINE one == [i \in {id} |-> value]
  <2>1. DOMAIN one = {id} /\ one[id] = value
    OBVIOUS
  <2> HIDE DEF one
  <2>2. Genuine(one)
    BY <1>8, <2>1, Zenon DEF Genuine, Sound
  <2>3. QED
    BY <2>2 DEF one

(* Genuine entries stay so when they are joined.                           *)
LEMMA JoinedGenuine ==
    ASSUME NEW v, Genuine(v), NEW w, Genuine(w)
    PROVE  Genuine(Joined(v, w)) /\ DOMAIN Joined(v, w) = DOMAIN v \cup DOMAIN w
<1> DEFINE Sound(id, x) ==
       \/ id = ScreenId /\ \E s \in Screens : x = ScreenState(s, IsPrompt(s))
       \/ id = TurnId /\ \E n \in Int, mine \in BOOLEAN : x = TurnState(n, mine)
       \/ id = DiplomacyId /\ \E rival \in {"peace", "war", "gone"} : x = Relations(rival)
       \/ id = PeopleId /\ \E person \in {"free", "taken", "ours"} : x = People(person)
       \/ id = ResearchId /\ \E tech \in {"none", "pottery"} : x = Research(tech)
<1>1. DOMAIN Joined(v, w) = DOMAIN v \cup DOMAIN w
  BY DEF Joined
<1>2. \A id \in DOMAIN Joined(v, w) :
         \/ id \in DOMAIN v /\ Joined(v, w)[id] = v[id]
         \/ id \in DOMAIN w /\ Joined(v, w)[id] = w[id]
  BY DEF Joined
<1>3. (\A id \in DOMAIN v : Sound(id, v[id])) /\ (\A id \in DOMAIN w : Sound(id, w[id]))
  BY Zenon DEF Genuine
<1>4. \A id \in DOMAIN Joined(v, w) : Sound(id, Joined(v, w)[id])
  <2> HIDE DEF Sound
  <2>1. QED
    BY <1>2, <1>3
<1>5. Genuine(Joined(v, w))
  BY <1>4, Zenon DEF Genuine
<1>6. QED
  BY <1>1, <1>5

----------------------------------------------------------------------------
(* From a board to the namespaces of a predicate (observe/assemble.py).    *)

(* What a genuine board reports under each id, if it reports it.           *)
LEMMA ReadGenuine ==
    ASSUME NEW V, Genuine(V)
    PROVE  /\ Read(V, ScreenId) = Null \/ \E s \in Screens : Read(V, ScreenId) = ScreenState(s, IsPrompt(s))
           /\ Read(V, TurnId) = Null \/ \E n \in Int, mine \in BOOLEAN : Read(V, TurnId) = TurnState(n, mine)
           /\ Read(V, DiplomacyId) = Null
                 \/ \E rival \in {"peace", "war", "gone"} : Read(V, DiplomacyId) = Relations(rival)
           /\ Read(V, PeopleId) = Null
                 \/ \E person \in {"free", "taken", "ours"} : Read(V, PeopleId) = People(person)
           /\ Read(V, ResearchId) = Null
                 \/ \E tech \in {"none", "pottery"} : Read(V, ResearchId) = Research(tech)
           /\ \A id : id \notin {ScreenId, TurnId, DiplomacyId, PeopleId, ResearchId} => Read(V, id) = Null
<1>1. /\ ScreenId # TurnId /\ ScreenId # DiplomacyId /\ ScreenId # PeopleId /\ ScreenId # ResearchId
      /\ TurnId # DiplomacyId /\ TurnId # PeopleId /\ TurnId # ResearchId
      /\ DiplomacyId # PeopleId /\ DiplomacyId # ResearchId /\ PeopleId # ResearchId
  BY DEF ScreenId, TurnId, DiplomacyId, PeopleId, ResearchId
<1>2. \A id : id \notin DOMAIN V => Read(V, id) = Null
  BY Zenon DEF Read
<1>3. \A id \in DOMAIN V : Read(V, id) = V[id]
  BY Zenon DEF Read
<1>4. QED
  BY <1>1, <1>2, <1>3, Zenon DEF Genuine

(* _RENAMED_FIELDS moves the screen and nothing else.                      *)
LEMMA RenamedFields ==
    ASSUME NEW fields, "current_screen" \notin DOMAIN fields
    PROVE  /\ \A f : f \notin {"screen", "current_screen"} =>
                 /\ f \in DOMAIN Renamed(fields) <=> f \in DOMAIN fields
                 /\ f \in DOMAIN fields => Renamed(fields)[f] = fields[f]
           /\ "current_screen" \in DOMAIN Renamed(fields) <=> "screen" \in DOMAIN fields
           /\ "screen" \in DOMAIN fields => Renamed(fields)["current_screen"] = fields["screen"]
BY DEF Renamed

(* A field of a record, read either way.                                   *)
LEMMA RecField ==
    ASSUME NEW fields, NEW f
    PROVE  /\ Field(Rec(fields), f) = IF f \in DOMAIN fields THEN fields[f] ELSE Null
           /\ ResolveAttribute(Rec(fields), f) = Field(Rec(fields), f)
BY DEF Field, Rec, Is, ResolveAttribute, Err, Null

(* The fields a source contributes are those of its entry.                 *)
LEMMA FieldsRead ==
    ASSUME NEW V, NEW d, ~Is(Read(V, d), {"rec"}) \/ "current_screen" \notin DOMAIN Read(V, d)[2]
    PROVE  /\ \A f : f \notin {"screen", "current_screen"} =>
                 /\ Field(Rec(FieldsOf(V, d)), f) = Field(Read(V, d), f)
                 /\ f \in DOMAIN FieldsOf(V, d) => f \in DOMAIN Read(V, d)[2]
           /\ Field(Rec(FieldsOf(V, d)), "current_screen") = Field(Read(V, d), "screen")
           /\ "current_screen" \in DOMAIN FieldsOf(V, d) => "screen" \in DOMAIN Read(V, d)[2]
           /\ ~Is(Read(V, d), {"rec"}) => DOMAIN FieldsOf(V, d) = {}
<1>1. CASE ~Is(Read(V, d), {"rec"})
  <2>1. FieldsOf(V, d) = <<>>
    BY <1>1, Zenon DEF FieldsOf
  <2>2. DOMAIN FieldsOf(V, d) = {}
    BY <2>1
  <2>3. \A f : Field(Read(V, d), f) = Null
    BY <1>1, Zenon DEF Field
  <2>4. QED
    BY <2>2, <2>3, RecField, Zenon
<1>2. CASE Is(Read(V, d), {"rec"})
  <2>1. FieldsOf(V, d) = Renamed(Read(V, d)[2])
    BY <1>2, Zenon DEF FieldsOf
  <2>2. \A f : Field(Read(V, d), f) = IF f \in DOMAIN Read(V, d)[2] THEN Read(V, d)[2][f] ELSE Null
    BY <1>2, Zenon DEF Field
  <2>3. "current_screen" \notin DOMAIN Read(V, d)[2]
    BY <1>2
  <2> DEFINE fields == Read(V, d)[2]
  <2> HIDE DEF fields
  <2>4. FieldsOf(V, d) = Renamed(fields) /\ "current_screen" \notin DOMAIN fields
    BY <2>1, <2>3 DEF fields
  <2>5. \A f : Field(Read(V, d), f) = IF f \in DOMAIN fields THEN fields[f] ELSE Null
    BY <2>2 DEF fields
  <2>6. \A f : Field(Rec(FieldsOf(V, d)), f)
                 = IF f \in DOMAIN Renamed(fields) THEN Renamed(fields)[f] ELSE Null
    BY <2>4, RecField, Zenon
  <2>7. ASSUME NEW f, f \notin {"screen", "current_screen"}
        PROVE  /\ Field(Rec(FieldsOf(V, d)), f) = Field(Read(V, d), f)
               /\ f \in DOMAIN FieldsOf(V, d) => f \in DOMAIN fields
    BY <2>4, <2>5, <2>6, <2>7, RenamedFields
  <2>8. /\ Field(Rec(FieldsOf(V, d)), "current_screen") = Field(Read(V, d), "screen")
        /\ "current_screen" \in DOMAIN FieldsOf(V, d) => "screen" \in DOMAIN fields
    BY <2>4, <2>5, <2>6, RenamedFields
  <2>9. QED
    BY <1>2, <2>7, <2>8 DEF fields
<1>3. QED
  BY <1>1, <1>2

(* A field that one source alone has is that source's.                     *)
LEMMA MergedField ==
    ASSUME NEW V, NEW sources, NEW i \in DOMAIN sources, NEW f, DOMAIN sources \subseteq Nat,
           \A j \in DOMAIN sources : j # i => f \notin DOMAIN FieldsOf(V, sources[j])
    PROVE  Field(Rec(MergeFields(V, sources)), f) = Field(Rec(FieldsOf(V, sources[i])), f)
<1> DEFINE holding == {j \in DOMAIN sources : f \in DOMAIN FieldsOf(V, sources[j])}
           newest == CHOOSE k \in holding : \A j \in holding : j <= k
<1>1. f \in DOMAIN MergeFields(V, sources) <=> \E j \in DOMAIN sources : f \in DOMAIN FieldsOf(V, sources[j])
  BY DEF MergeFields, Range
<1>2. CASE f \notin DOMAIN FieldsOf(V, sources[i])
  <2>1. f \notin DOMAIN MergeFields(V, sources)
    BY <1>1, <1>2, Zenon
  <2>2. QED
    BY <1>2, <2>1, RecField, Zenon
<1>3. CASE f \in DOMAIN FieldsOf(V, sources[i])
  <2>1. f \in DOMAIN MergeFields(V, sources)
    BY <1>1, <1>3, Zenon
  <2>2. MergeFields(V, sources)[f] = FieldsOf(V, sources[newest])[f]
    BY <2>1, Zenon DEF MergeFields
  <2>3. holding = {i}
    BY <1>3
  <2> HIDE DEF holding
  <2>4. newest = i
    BY <2>3
  <2>5. QED
    BY <1>3, <2>1, <2>2, <2>4, RecField, Zenon
<1>4. QED
  BY <1>2, <1>3

(* What the names of the shipped predicates resolve to.                    *)
LEMMA NamesBound ==
    ASSUME NEW V, NEW target, NEW snapshot
    PROVE  LET b == Bindings(V, target, snapshot)
           IN  /\ ResolveName("game", b) = Rec(GameNamespace(V))
               /\ ResolveName("player", b) = Rec(PlayerNamespace(V))
               /\ ResolveName("prompt", b) = Rec(PromptNamespace(V))
               /\ ResolveName("camera", b) = Rec(<<>>)
               /\ ResolveName("target", b) = target
               /\ ResolveName("other_player", b) = Rec(SubjectNamespace(V, "other_player", target))
               /\ ResolveName("great_person", b) = Rec(SubjectNamespace(V, "great_person", target))
               /\ ResolveName("congress", b) = Rec(SubjectNamespace(V, "congress", target))
               /\ ResolveName("observed_turn_number", b) =
                     IF "observed_turn_number" \in DOMAIN snapshot
                     THEN snapshot["observed_turn_number"] ELSE Err
<1> DEFINE b == Bindings(V, target, snapshot)
           fixed == [game |-> Rec(GameNamespace(V)), player |-> Rec(PlayerNamespace(V)),
                     prompt |-> Rec(PromptNamespace(V)), camera |-> Rec(<<>>), target |-> target]
           subjects == [n \in DOMAIN SubjectSources |-> Rec(SubjectNamespace(V, n, target))]
<1>1. DOMAIN Literals = {"true", "false", "null"}
  BY DEF Literals
<1>2. b = Joined(fixed, Joined(subjects, snapshot))
  BY Zenon DEF Bindings
<1>3. DOMAIN SubjectSources = {"unit", "city", "other_player", "congress", "great_person", "spy"}
  BY DEF SubjectSources
<1>4. /\ DOMAIN fixed = {"game", "player", "prompt", "camera", "target"}
      /\ fixed["game"] = Rec(GameNamespace(V)) /\ fixed["player"] = Rec(PlayerNamespace(V))
      /\ fixed["prompt"] = Rec(PromptNamespace(V)) /\ fixed["camera"] = Rec(<<>>)
      /\ fixed["target"] = target
  OBVIOUS
<1>5. /\ DOMAIN subjects = DOMAIN SubjectSources
      /\ \A n \in DOMAIN SubjectSources : subjects[n] = Rec(SubjectNamespace(V, n, target))
  OBVIOUS
<1>6. \A g, h, n : /\ n \in DOMAIN Joined(g, h) <=> n \in DOMAIN g \/ n \in DOMAIN h
                   /\ n \in DOMAIN g => Joined(g, h)[n] = g[n]
                   /\ n \in DOMAIN h /\ n \notin DOMAIN g => Joined(g, h)[n] = h[n]
  BY DEF Joined
<1> HIDE DEF fixed, subjects, b
<1>7. /\ \A n \in DOMAIN fixed : n \in DOMAIN b /\ b[n] = fixed[n]
      /\ \A n \in DOMAIN subjects : n \notin DOMAIN fixed => n \in DOMAIN b /\ b[n] = subjects[n]
      /\ \A n : n \notin DOMAIN fixed \cup DOMAIN subjects =>
                  /\ n \in DOMAIN b <=> n \in DOMAIN snapshot
                  /\ n \in DOMAIN snapshot => b[n] = snapshot[n]
  BY <1>2, <1>6
<1>8. QED
  BY <1>1, <1>3, <1>4, <1>5, <1>7 DEF b, ResolveName

TurnFields == {"turn_number", "is_local_player_turn", "is_waiting_for_other_players"}

(* The fields the entries of a genuine board have.                         *)
LEMMA SourceShapes ==
    ASSUME NEW V, Genuine(V)
    PROVE  /\ ~Is(Read(V, ScreenId), {"rec"})
                 \/ DOMAIN Read(V, ScreenId)[2] =
                       {"screen", "recognized", "has_blocking_prompt", "prompt_options"}
           /\ ~Is(Read(V, TurnId), {"rec"}) \/ DOMAIN Read(V, TurnId)[2] = TurnFields
           /\ ~Is(Read(V, ResearchId), {"rec"})
                 \/ DOMAIN Read(V, ResearchId)[2] = {"researchable_techs", "current_research"}
<1>1. \A s, blocking : DOMAIN ScreenState(s, blocking)[2] =
         {"screen", "recognized", "has_blocking_prompt", "prompt_options"}
  BY DEF ScreenState, Rec
<1>2. \A n, mine : DOMAIN TurnState(n, mine)[2] = TurnFields
  BY DEF TurnState, Rec, TurnFields
<1>3. \A tech : DOMAIN Research(tech)[2] = {"researchable_techs", "current_research"}
  BY DEF Research, Rec
<1>4. ~Is(Null, {"rec"})
  BY DEF Null, Is
<1>5. QED
  BY <1>1, <1>2, <1>3, <1>4, ReadGenuine

(* The namespace game: the turn of game.turn_state, the screen of          *)
(* game.screen_state.                                                      *)
LEMMA GameFields ==
    ASSUME NEW V, Genuine(V)
    PROVE  /\ \A f \in TurnFields : Field(Rec(GameNamespace(V)), f) = Field(Read(V, TurnId), f)
           /\ Field(Rec(GameNamespace(V)), "current_screen") = Field(Read(V, ScreenId), "screen")
           /\ Field(Rec(GameNamespace(V)), "has_blocking_prompt")
                 = Field(Read(V, ScreenId), "has_blocking_prompt")
<1> DEFINE merged == MergeFields(V, GameSources)
<1>1. DOMAIN GameSources = {1, 2} /\ GameSources[1] = ScreenId /\ GameSources[2] = TurnId
  BY DEF GameSources, ScreenId, TurnId
<1>2. \A f : f # "active_prompt_type" => Field(Rec(GameNamespace(V)), f) = Field(Rec(merged), f)
  <2>1. \A g, x, f : f # "active_prompt_type" =>
           /\ f \in DOMAIN Joined(g, [active_prompt_type |-> x]) <=> f \in DOMAIN g
           /\ f \in DOMAIN g => Joined(g, [active_prompt_type |-> x])[f] = g[f]
    BY DEF Joined
  <2> HIDE DEF merged
  <2>2. GameNamespace(V) = merged \/ \E x : GameNamespace(V) = Joined(merged, [active_prompt_type |-> x])
    BY Zenon DEF GameNamespace, merged
  <2>3. QED
    BY <2>1, <2>2, RecField, Zenon
<1>3. /\ \A f \in TurnFields : f \notin DOMAIN FieldsOf(V, ScreenId)
      /\ \A f \in {"current_screen", "has_blocking_prompt"} : f \notin DOMAIN FieldsOf(V, TurnId)
  BY FieldsRead, SourceShapes DEF TurnFields
<1>4. \A f \in TurnFields : Field(Rec(merged), f) = Field(Rec(FieldsOf(V, TurnId)), f)
  BY <1>1, <1>3, MergedField
<1>5. \A f \in {"current_screen", "has_blocking_prompt"} :
         Field(Rec(merged), f) = Field(Rec(FieldsOf(V, ScreenId)), f)
  BY <1>1, <1>3, MergedField
<1> HIDE DEF merged
<1>6. \A f \in TurnFields : Field(Rec(FieldsOf(V, TurnId)), f) = Field(Read(V, TurnId), f)
  BY FieldsRead, SourceShapes DEF TurnFields
<1>7. /\ Field(Rec(FieldsOf(V, ScreenId)), "current_screen") = Field(Read(V, ScreenId), "screen")
      /\ Field(Rec(FieldsOf(V, ScreenId)), "has_blocking_prompt")
            = Field(Read(V, ScreenId), "has_blocking_prompt")
  BY FieldsRead, SourceShapes
<1>8. /\ "current_screen" # "active_prompt_type" /\ "has_blocking_prompt" # "active_prompt_type"
      /\ \A f \in TurnFields : f # "active_prompt_type"
  BY DEF TurnFields
<1>9. QED
  BY <1>2, <1>4, <1>5, <1>6, <1>7, <1>8

(* The namespace player: the techs of research.state.                      *)
LEMMA PlayerFields ==
    ASSUME NEW V, Genuine(V)
    PROVE  \A f \in {"researchable_techs", "current_research"} :
              Field(Rec(PlayerNamespace(V)), f) = Field(Read(V, ResearchId), f)
<1>1. /\ DOMAIN PlayerSources = {1, 2, 3} /\ PlayerSources[1] = ResearchId
      /\ PlayerSources[2] = <<"government", "state">> /\ PlayerSources[3] = <<"religion", "state">>
  BY DEF PlayerSources, ResearchId
<1>2. /\ Read(V, <<"government", "state">>) = Null /\ Read(V, <<"religion", "state">>) = Null
      /\ Read(V, CongressState) = Null
  BY ReadGenuine DEF ScreenId, TurnId, DiplomacyId, PeopleId, ResearchId, CongressState
<1>3. ~Is(Null, {"rec"})
  BY DEF Null, Is
<1>4. PlayerNamespace(V) = MergeFields(V, PlayerSources)
  BY <1>2, <1>3, Zenon DEF PlayerNamespace
<1>5. /\ DOMAIN FieldsOf(V, <<"government", "state">>) = {}
      /\ DOMAIN FieldsOf(V, <<"religion", "state">>) = {}
  BY <1>2, <1>3, FieldsRead, Zenon
<1>6. \A f : Field(Rec(MergeFields(V, PlayerSources)), f) = Field(Rec(FieldsOf(V, ResearchId)), f)
  BY <1>1, <1>5, MergedField
<1>7. \A f \in {"researchable_techs", "current_research"} :
         Field(Rec(FieldsOf(V, ResearchId)), f) = Field(Read(V, ResearchId), f)
  BY FieldsRead, SourceShapes
<1>8. QED
  BY <1>4, <1>6, <1>7, Zenon

(* The item of a list of one that answers to the target, or none. *)
LEMMA SubjectListed ==
    ASSUME NEW V, Genuine(V), NEW namespace \in DOMAIN SubjectSources, NEW target,
           NEW items, items = Field(Read(V, SubjectSources[namespace].from),
                                    SubjectSources[namespace].list)
    PROVE  /\ items = Null \/ items = List(<<>>) =>
                 \A f : f # "exists" => Field(Rec(SubjectNamespace(V, namespace, target)), f) = Null
           /\ \A x, k : items = List(<< Rec(x) >>) /\ SubjectSources[namespace].id \in DOMAIN x
                          /\ x[SubjectSources[namespace].id] = Num(k) =>
                 \A f : f # "exists" =>
                    Field(Rec(SubjectNamespace(V, namespace, target)), f)
                       = IF SameValue(Num(k), target) THEN Field(Rec(x), f) ELSE Null
<1> DEFINE id == SubjectSources[namespace].id
           matching == IF Is(items, {"list"}) /\ target # Null
                       THEN {i \in DOMAIN items[2] : SameValue(Field(items[2][i], id), target)}
                       ELSE {}
           item == items[2][CHOOSE i \in matching : \A j \in matching : i <= j]
           subject == SubjectNamespace(V, namespace, target)
<1>1. Read(V, CongressState) = Null /\ ~Is(Null, {"rec"})
  BY ReadGenuine DEF ScreenId, TurnId, DiplomacyId, PeopleId, ResearchId, CongressState, Null, Is
<1>2. subject = IF matching = {} THEN Joined([exists |-> Bool(FALSE)], <<>>)
                ELSE Joined([exists |-> Bool(TRUE)], Joined(item[2], <<>>))
  <2>1. ~Is(Read(V, CongressState), {"rec"})
    BY <1>1, Zenon
  <2>2. QED
    BY <2>1 DEF SubjectNamespace
<1>3. \A x, f : f # "exists" => Field(Rec(Joined([exists |-> x], <<>>)), f) = Null
  BY DEF Joined, Field, Rec
<1>4. \A x, g, f : f # "exists" =>
         Field(Rec(Joined([exists |-> x], Joined(g, <<>>))), f) = Field(Rec(g), f)
  <2> SUFFICES ASSUME NEW x, NEW g, NEW f, f # "exists"
               PROVE  Field(Rec(Joined([exists |-> x], Joined(g, <<>>))), f) = Field(Rec(g), f)
    OBVIOUS
  <2> DEFINE joined == Joined([exists |-> x], Joined(g, <<>>))
  <2>1. /\ f \in DOMAIN joined <=> f \in DOMAIN g
        /\ f \in DOMAIN g => joined[f] = g[f]
    BY DEF Joined
  <2> HIDE DEF joined
  <2>2. Field(Rec(joined), f) = IF f \in DOMAIN joined THEN joined[f] ELSE Null
    BY RecField
  <2>3. Field(Rec(g), f) = IF f \in DOMAIN g THEN g[f] ELSE Null
    BY RecField
  <2>4. QED
    BY <2>1, <2>2, <2>3 DEF joined
<1>5. ASSUME items = Null \/ items = List(<<>>)
      PROVE  matching = {}
  <2>1. CASE items = Null
    BY <2>1 DEF Is, Null
  <2>2. CASE items = List(<<>>)
    <3>1. items[2] = <<>>
      BY <2>2 DEF List
    <3>2. QED
      BY <3>1
  <2>3. QED
    BY <1>5, <2>1, <2>2
<1>6. ASSUME NEW x, NEW k, items = List(<< Rec(x) >>), id \in DOMAIN x, x[id] = Num(k)
      PROVE  /\ SameValue(Num(k), target) => matching = {1} /\ items[2][1][2] = x
             /\ ~SameValue(Num(k), target) => matching = {}
  <2>1. /\ Is(items, {"list"}) /\ DOMAIN items[2] = {1} /\ items[2][1] = Rec(x)
    BY <1>6 DEF List, Is
  <2>2. Rec(x)[2] = x
    BY DEF Rec
  <2>3. Field(Rec(x), id) = Num(k)
    BY <1>6, RecField, Zenon
  <2>4. SameValue(Num(k), target) => target # Null
    BY DEF SameValue, Is, Num, Null
  <2>5. Num(k) # Null
    BY DEF Num, Null
  <2> HIDE DEF id
  <2>6. QED
    BY <2>1, <2>2, <2>3, <2>4, <2>5
<1> HIDE DEF matching, id, subject
<1>7. ASSUME items = Null \/ items = List(<<>>), NEW f, f # "exists"
      PROVE  Field(Rec(subject), f) = Null
  BY <1>2, <1>3, <1>5, <1>7, Zenon
<1>8. ASSUME NEW x, NEW k, items = List(<< Rec(x) >>), id \in DOMAIN x, x[id] = Num(k),
             NEW f, f # "exists"
      PROVE  Field(Rec(subject), f) = IF SameValue(Num(k), target) THEN Field(Rec(x), f) ELSE Null
  <2>1. CASE SameValue(Num(k), target)
    <3>1. matching = {1} /\ items[2][1][2] = x
      BY <1>6, <1>8, <2>1
    <3>2. (CHOOSE i \in matching : \A j \in matching : i <= j) = 1
      BY <3>1
    <3>3. item[2] = x
      BY <3>1, <3>2
    <3> HIDE DEF item
    <3>4. subject = Joined([exists |-> Bool(TRUE)], Joined(x, <<>>))
      BY <1>2, <3>1, <3>3
    <3>5. Field(Rec(Joined([exists |-> Bool(TRUE)], Joined(x, <<>>))), f) = Field(Rec(x), f)
      BY <1>4, <1>8, Zenon
    <3>6. QED
      BY <2>1, <3>4, <3>5
  <2>2. CASE ~SameValue(Num(k), target)
    <3>1. matching = {}
      BY <1>6, <1>8, <2>2
    <3> HIDE DEF item
    <3>2. QED
      BY <1>2, <1>3, <1>8, <2>2, <3>1, Zenon
  <2>3. QED
    BY <2>1, <2>2
<1>9. items = Null \/ items = List(<<>>) => \A f : f # "exists" => Field(Rec(subject), f) = Null
  BY <1>7
<1>10. \A x, k : items = List(<< Rec(x) >>) /\ id \in DOMAIN x /\ x[id] = Num(k) =>
            \A f : f # "exists" =>
               Field(Rec(subject), f) = IF SameValue(Num(k), target) THEN Field(Rec(x), f) ELSE Null
  BY <1>8
<1>11. QED
  BY <1>9, <1>10 DEF subject, id

(* The subject namespaces: a player that is listed under the target's name,*)
(* and nothing of what no observation reports.                             *)
LEMMA SubjectFields ==
    ASSUME NEW V, Genuine(V), NEW target
    PROVE  /\ Field(Rec(SubjectNamespace(V, "great_person", target)), "is_recruitable") = Null
           /\ Field(Rec(SubjectNamespace(V, "congress", target)), "is_in_session") = Null
           /\ ~SameValue(Rival, target) \/ (\A i \in {"peace", "war"} : Read(V, DiplomacyId) # Relations(i)) =>
                 /\ Field(Rec(SubjectNamespace(V, "other_player", target)), "has_met") = Null
                 /\ Field(Rec(SubjectNamespace(V, "other_player", target)), "diplomatic_state") = Null
           /\ \A i \in {"peace", "war"} : SameValue(Rival, target) /\ Read(V, DiplomacyId) = Relations(i) =>
                 /\ Field(Rec(SubjectNamespace(V, "other_player", target)), "has_met") = Bool(TRUE)
                 /\ Field(Rec(SubjectNamespace(V, "other_player", target)), "diplomatic_state") = Str(i)
<1>1. /\ SubjectSources["great_person"] = [from |-> PeopleId, list |-> "recruitable_individuals",
                                           id |-> "individual_id"]
      /\ SubjectSources["congress"] = [from |-> CongressState, list |-> "active_resolutions",
                                       id |-> "resolution_id"]
      /\ SubjectSources["other_player"] = [from |-> DiplomacyId, list |-> "relations", id |-> "player_id"]
      /\ {"great_person", "congress", "other_player"} \subseteq DOMAIN SubjectSources
  BY DEF SubjectSources, PeopleId, DiplomacyId
<1>n. \A f : Field(Null, f) = Null
  BY DEF Field, Null, Is
<1>2. Field(Rec(SubjectNamespace(V, "great_person", target)), "is_recruitable") = Null
  <2> DEFINE items == Field(Read(V, PeopleId), "recruitable_individuals")
             fields == [individual_id |-> Num(200)]
  <2>1. \/ items = Null \/ items = List(<<>>)
        \/ items = List(<< Rec(fields) >>)
    <3>1. \A person : Field(People(person), "recruitable_individuals")
                         = List(IF person = "free" THEN << Person >> ELSE <<>>)
      BY DEF Field, People, Rec, Is
    <3>2. Person = Rec(fields)
      BY DEF Person, Whole
    <3> HIDE DEF fields
    <3>3. QED
      BY <1>n, <3>1, <3>2, ReadGenuine
  <2>2. "individual_id" \in DOMAIN fields /\ fields["individual_id"] = Num(200)
        /\ "is_recruitable" \notin DOMAIN fields
    OBVIOUS
  <2> HIDE DEF fields, items
  <2>3. Field(Rec(fields), "is_recruitable") = Null
    BY <2>2, RecField, Zenon
  <2>4. items = Field(Read(V, SubjectSources["great_person"].from), SubjectSources["great_person"].list)
    BY <1>1 DEF items
  <2>5. SubjectSources["great_person"].id = "individual_id" /\ "is_recruitable" # "exists"
    BY <1>1
  <2>6. QED
    BY <1>1, <2>1, <2>2, <2>3, <2>4, <2>5, SubjectListed
<1>3. Field(Rec(SubjectNamespace(V, "congress", target)), "is_in_session") = Null
  <2>1. Read(V, CongressState) = Null
    BY ReadGenuine DEF ScreenId, TurnId, DiplomacyId, PeopleId, ResearchId, CongressState
  <2>2. Field(Read(V, SubjectSources["congress"].from), SubjectSources["congress"].list) = Null
    BY <1>1, <1>n, <2>1
  <2>3. QED
    BY <1>1, <2>2, SubjectListed
<1> DEFINE items == Field(Read(V, DiplomacyId), "relations")
           fields(i) == [player_id |-> Rival, has_met |-> Bool(TRUE), diplomatic_state |-> Str(i)]
<1>4. items = Field(Read(V, SubjectSources["other_player"].from), SubjectSources["other_player"].list)
  BY <1>1
<1>5. \A i : Field(Relations(i), "relations") = IF i = "gone" THEN List(<<>>) ELSE List(<< Rec(fields(i)) >>)
  BY DEF Field, Relations, Relation, Rec, Is
<1>6. \A i : /\ "player_id" \in DOMAIN fields(i) /\ fields(i)["player_id"] = Rival
             /\ Field(Rec(fields(i)), "has_met") = Bool(TRUE)
             /\ Field(Rec(fields(i)), "diplomatic_state") = Str(i)
  BY DEF Field, Rec, Is
<1> HIDE DEF items, fields
<1>7. SubjectSources["other_player"].id = "player_id" /\ "has_met" # "exists" /\ "diplomatic_state" # "exists"
  BY <1>1
<1>r. Rival = Num(100)
  BY DEF Rival, Whole
<1>8. \A i \in {"peace", "war"} : Read(V, DiplomacyId) = Relations(i) => items = List(<< Rec(fields(i)) >>)
  BY <1>5 DEF items
<1>9. ASSUME NEW i \in {"peace", "war"}, Read(V, DiplomacyId) = Relations(i), NEW f \in {"has_met", "diplomatic_state"}
      PROVE  Field(Rec(SubjectNamespace(V, "other_player", target)), f)
                = IF SameValue(Rival, target) THEN Field(Rec(fields(i)), f) ELSE Null
  BY <1>1, <1>r, <1>4, <1>6, <1>7, <1>8, <1>9, SubjectListed
<1>10. ASSUME \A i \in {"peace", "war"} : Read(V, DiplomacyId) # Relations(i), NEW f \in {"has_met", "diplomatic_state"}
       PROVE  Field(Rec(SubjectNamespace(V, "other_player", target)), f) = Null
  <2>1. Read(V, DiplomacyId) = Null \/ Read(V, DiplomacyId) = Relations("gone")
    BY <1>10, ReadGenuine
  <2>2. items = Null \/ items = List(<<>>)
    BY <1>5, <1>n, <2>1 DEF items
  <2>3. QED
    BY <1>1, <1>4, <1>7, <2>2, SubjectListed
<1>11. QED
  BY <1>2, <1>3, <1>6, <1>9, <1>10

(* What the names and the fields of the shipped predicates evaluate to.    *)
LEMMA OfValues ==
    ASSUME NEW V, Genuine(V), NEW target, NEW snapshot, NEW b, b = Bindings(V, target, snapshot)
    PROVE  /\ \A f \in TurnFields : EvalNode(Of("game", f), b) = Field(Read(V, TurnId), f)
           /\ EvalNode(Of("game", "current_screen"), b) = Field(Read(V, ScreenId), "screen")
           /\ EvalNode(Of("game", "has_blocking_prompt"), b)
                 = Field(Read(V, ScreenId), "has_blocking_prompt")
           /\ \A f \in {"researchable_techs", "current_research"} :
                 EvalNode(Of("player", f), b) = Field(Read(V, ResearchId), f)
           /\ EvalNode(Of("great_person", "is_recruitable"), b) = Null
           /\ EvalNode(Of("congress", "is_in_session"), b) = Null
           /\ \A f : EvalNode(Of("camera", f), b) = Null
           /\ \A f : EvalNode(Of("prompt", f), b) = Field(Rec(PromptNamespace(V)), f)
           /\ \A f : EvalNode(Of("other_player", f), b)
                        = Field(Rec(SubjectNamespace(V, "other_player", target)), f)
           /\ EvalNode(Target, b) = target
           /\ EvalNode(Name("observed_turn_number"), b) =
                 IF "observed_turn_number" \in DOMAIN snapshot
                 THEN snapshot["observed_turn_number"] ELSE Err
<1>1. \A n, f : EvalNode(Of(n, f), b) = ResolveAttribute(ResolveName(n, b), f)
  BY EvalAttr, Zenon DEF Of
<1>2. \A n, fields, f : ResolveName(n, b) = Rec(fields) => EvalNode(Of(n, f), b) = Field(Rec(fields), f)
  BY <1>1, RecField, Zenon
<1>3. \A n : EvalNode(Name(n), b) = ResolveName(n, b)
  BY EvalName, Zenon
<1>4. \A f : Field(Rec(<<>>), f) = Null
  <2>1. DOMAIN <<>> = {}
    OBVIOUS
  <2>2. QED
    BY <2>1, RecField, Zenon
<1>5. /\ ResolveName("game", b) = Rec(GameNamespace(V))
      /\ ResolveName("player", b) = Rec(PlayerNamespace(V))
      /\ ResolveName("prompt", b) = Rec(PromptNamespace(V))
      /\ ResolveName("camera", b) = Rec(<<>>)
      /\ ResolveName("target", b) = target
      /\ ResolveName("other_player", b) = Rec(SubjectNamespace(V, "other_player", target))
      /\ ResolveName("great_person", b) = Rec(SubjectNamespace(V, "great_person", target))
      /\ ResolveName("congress", b) = Rec(SubjectNamespace(V, "congress", target))
      /\ ResolveName("observed_turn_number", b) =
            IF "observed_turn_number" \in DOMAIN snapshot
            THEN snapshot["observed_turn_number"] ELSE Err
  BY NamesBound
<1>6. /\ \A f : EvalNode(Of("game", f), b) = Field(Rec(GameNamespace(V)), f)
      /\ \A f : EvalNode(Of("player", f), b) = Field(Rec(PlayerNamespace(V)), f)
      /\ \A f : EvalNode(Of("prompt", f), b) = Field(Rec(PromptNamespace(V)), f)
      /\ \A f : EvalNode(Of("camera", f), b) = Null
      /\ \A f : EvalNode(Of("other_player", f), b)
                   = Field(Rec(SubjectNamespace(V, "other_player", target)), f)
      /\ \A f : EvalNode(Of("great_person", f), b)
                   = Field(Rec(SubjectNamespace(V, "great_person", target)), f)
      /\ \A f : EvalNode(Of("congress", f), b)
                   = Field(Rec(SubjectNamespace(V, "congress", target)), f)
  BY <1>2, <1>4, <1>5
<1>7. /\ \A f \in TurnFields : EvalNode(Of("game", f), b) = Field(Read(V, TurnId), f)
      /\ EvalNode(Of("game", "current_screen"), b) = Field(Read(V, ScreenId), "screen")
      /\ EvalNode(Of("game", "has_blocking_prompt"), b) = Field(Read(V, ScreenId), "has_blocking_prompt")
  BY <1>6, GameFields
<1>8. \A f \in {"researchable_techs", "current_research"} :
         EvalNode(Of("player", f), b) = Field(Read(V, ResearchId), f)
  BY <1>6, PlayerFields
<1>9. /\ EvalNode(Of("great_person", "is_recruitable"), b) = Null
      /\ EvalNode(Of("congress", "is_in_session"), b) = Null
  <2>1. /\ Field(Rec(SubjectNamespace(V, "great_person", target)), "is_recruitable") = Null
        /\ Field(Rec(SubjectNamespace(V, "congress", target)), "is_in_session") = Null
    BY SubjectFields, Zenon
  <2>2. QED
    BY <1>6, <2>1, Zenon
<1>10. EvalNode(Target, b) = target
  BY <1>3, <1>5, Zenon DEF Target
<1>11. QED
  BY <1>3, <1>5, <1>6, <1>7, <1>8, <1>9, <1>10, Zenon

(* They are small and in the grammar.                                      *)
LEMMA Sized ==
    /\ \A n, f : Deep2(Of(n, f)) /\ AllAllowed(Of(n, f)) /\ Deep3(Of(n, f)) /\ Deep4(Of(n, f))
    /\ \A n : Deep1(Name(n)) /\ AllAllowed(Name(n)) /\ Deep3(Name(n))
    /\ \A v : Deep1(Const(v)) /\ AllAllowed(Const(v)) /\ Deep3(Const(v))
    /\ Target = Name("target")
BY EvalAttr, EvalName, EvalConst, Deeper, Zenon DEF Of, Target

(* A comparison holds when its two sides have values that compare. *)
LEMMA CompareHolds ==
    ASSUME NEW l, Deep3(l), AllAllowed(l), NEW r, Deep3(r), AllAllowed(r), NEW b,
           NEW x, x = EvalNode(l, b), NEW y, y = EvalNode(r, b)
    PROVE  /\ Deep4(Compare(l, "==", r)) /\ AllAllowed(Compare(l, "==", r))
           /\ Holds(Compare(l, "==", r), b) <=> x # Err /\ y # Err /\ SameValue(x, y)
           /\ Deep4(Compare(l, "!=", r)) /\ AllAllowed(Compare(l, "!=", r))
           /\ Holds(Compare(l, "!=", r), b) <=> x # Err /\ y # Err /\ ~SameValue(x, y)
           /\ x # Err /\ y # Err => EvalNode(Compare(l, "==", r), b) = Bool(SameValue(x, y))
<1>1. SameValue(x, y) \in BOOLEAN
  BY DEF SameValue
<1>2. /\ ApplyComparison("==", x, y) = Bool(SameValue(x, y))
      /\ ApplyComparison("!=", x, y) = Bool(~SameValue(x, y))
  BY <1>1 DEF ApplyComparison
<1>3. \A link : /\ Deep4(Compare(l, link, r)) /\ AllAllowed(Compare(l, link, r))
                /\ EvalNode(Compare(l, link, r), b) =
                      IF x = Err \/ y = Err THEN Err ELSE ApplyComparison(link, x, y)
  BY EvalCompare
<1> DEFINE same == SameValue(x, y)
           e == Compare(l, "==", r)
           n == Compare(l, "!=", r)
<1> HIDE DEF same, e, n
<1>4. /\ EvalNode(e, b) = IF x = Err \/ y = Err THEN Err ELSE Bool(same)
      /\ EvalNode(n, b) = IF x = Err \/ y = Err THEN Err ELSE Bool(~same)
  BY <1>2, <1>3, Zenon DEF same, e, n
<1>5. same \in BOOLEAN /\ (~same) \in BOOLEAN
  BY <1>1 DEF same
<1>6. Holds(e, b) <=> x # Err /\ y # Err /\ same
  <2>1. CASE x = Err \/ y = Err
    BY <1>4, <2>1, Zenon DEF Holds
  <2>2. CASE ~(x = Err \/ y = Err)
    BY <1>4, <1>5, <2>2, TruthyBool, Zenon DEF Holds
  <2>3. QED
    BY <2>1, <2>2
<1>7. Holds(n, b) <=> x # Err /\ y # Err /\ ~same
  <2>1. CASE x = Err \/ y = Err
    BY <1>4, <2>1, Zenon DEF Holds
  <2>2. CASE ~(x = Err \/ y = Err)
    <3>1. EvalNode(n, b) = Bool(~same)
      BY <1>4, <2>2, Zenon
    <3>2. Bool(~same) # Err /\ (Truthy(Bool(~same)) <=> ~same)
      BY <1>5, TruthyBool, Zenon
    <3>3. QED
      BY <2>2, <3>1, <3>2, Zenon DEF Holds
  <2>3. QED
    BY <2>1, <2>2
<1>8. QED
  BY <1>3, <1>4, <1>6, <1>7, Zenon DEF same, e, n

(* "and" of two.                                                           *)
LEMMA BothHold ==
    ASSUME NEW l, Deep4(l), AllAllowed(l), NEW r, Deep4(r), AllAllowed(r), NEW b
    PROVE  AllAllowed(And(<<l, r>>)) /\ (Holds(And(<<l, r>>), b) <=> Holds(l, b) /\ Holds(r, b))
<1> DEFINE parts == <<l, r>>
<1>1. DOMAIN parts = 1..2 /\ Len(parts) = 2 /\ parts[1] = l /\ parts[2] = r /\ 2 \in Nat \ {0} /\ 1..2 = {1, 2}
  OBVIOUS
<1> HIDE DEF parts
<1>2. \A i \in 1..2 : Deep4(parts[i]) /\ AllAllowed(parts[i])
  BY <1>1, Zenon
<1>3. AllAllowed(And(parts)) /\ (Holds(And(parts), b) <=> \A i \in 1..2 : Holds(parts[i], b))
  BY <1>1, <1>2, EvalAnd, Zenon
<1>4. QED
  BY <1>1, <1>3, Zenon DEF parts

(* "and" of three.                                                         *)
LEMMA ThreeHold ==
    ASSUME NEW l, Deep4(l), AllAllowed(l), NEW m, Deep4(m), AllAllowed(m),
           NEW r, Deep4(r), AllAllowed(r), NEW b
    PROVE  /\ AllAllowed(And(<<l, m, r>>))
           /\ Holds(And(<<l, m, r>>), b) <=> Holds(l, b) /\ Holds(m, b) /\ Holds(r, b)
<1> DEFINE parts == <<l, m, r>>
<1>1. /\ DOMAIN parts = 1..3 /\ Len(parts) = 3 /\ parts[1] = l /\ parts[2] = m /\ parts[3] = r
      /\ 3 \in Nat \ {0} /\ 1..3 = {1, 2, 3}
  OBVIOUS
<1> HIDE DEF parts
<1>2. \A i \in 1..3 : Deep4(parts[i]) /\ AllAllowed(parts[i])
  BY <1>1, Zenon
<1>3. AllAllowed(And(parts)) /\ (Holds(And(parts), b) <=> \A i \in 1..3 : Holds(parts[i], b))
  BY <1>1, <1>2, EvalAnd, Zenon
<1>4. QED
  BY <1>1, <1>3, Zenon DEF parts

----------------------------------------------------------------------------
(* Availability: each shipped action, told without its predicate.          *)

NumTarget(target) ==
    /\ Is(target, {"num"}) => target[2] \in Int /\ target = Num(target[2])
    /\ Is(target, {"bool"}) => target \in {Bool(TRUE), Bool(FALSE)}

(* A target that equals the rival's id means it, and is it or a boolean.   *)
LEMMA RivalMeant ==
    ASSUME NEW target, NumTarget(target), SameValue(Rival, target)
    PROVE  /\ Meant(target) = Rival
           /\ ~Is(target, {"bool"}) => target = Rival
<1>1. Rival = Num(100) /\ Is(Rival, {"bool", "num"}) /\ Number(Rival) = 100
  BY DEF Rival, Whole, Num, Is, Number
<1>2. Is(target, {"bool", "num"}) /\ Number(target) = 100
  BY <1>1 DEF SameValue, Is
<1>3. CASE Is(target, {"bool"})
  <2>1. target = Bool(TRUE) \/ target = Bool(FALSE)
    BY <1>3 DEF NumTarget
  <2>2. Number(Bool(FALSE)) # 100 /\ Bool(TRUE) # Bool(FALSE)
    BY DEF Number, Bool, Is
  <2>3. target = Bool(TRUE)
    BY <1>2, <2>1, <2>2, Zenon
  <2>4. QED
    BY <1>3, <2>2, <2>3, Zenon DEF Meant, Rival
<1>4. CASE ~Is(target, {"bool"})
  <2>1. Is(target, {"num"}) /\ target[2] = 100
    BY <1>2, <1>4 DEF Number, Is
  <2>2. target = Rival
    BY <1>1, <2>1 DEF NumTarget
  <2>3. Rival # Bool(TRUE) /\ Rival # Bool(FALSE)
    BY <1>1 DEF Num, Bool
  <2>4. QED
    BY <2>2, <2>3 DEF Meant
<1>5. QED
  BY <1>3, <1>4

(* The plain values, and whether they are true.                            *)
LEMMA TruthyValues ==
    /\ ~Truthy(Null) /\ Null # Err
    /\ \A x \in BOOLEAN : Bool(x) # Err /\ (Truthy(Bool(x)) <=> x)
    /\ \A n : Num(n) # Err /\ Whole(n) # Err /\ \A k : Str(k) # Err /\ \A d : Id(d) # Err
    /\ \A f : Field(Null, f) = Null
BY DEF Truthy, Null, Err, Is, Bool, Number, Num, Whole, Str, Id, Field

(* Nothing but itself equals a name.                                       *)
LEMMA SameAtoms ==
    ASSUME NEW x
    PROVE  /\ \A k : SameValue(x, Str(k)) <=> x = Str(k)
           /\ \A k : SameValue(Str(k), x) <=> x = Str(k)
           /\ \A d : SameValue(x, Id(d)) <=> x = Id(d)
BY DEF SameValue, Is, Str, Id

(* The fields of a turn state.                                             *)
LEMMA TurnValues ==
    ASSUME NEW n, NEW mine
    PROVE  /\ Field(TurnState(n, mine), "turn_number") = Whole(n)
           /\ Field(TurnState(n, mine), "is_local_player_turn") = Bool(mine)
           /\ Field(TurnState(n, mine), "is_waiting_for_other_players") = Bool(~mine)
           /\ TurnState(n, mine) # Null
BY DEF Field, TurnState, Rec, Is, Null

(* The fields of a screen state.                                           *)
LEMMA ScreenValues ==
    ASSUME NEW s
    PROVE  /\ Field(ScreenState(s, IsPrompt(s)), "screen") = Id(s)
           /\ Field(ScreenState(s, IsPrompt(s)), "has_blocking_prompt") = Bool(IsPrompt(s))
           /\ Field(ScreenState(s, IsPrompt(s)), "prompt_options")
                 = IF IsPrompt(s) THEN Options ELSE List(<<>>)
           /\ IsPrompt(s) \in BOOLEAN
BY DEF Field, ScreenState, Rec, Is, IsPrompt

(* The fields of the relations.                                            *)
LEMMA RelationValues ==
    /\ \A rival : Field(Relations(rival), "relations")
                     = List(IF rival = "gone" THEN <<>> ELSE << Relation(Rival, rival) >>)
    /\ \A rival : Field(Relation(Rival, rival), "player_id") = Rival
    /\ \A rival : Field(Relation(Rival, rival), "diplomatic_state") = Str(rival)
BY DEF Field, Relations, Relation, Rec, Is

(* The relations to the one rival, and when they are war.                  *)
LEMMA RelationsListed ==
    ASSUME NEW V, NEW rival, Read(V, DiplomacyId) = Relations(rival)
    PROVE  /\ rival = "gone" => \A target : RelationTo(V, target) = {}
           /\ rival # "gone" => \A target : Meant(target) = Rival => RelationTo(V, target) = {Relation(Rival, rival)}
           /\ AtWar(Relation(Rival, rival)) <=> rival = "war"
<1> DEFINE items == Field(Read(V, DiplomacyId), "relations")
<1>1. \A target : RelationTo(V, target) =
         {items[2][i] : i \in {j \in DOMAIN items[2] : Field(items[2][j], "player_id") = Meant(target)}}
  BY DEF RelationTo, DiplomacyId
<1>2. items[2] = IF rival = "gone" THEN <<>> ELSE << Relation(Rival, rival) >>
  BY RelationValues DEF List
<1> HIDE DEF items
<1>3. rival = "gone" => \A target : RelationTo(V, target) = {}
  BY <1>1, <1>2
<1>4. rival # "gone" => \A target : Meant(target) = Rival => RelationTo(V, target) = {Relation(Rival, rival)}
  BY <1>1, <1>2, RelationValues
<1>5. AtWar(Relation(Rival, rival)) <=> rival = "war"
  BY RelationValues DEF AtWar, Str
<1>6. QED
  BY <1>3, <1>4, <1>5

(* turn.end_turn is available on the player's own turn, no prompt being up.*)
LEMMA EndTurnAvailable ==
    ASSUME NEW V, Genuine(V), NEW target, NEW b, b = Bindings(V, target, <<>>),
           Holds(EndTurnEntry.availability[1], b)
    PROVE  /\ Turn(V, "is_local_player_turn") = True
           /\ Is(Screen(V), {"id"}) => ~IsPrompt(Screen(V)[2])
<1> DEFINE mine == Of("game", "is_local_player_turn")
           blocked == Of("game", "has_blocking_prompt")
<1>1. EndTurnEntry.availability[1] = And(<<mine, Not(blocked)>>)
  BY DEF EndTurnEntry, Action
<1>2. /\ Deep4(mine) /\ AllAllowed(mine)
      /\ Deep3(blocked) /\ AllAllowed(blocked)
  BY Sized, Zenon
<1>3. /\ EvalNode(mine, b) = Turn(V, "is_local_player_turn")
      /\ EvalNode(blocked, b) = Field(Read(V, ScreenId), "has_blocking_prompt")
  BY OfValues DEF Turn, TurnId, TurnFields
<1> HIDE DEF mine, blocked
<1>4. Deep4(Not(blocked)) /\ AllAllowed(Not(blocked))
      /\ (Holds(Not(blocked), b) <=> EvalNode(blocked, b) # Err /\ ~Truthy(EvalNode(blocked, b)))
  BY <1>2, EvalNot, Zenon
<1>5. Holds(mine, b) /\ Holds(Not(blocked), b)
  BY <1>1, <1>2, <1>4, BothHold, Zenon
<1>6. Turn(V, "is_local_player_turn") = True
  <2>1. Truthy(Field(Read(V, TurnId), "is_local_player_turn"))
    BY <1>3, <1>5 DEF Holds, Turn, TurnId
  <2>2. Read(V, TurnId) # Null
    BY <2>1, TruthyValues
  <2>3. PICK n \in Int, m \in BOOLEAN : Read(V, TurnId) = TurnState(n, m)
    BY <2>2, ReadGenuine
  <2>4. Field(Read(V, TurnId), "is_local_player_turn") = Bool(m)
    BY <2>3, TurnValues
  <2>5. m = TRUE
    BY <2>1, <2>4, TruthyValues
  <2>6. QED
    BY <2>4, <2>5 DEF Turn, TurnId, True
<1>7. Is(Screen(V), {"id"}) => ~IsPrompt(Screen(V)[2])
  <2>1. ~Truthy(Field(Read(V, ScreenId), "has_blocking_prompt"))
    BY <1>3, <1>4, <1>5
  <2>2. CASE Read(V, ScreenId) = Null
    BY <2>2, TruthyValues DEF Screen, ScreenId, Is, Null
  <2>3. ASSUME NEW s \in Screens, Read(V, ScreenId) = ScreenState(s, IsPrompt(s)) PROVE ~IsPrompt(Screen(V)[2])
    <3>1. Field(Read(V, ScreenId), "has_blocking_prompt") = Bool(IsPrompt(s))
      BY <2>3, ScreenValues
    <3>2. ~IsPrompt(s)
      BY <2>1, <3>1, ScreenValues, TruthyValues
    <3>3. Screen(V) = Id(s)
      BY <2>3, ScreenValues DEF Screen, ScreenId
    <3>4. QED
      BY <3>2, <3>3 DEF Id
  <2>4. QED
    BY <2>2, <2>3, ReadGenuine
<1>8. QED
  BY <1>6, <1>7

(* The comparisons of the two war predicates.                              *)
LEMMA StateCompared ==
    ASSUME NEW V, Genuine(V), NEW target, NEW snapshot, NEW b, b = Bindings(V, target, snapshot),
           NEW x, x = EvalNode(Of("other_player", "diplomatic_state"), b)
    PROVE  /\ x = Field(Rec(SubjectNamespace(V, "other_player", target)), "diplomatic_state")
           /\ Deep4(Compare(Of("other_player", "diplomatic_state"), "==", Word("war")))
           /\ AllAllowed(Compare(Of("other_player", "diplomatic_state"), "==", Word("war")))
           /\ Holds(Compare(Of("other_player", "diplomatic_state"), "==", Word("war")), b) <=> x = Str("war")
           /\ Deep4(Compare(Of("other_player", "diplomatic_state"), "!=", Word("war")))
           /\ AllAllowed(Compare(Of("other_player", "diplomatic_state"), "!=", Word("war")))
           /\ x # Err => (Holds(Compare(Of("other_player", "diplomatic_state"), "!=", Word("war")), b)
                             <=> x # Str("war"))
<1> DEFINE state == Of("other_player", "diplomatic_state")
           war == Word("war")
<1>1. /\ Deep3(state) /\ AllAllowed(state) /\ Deep3(war) /\ AllAllowed(war)
  BY Sized, Zenon DEF Word
<1>2. EvalNode(war, b) = Str("war")
  BY EvalConst, Zenon DEF Word
<1>3. x = Field(Rec(SubjectNamespace(V, "other_player", target)), "diplomatic_state")
  BY OfValues
<1>4. x = EvalNode(state, b)
  OBVIOUS
<1> HIDE DEF state, war
<1>5. /\ Deep4(Compare(state, "==", war)) /\ AllAllowed(Compare(state, "==", war))
      /\ Holds(Compare(state, "==", war), b) <=> x # Err /\ Str("war") # Err /\ SameValue(x, Str("war"))
      /\ Deep4(Compare(state, "!=", war)) /\ AllAllowed(Compare(state, "!=", war))
      /\ Holds(Compare(state, "!=", war), b) <=> x # Err /\ Str("war") # Err /\ ~SameValue(x, Str("war"))
  BY <1>1, <1>2, <1>4, CompareHolds
<1>6. Str("war") # Err
  BY DEF Str, Err
<1>7. SameValue(x, Str("war")) <=> x = Str("war")
  BY SameAtoms, Zenon
<1>8. /\ Holds(Compare(state, "==", war), b) <=> x = Str("war")
      /\ x # Err => (Holds(Compare(state, "!=", war), b) <=> x # Str("war"))
  BY <1>5, <1>6, <1>7
<1>9. QED
  BY <1>3, <1>5, <1>8 DEF state, war

(* A player is met only if the board lists it. *)
LEMMA MetPlayer ==
    ASSUME NEW V, Genuine(V), NEW target, NEW b, b = Bindings(V, target, <<>>),
           Holds(Of("other_player", "has_met"), b)
    PROVE  /\ SameValue(Rival, target)
           /\ \E i \in {"peace", "war"} :
                 /\ Read(V, DiplomacyId) = Relations(i)
                 /\ EvalNode(Of("other_player", "diplomatic_state"), b) = Str(i)
<1> DEFINE subject(f) == Field(Rec(SubjectNamespace(V, "other_player", target)), f)
<1>1. \A f : EvalNode(Of("other_player", f), b) = subject(f)
  BY OfValues
<1>2. Truthy(subject("has_met"))
  BY <1>1, Zenon DEF Holds
<1>3. ~(~SameValue(Rival, target) \/ (\A i \in {"peace", "war"} : Read(V, DiplomacyId) # Relations(i)))
  <2>1. ~SameValue(Rival, target) \/ (\A i \in {"peace", "war"} : Read(V, DiplomacyId) # Relations(i))
           => subject("has_met") = Null
    BY SubjectFields, Zenon
  <2>2. QED
    BY <1>2, <2>1, TruthyValues, Zenon
<1>4. PICK i \in {"peace", "war"} : Read(V, DiplomacyId) = Relations(i)
  BY <1>3, Zenon
<1>5. subject("diplomatic_state") = Str(i)
  BY <1>3, <1>4, SubjectFields, Zenon
<1>6. QED
  BY <1>1, <1>3, <1>4, <1>5, Zenon

(* diplomacy.declare_war is available on a player that is listed and not at*)
(* war.                                                                    *)
LEMMA DeclareWarAvailable ==
    ASSUME NEW V, Genuine(V), NEW target, NumTarget(target), NEW b, b = Bindings(V, target, <<>>),
           Holds(DeclareWarEntry.availability[1], b)
    PROVE  /\ SameValue(Rival, target) /\ Read(V, DiplomacyId) # Null
           /\ \E r \in RelationTo(V, target) : ~AtWar(r)
<1> DEFINE met == Of("other_player", "has_met")
           other == Compare(Of("other_player", "diplomatic_state"), "!=", Word("war"))
<1>1. DeclareWarEntry.availability[1] = And(<<met, other>>)
  BY DEF DeclareWarEntry, Action
<1>2. Deep4(met) /\ AllAllowed(met) /\ Deep4(other) /\ AllAllowed(other)
  BY Sized, StateCompared, Zenon
<1>3. Holds(met, b) /\ Holds(other, b)
  <2> HIDE DEF met, other
  <2>1. Holds(And(<<met, other>>), b)
    BY <1>1
  <2>2. Holds(And(<<met, other>>), b) <=> Holds(met, b) /\ Holds(other, b)
    BY <1>2, BothHold
  <2>3. QED
    BY <2>1, <2>2
<1>4. PICK i \in {"peace", "war"} : /\ Read(V, DiplomacyId) = Relations(i)
                                    /\ EvalNode(Of("other_player", "diplomatic_state"), b) = Str(i)
  BY <1>3, MetPlayer, Zenon
<1>5. SameValue(Rival, target) /\ Meant(target) = Rival
  BY <1>3, MetPlayer, RivalMeant
<1>6. Str(i) # Str("war")
  <2>1. Str(i) # Err
    BY DEF Str, Err
  <2>2. QED
    BY <1>3, <1>4, <2>1, StateCompared, Zenon
<1>7. i = "peace"
  BY <1>6
<1>8. Read(V, DiplomacyId) # Null
  BY <1>4 DEF Relations, Rec, Null
<1>9. QED
  BY <1>4, <1>5, <1>7, <1>8, RelationsListed

(* diplomacy.make_peace is available on a player that is listed and at war.*)
LEMMA MakePeaceAvailable ==
    ASSUME NEW V, Genuine(V), NEW target, NumTarget(target), NEW b, b = Bindings(V, target, <<>>),
           Holds(MakePeaceEntry.availability[1], b)
    PROVE  /\ SameValue(Rival, target) /\ Read(V, DiplomacyId) # Null
           /\ \E r \in RelationTo(V, target) : AtWar(r)
<1> DEFINE met == Of("other_player", "has_met")
           same == Compare(Of("other_player", "diplomatic_state"), "==", Word("war"))
<1>1. MakePeaceEntry.availability[1] = And(<<met, same>>)
  BY DEF MakePeaceEntry, Action
<1>2. Deep4(met) /\ AllAllowed(met) /\ Deep4(same) /\ AllAllowed(same)
  BY Sized, StateCompared, Zenon
<1>3. Holds(met, b) /\ Holds(same, b)
  <2> HIDE DEF met, same
  <2>1. Holds(And(<<met, same>>), b)
    BY <1>1
  <2>2. Holds(And(<<met, same>>), b) <=> Holds(met, b) /\ Holds(same, b)
    BY <1>2, BothHold
  <2>3. QED
    BY <2>1, <2>2
<1>4. PICK i \in {"peace", "war"} : /\ Read(V, DiplomacyId) = Relations(i)
                                    /\ EvalNode(Of("other_player", "diplomatic_state"), b) = Str(i)
  BY <1>3, MetPlayer, Zenon
<1>5. SameValue(Rival, target) /\ Meant(target) = Rival
  BY <1>3, MetPlayer, RivalMeant
<1>6. Str(i) = Str("war")
  BY <1>3, <1>4, StateCompared, Zenon
<1>7. i = "war"
  BY <1>6 DEF Str
<1>8. Read(V, DiplomacyId) # Null
  BY <1>4 DEF Relations, Rec, Null
<1>9. QED
  BY <1>4, <1>5, <1>7, <1>8, RelationsListed

(* great_people.recruit never is: is_recruitable is a field nothing        *)
(* reports.                                                                *)
LEMMA RecruitUnavailable ==
    ASSUME NEW V, Genuine(V), NEW target, NEW b, b = Bindings(V, target, <<>>)
    PROVE  ~Holds(RecruitEntry.availability[1], b)
<1>1. RecruitEntry.availability[1] = Of("great_person", "is_recruitable")
  BY DEF RecruitEntry, Action
<1>2. QED
  BY <1>1, OfValues, TruthyValues DEF Holds

(* congress.cast_vote never is: no observation fills its namespace.        *)
LEMMA CastVoteUnavailable ==
    ASSUME NEW V, Genuine(V), NEW target, NEW b, b = Bindings(V, target, <<>>)
    PROVE  ~Holds(CastVoteEntry.availability[1], b)
<1> DEFINE session == Of("congress", "is_in_session")
           exists == Of("congress", "exists")
           rich == Compare(Favor, ">", Const(Whole(0)))
<1>1. CastVoteEntry.availability[1] = And(<<session, exists, rich>>)
  BY DEF CastVoteEntry, Action
<1>2. /\ Deep4(session) /\ AllAllowed(session) /\ Deep4(exists) /\ AllAllowed(exists)
  BY Sized, Zenon
<1>3. Deep4(rich) /\ AllAllowed(rich)
  BY Sized, EvalCompare DEF Favor
<1>4. ~Holds(session, b)
  BY OfValues, TruthyValues DEF Holds
<1> HIDE DEF session, exists, rich
<1>5. QED
  BY <1>1, <1>2, <1>3, <1>4, ThreeHold, Zenon

(* Membership in a list.                                                   *)
LEMMA InList ==
    ASSUME NEW x, NEW items, Is(items, {"list"})
    PROVE  ContainedIn(x, items) = Bool(\E i \in DOMAIN items[2] : SameValue(x, items[2][i]))
BY DEF ContainedIn, Is

(* "target in ..." holds when the target equals an item.                   *)
LEMMA InHolds ==
    ASSUME NEW e, Deep3(e), AllAllowed(e), NEW b, NEW x, x = EvalNode(Target, b), x = EvalNode(Name("target"), b)
    PROVE  /\ Deep4(Compare(Target, "in", e)) /\ AllAllowed(Compare(Target, "in", e))
           /\ Holds(Compare(Target, "in", e), b) => EvalNode(e, b) # Null /\ x # Err
           /\ Holds(Compare(Target, "in", e), b) /\ Is(EvalNode(e, b), {"list"}) =>
                 \E i \in DOMAIN EvalNode(e, b)[2] : SameValue(x, EvalNode(e, b)[2][i])
<1> DEFINE n == Compare(Target, "in", e)
           items == EvalNode(e, b)
<1>1. /\ Deep4(n) /\ AllAllowed(n)
      /\ EvalNode(n, b) = IF x = Err \/ items = Err THEN Err ELSE ApplyComparison("in", x, items)
  BY Sized, EvalCompare
<1>2. ApplyComparison("in", x, items) = ContainedIn(x, items)
  BY DEF ApplyComparison
<1> HIDE DEF n, items
<1>3. ContainedIn(x, Null) = Bool(FALSE)
  BY DEF ContainedIn, Is, Null
<1>4. Holds(n, b) => x # Err /\ items # Null
  <2>1. Holds(n, b) => x # Err /\ Truthy(ContainedIn(x, items))
    BY <1>1, <1>2, Zenon DEF Holds
  <2>2. ~Truthy(Bool(FALSE))
    BY TruthyValues
  <2>3. QED
    BY <1>3, <2>1, <2>2, Zenon
<1>5. ASSUME Holds(n, b), Is(items, {"list"})
      PROVE  \E i \in DOMAIN items[2] : SameValue(x, items[2][i])
  <2> DEFINE found == \E i \in DOMAIN items[2] : SameValue(x, items[2][i])
  <2>1. Truthy(Bool(found))
    BY <1>1, <1>2, <1>5, InList, Zenon DEF Holds
  <2>2. found \in BOOLEAN
    OBVIOUS
  <2> HIDE DEF found
  <2>3. found
    BY <2>1, <2>2, TruthyBool, Zenon
  <2>4. QED
    BY <2>3 DEF found
<1>6. QED
  BY <1>1, <1>4, <1>5 DEF n, items

(* research.set_tech is available for the tech that is listed.             *)
LEMMA SetTechAvailable ==
    ASSUME NEW V, Genuine(V), NEW target, NEW b, b = Bindings(V, target, <<>>),
           Holds(SetTechEntry.availability[1], b)
    PROVE  target = Str("pottery") /\ Read(V, ResearchId) # Null
<1> DEFINE techs == Of("player", "researchable_techs")
<1>1. SetTechEntry.availability[1] = Compare(Target, "in", techs)
  BY DEF SetTechEntry, Action
<1>2. Deep3(techs) /\ AllAllowed(techs)
  BY Sized, Zenon
<1>3. EvalNode(techs, b) = Field(Read(V, ResearchId), "researchable_techs") /\ EvalNode(Target, b) = target
  BY OfValues
<1>4. Target = Name("target")
  BY DEF Target
<1> HIDE DEF techs
<1>5. EvalNode(techs, b) # Null
  BY <1>1, <1>2, <1>4, InHolds, Zenon
<1>6. Read(V, ResearchId) # Null
  BY <1>3, <1>5, TruthyValues
<1>7. PICK tech \in {"none", "pottery"} : Read(V, ResearchId) = Research(tech)
  BY <1>6, ReadGenuine
<1>8. EvalNode(techs, b) = List(<< Str("pottery") >>)
  BY <1>3, <1>7 DEF Field, Research, Rec, Is
<1>9. Is(EvalNode(techs, b), {"list"}) /\ EvalNode(techs, b)[2] = << Str("pottery") >>
  BY <1>8 DEF List, Is
<1>10. \E i \in DOMAIN EvalNode(techs, b)[2] : SameValue(target, EvalNode(techs, b)[2][i])
  BY <1>1, <1>2, <1>3, <1>4, <1>9, InHolds, Zenon
<1>11. SameValue(target, Str("pottery"))
  BY <1>9, <1>10
<1>12. QED
  BY <1>6, <1>11, SameAtoms

(* The comparisons with the screen of the war prompt.                      *)
LEMMA ScreenCompared ==
    ASSUME NEW V, Genuine(V), NEW target, NEW snapshot, NEW b, b = Bindings(V, target, snapshot)
    PROVE  LET asked == Compare(Of("game", "current_screen"), "==", WarPrompt)
               gone == Compare(Of("game", "current_screen"), "!=", WarPrompt)
           IN  /\ Deep4(asked) /\ AllAllowed(asked)
               /\ Holds(asked, b) => Screen(V) = Id(<<"prompt", "declare_war_response">>)
               /\ AllAllowed(gone)
               /\ Holds(gone, b) <=> Screen(V) # Id(<<"prompt", "declare_war_response">>)
<1> DEFINE current == Of("game", "current_screen")
           x == Screen(V)
           war == Id(<<"prompt", "declare_war_response">>)
<1>1. /\ Deep3(current) /\ AllAllowed(current) /\ Deep3(WarPrompt) /\ AllAllowed(WarPrompt)
  BY Sized, Zenon DEF WarPrompt
<1>2. EvalNode(WarPrompt, b) = war
  BY EvalConst, Zenon DEF WarPrompt
<1>3. x = EvalNode(current, b)
  BY OfValues DEF Screen, ScreenId
<1>4. x # Err
  <2>1. x = Null \/ \E s : x = Id(s)
    BY ReadGenuine, ScreenValues, TruthyValues DEF Screen, ScreenId
  <2>2. QED
    BY <2>1, TruthyValues
<1>5. war # Err
  BY TruthyValues
<1>6. SameValue(x, war) <=> x = war
  BY SameAtoms, Zenon
<1> HIDE DEF current, x, war
<1>7. /\ Deep4(Compare(current, "==", WarPrompt)) /\ AllAllowed(Compare(current, "==", WarPrompt))
      /\ AllAllowed(Compare(current, "!=", WarPrompt))
      /\ Holds(Compare(current, "==", WarPrompt), b) <=> x # Err /\ war # Err /\ SameValue(x, war)
      /\ Holds(Compare(current, "!=", WarPrompt), b) <=> x # Err /\ war # Err /\ ~SameValue(x, war)
  BY <1>1, <1>2, <1>3, CompareHolds
<1>8. QED
  BY <1>4, <1>5, <1>6, <1>7 DEF current, x, war

(* prompts.declare_war_response is available on its own screen, for one of *)
(* the options.                                                            *)
LEMMA AnswerWarAvailable ==
    ASSUME NEW V, Genuine(V), NEW target, NEW b, b = Bindings(V, target, <<>>),
           Holds(AnswerWarEntry.availability[1], b)
    PROVE  /\ Screen(V) = Id(<<"prompt", "declare_war_response">>)
           /\ target \in {Str("accept"), Str("refuse")}
<1> DEFINE blocked == Of("game", "has_blocking_prompt")
           asked == Compare(Of("game", "current_screen"), "==", WarPrompt)
           options == Of("prompt", "options")
           answers == Compare(Target, "in", options)
           war == <<"prompt", "declare_war_response">>
<1>1. AnswerWarEntry.availability[1] = And(<<blocked, asked, answers>>)
  BY DEF AnswerWarEntry, Action
<1>2. Deep4(blocked) /\ AllAllowed(blocked) /\ Deep3(options) /\ AllAllowed(options)
  BY Sized, Zenon
<1>3. EvalNode(Target, b) = target /\ Target = Name("target")
      /\ EvalNode(options, b) = Field(Rec(PromptNamespace(V)), "options")
  BY OfValues DEF Target
<1>4. Deep4(asked) /\ AllAllowed(asked) /\ (Holds(asked, b) => Screen(V) = Id(war))
  BY ScreenCompared
<1> HIDE DEF blocked, asked, options
<1>5. /\ Deep4(answers) /\ AllAllowed(answers)
      /\ Holds(answers, b) /\ Is(EvalNode(options, b), {"list"}) =>
            \E i \in DOMAIN EvalNode(options, b)[2] : SameValue(target, EvalNode(options, b)[2][i])
  BY <1>2, <1>3, InHolds
<1> HIDE DEF answers
<1>6. Holds(asked, b) /\ Holds(answers, b)
  <2>1. Holds(And(<<blocked, asked, answers>>), b)
    BY <1>1
  <2>2. Holds(And(<<blocked, asked, answers>>), b)
           <=> Holds(blocked, b) /\ Holds(asked, b) /\ Holds(answers, b)
    BY <1>2, <1>4, <1>5, ThreeHold
  <2>3. QED
    BY <2>1, <2>2
<1>7. Screen(V) = Id(war)
  BY <1>4, <1>6
<1>8. PICK s \in Screens : Read(V, ScreenId) = ScreenState(s, IsPrompt(s))
  <2>1. Id(war) # Null
    BY DEF Id, Null
  <2>2. Read(V, ScreenId) # Null
    BY <1>7, <2>1, TruthyValues DEF Screen, ScreenId
  <2>3. QED
    BY <2>2, ReadGenuine
<1>9. s = war
  BY <1>7, <1>8, ScreenValues DEF Screen, ScreenId, Id
<1>10. Field(Read(V, ScreenId), "prompt_options") = Options
  BY <1>8, <1>9, ScreenValues DEF IsPrompt
<1>11. Options[2] = << Str("accept"), Str("refuse") >> /\ Is(Options, {"list"}) /\ Truthy(Options)
  BY DEF Options, List, Is, Truthy
<1>12. EvalNode(options, b) = Options
  BY <1>3, <1>10, <1>11 DEF PromptNamespace, Field, Rec, Is, ScreenId
<1>13. \E i \in DOMAIN Options[2] : SameValue(target, Options[2][i])
  BY <1>5, <1>6, <1>11, <1>12
<1>14. SameValue(target, Str("accept")) \/ SameValue(target, Str("refuse"))
  BY <1>11, <1>13
<1>15. target \in {Str("accept"), Str("refuse")}
  BY <1>14, SameAtoms, Zenon
<1>16. QED
  BY <1>7, <1>15

(* camera.zoom is available for a number within its bounds.                *)
LEMMA ZoomAvailable ==
    ASSUME NEW target, NumTarget(target), NEW b, b = [target |-> target],
           Holds(ZoomEntry.availability[1], b)
    PROVE  Is(Meant(target), {"num"}) /\ Meant(target)[2] \in 5..100
<1> DEFINE low == Compare(Target, ">=", Const(Num(5)))
           high == Compare(Target, "<=", Const(Num(100)))
<1>1. ZoomEntry.availability[1] = And(<<low, high>>)
  BY DEF ZoomEntry, Action
<1>2. EvalNode(Target, b) = target
  <2>1. ResolveName("target", b) = target
    BY DEF ResolveName, Literals
  <2>2. QED
    BY <2>1, EvalName DEF Target
<1>3. \A v : Deep3(Const(v)) /\ AllAllowed(Const(v)) /\ EvalNode(Const(v), b) = v
  BY Sized, EvalConst, Zenon
<1>4. /\ Deep3(Target) /\ AllAllowed(Target)
  BY Sized, Zenon
<1>5. \A n : Num(n) # Err
  BY TruthyValues
<1>6. ASSUME NEW link, NEW n
      PROVE  /\ Deep4(Compare(Target, link, Const(Num(n)))) /\ AllAllowed(Compare(Target, link, Const(Num(n))))
             /\ Holds(Compare(Target, link, Const(Num(n))), b) =>
                   /\ ApplyComparison(link, target, Num(n)) # Err
                   /\ Truthy(ApplyComparison(link, target, Num(n)))
  <2>1. /\ Deep4(Compare(Target, link, Const(Num(n)))) /\ AllAllowed(Compare(Target, link, Const(Num(n))))
        /\ EvalNode(Compare(Target, link, Const(Num(n))), b) =
              IF target = Err \/ Num(n) = Err THEN Err ELSE ApplyComparison(link, target, Num(n))
    BY <1>2, <1>3, <1>4, EvalCompare
  <2>2. QED
    BY <2>1, Zenon DEF Holds
<1>7. Holds(low, b) /\ Holds(high, b)
  <2>1. Deep4(low) /\ AllAllowed(low) /\ Deep4(high) /\ AllAllowed(high)
    BY <1>6
  <2> HIDE DEF low, high
  <2>2. Holds(And(<<low, high>>), b)
    BY <1>1
  <2>3. Holds(And(<<low, high>>), b) <=> Holds(low, b) /\ Holds(high, b)
    BY <2>1, BothHold
  <2>4. QED
    BY <2>2, <2>3
<1>8. ASSUME NEW link \in {">=", "<="}, NEW n \in Int,
             ApplyComparison(link, target, Num(n)) # Err, Truthy(ApplyComparison(link, target, Num(n)))
      PROVE  Is(target, {"bool", "num"}) /\ Ordered(link, target, Num(n))
  <2>1. ApplyComparison(link, target, Num(n)) =
           IF Is(target, {"bool", "num"}) /\ Is(Num(n), {"bool", "num"})
           THEN Bool(Ordered(link, target, Num(n))) ELSE Err
    BY DEF ApplyComparison
  <2>2. Is(target, {"bool", "num"}) /\ Truthy(Bool(Ordered(link, target, Num(n))))
    BY <1>8, <2>1, Zenon
  <2>3. Ordered(link, target, Num(n)) \in BOOLEAN
    <3>1. Number(target) \in Int /\ Number(Num(n)) \in Int
      BY <2>2 DEF Number, NumTarget, Is, Num, Bool
    <3>2. CASE link = ">="
      BY <3>1, <3>2 DEF Ordered
    <3>3. CASE link = "<="
      BY <3>1, <3>3 DEF Ordered
    <3>4. QED
      BY <3>2, <3>3
  <2>4. QED
    BY <2>2, <2>3, TruthyBool, Zenon
<1>9. /\ Is(target, {"bool", "num"})
      /\ Ordered(">=", target, Num(5)) /\ Ordered("<=", target, Num(100))
  BY <1>6, <1>7, <1>8
<1>10. Number(target) >= 5 /\ Number(target) <= 100
  BY <1>9 DEF Ordered, Number, Is, Num
<1>11. CASE Is(target, {"bool"})
  <2>1. target = Bool(TRUE) \/ target = Bool(FALSE)
    BY <1>11 DEF NumTarget
  <2>2. ~(Number(Bool(FALSE)) >= 5) /\ Bool(TRUE) # Bool(FALSE)
    BY DEF Number, Bool, Is
  <2>3. target = Bool(TRUE)
    BY <1>10, <2>1, <2>2, Zenon
  <2>4. Meant(target) = Whole(1)
    BY <2>2, <2>3, Zenon DEF Meant
  <2>5. QED
    BY <2>4 DEF Num, Whole, Is
<1>12. CASE ~Is(target, {"bool"})
  <2>0. Is(target, {"num"}) /\ Number(target) = target[2]
    <3>1. Is(target, {"bool", "num"})
      BY <1>9
    <3> QED  BY <1>12, <3>1 DEF Number, Is
  <2>1. Is(target, {"num"}) /\ Number(target) = target[2] /\ target[2] \in Int
    BY <2>0 DEF NumTarget
  <2>2. Meant(target) = target
    <3>0. Is(Bool(TRUE), {"bool"}) /\ Is(Bool(FALSE), {"bool"})
      BY DEF Is, Bool
    <3>1. target # Bool(TRUE) /\ target # Bool(FALSE)
      BY <1>12, <3>0, Zenon
    <3> QED  BY <3>1, Zenon DEF Meant
  <2>3. QED
    BY <1>10, <2>1, <2>2
<1>13. QED
  BY <1>11, <1>12

----------------------------------------------------------------------------
(* Verification: each shipped action, told without its predicate.          *)

(* Two boards with the same entries report the same ids.                   *)
LEMMA ReadsAlike ==
    ASSUME NEW V, Genuine(V), NEW W, Genuine(W), DOMAIN V = DOMAIN W
    PROVE  \A id : Read(V, id) = Null <=> Read(W, id) = Null
<1>1. /\ \A s : ScreenState(s, IsPrompt(s)) # Null
      /\ \A n, mine : TurnState(n, mine) # Null
      /\ \A i : Relations(i) # Null /\ People(i) # Null /\ Research(i) # Null
  BY DEF ScreenState, TurnState, Relations, People, Research, Rec, Null
<1>2. \A id \in DOMAIN V : V[id] # Null /\ W[id] # Null
  BY <1>1, Zenon DEF Genuine
<1>3. QED
  BY <1>2, Zenon DEF Read

(* The snapshot of the board before holds its turn number.                 *)
LEMMA SnapshotTurn ==
    ASSUME NEW V, Genuine(V), NEW n, Field(Read(V, TurnId), "turn_number") = Num(n)
    PROVE  /\ "observed_turn_number" \in DOMAIN ObservedSnapshot(V)
           /\ ObservedSnapshot(V)["observed_turn_number"] = Num(n)
<1> DEFINE bindings == Bindings(V, Null, <<>>)
<1>1. bindings["game"] = Rec(GameNamespace(V))
  BY DEF Bindings, Joined
<1>2. Field(Rec(GameNamespace(V)), "turn_number") = Num(n)
  BY GameFields DEF TurnFields
<1>3. Num(n) # Null
  BY DEF Num, Null
<1>4. "turn_number" \in DOMAIN GameNamespace(V)
  BY <1>2, <1>3, RecField, Zenon
<1>5. /\ ObservedSources["observed_turn_number"] = <<"game", "turn_number">>
      /\ "observed_turn_number" \in DOMAIN ObservedSources
  BY DEF ObservedSources
<1>6. Rec(GameNamespace(V))[2] = GameNamespace(V)
  BY DEF Rec
<1> HIDE DEF bindings
<1>7. \A o : o \in DOMAIN ObservedSnapshot(V) <=>
                o \in DOMAIN ObservedSources /\ ObservedSources[o][2] \in DOMAIN bindings[ObservedSources[o][1]][2]
  BY DEF ObservedSnapshot, bindings
<1>8. \A o \in DOMAIN ObservedSnapshot(V) :
         ObservedSnapshot(V)[o] = Field(bindings[ObservedSources[o][1]], ObservedSources[o][2])
  BY DEF ObservedSnapshot, bindings
<1>9. QED
  BY <1>1, <1>2, <1>4, <1>5, <1>6, <1>7, <1>8

(* turn.end_turn is confirmed by the next number, or by waiting for the    *)
(* others.                                                                 *)
LEMMA EndTurnConfirmed ==
    ASSUME NEW V, Genuine(V), NEW W, Genuine(W), DOMAIN V = DOMAIN W,
           Turn(V, "is_local_player_turn") = True,
           NEW target, NEW b, b = Bindings(W, target, ObservedSnapshot(V))
    PROVE  /\ AllAllowed(EndTurnEntry.verification[1])
           /\ Holds(EndTurnEntry.verification[1], b) <=>
                 \/ Turn(W, "turn_number") = Num(Turn(V, "turn_number")[2] + 100)
                 \/ Turn(W, "is_waiting_for_other_players") = True
<1> DEFINE number == Of("game", "turn_number")
           waiting == Of("game", "is_waiting_for_other_players")
           observed == Name("observed_turn_number")
           one == Const(Whole(1))
           next == Add(observed, one)
           later == Compare(number, "==", next)
<1>1. EndTurnEntry.verification[1] = Or(<<later, waiting>>)
  BY DEF EndTurnEntry, Action
<1>2. Read(V, TurnId) # Null
  <2>1. True # Null
    BY DEF True, Bool, Null
  <2>2. QED
    BY <2>1, TruthyValues DEF Turn, TurnId
<1>3. Read(W, TurnId) # Null
  BY <1>2, ReadsAlike, Zenon
<1>4. PICK n \in Int, mine \in BOOLEAN : Read(V, TurnId) = TurnState(n, mine)
  BY <1>2, ReadGenuine
<1>5. PICK m \in Int, ours \in BOOLEAN : Read(W, TurnId) = TurnState(m, ours)
  BY <1>3, ReadGenuine
<1>6. /\ Turn(V, "turn_number") = Whole(n) /\ Turn(W, "turn_number") = Whole(m)
      /\ Turn(W, "is_waiting_for_other_players") = Bool(~ours)
  BY <1>4, <1>5, TurnValues DEF Turn, TurnId
<1>7. /\ Deep3(number) /\ AllAllowed(number) /\ Deep4(waiting) /\ AllAllowed(waiting)
      /\ Deep1(observed) /\ AllAllowed(observed) /\ Deep1(one) /\ AllAllowed(one)
      /\ EvalNode(one, b) = Whole(1)
  BY Sized, EvalConst, Zenon
<1>8. EvalNode(observed, b) = Whole(n)
  <2>1. Field(Read(V, TurnId), "turn_number") = Whole(n)
    BY <1>6 DEF Turn, TurnId
  <2>2. /\ "observed_turn_number" \in DOMAIN ObservedSnapshot(V)
        /\ ObservedSnapshot(V)["observed_turn_number"] = Whole(n)
    BY <2>1, SnapshotTurn DEF Whole
  <2>3. QED
    BY <2>2, OfValues
<1>9. EvalNode(number, b) = Whole(m) /\ EvalNode(waiting, b) = Bool(~ours)
  BY <1>6, OfValues DEF Turn, TurnId, TurnFields
<1> HIDE DEF number, waiting, observed, one
<1>10. /\ Deep3(next) /\ AllAllowed(next) /\ EvalNode(next, b) = Whole(n + 1)
  <2>1. /\ Deep2(next) /\ AllAllowed(next)
        /\ EvalNode(next, b) = IF Whole(n) = Err \/ Whole(1) = Err THEN Err ELSE Arithmetic("add", Whole(n), Whole(1))
    BY <1>7, <1>8, EvalAdd
  <2>2. Arithmetic("add", Whole(n), Whole(1)) = Whole(n + 1)
    BY DEF Arithmetic, Is, Num, Whole
  <2>3. Whole(n) # Err /\ Whole(1) # Err
    BY TruthyValues
  <2>4. QED
    BY <2>1, <2>2, <2>3, Deeper, Zenon
<1> HIDE DEF next
<1>11. SameValue(Whole(m), Whole(n + 1)) <=> m = n + 1
  BY DEF SameValue, Is, Num, Whole, Number
<1>12. /\ Deep4(later) /\ AllAllowed(later)
       /\ EvalNode(later, b) = Bool(SameValue(Whole(m), Whole(n + 1)))
  <2>1. Whole(m) # Err /\ Whole(n + 1) # Err
    BY TruthyValues
  <2>2. QED
    BY <1>7, <1>9, <1>10, <2>1, CompareHolds
<1>13. EvalNode(later, b) # Err /\ (Truthy(EvalNode(later, b)) <=> m = n + 1)
  <2>1. SameValue(Whole(m), Whole(n + 1)) \in BOOLEAN
    BY DEF SameValue
  <2>2. QED
    BY <1>11, <1>12, <2>1, TruthyBool
<1>14. Holds(waiting, b) <=> ~ours
  BY <1>9, TruthyValues DEF Holds
<1> HIDE DEF later
<1>15. /\ AllAllowed(Or(<<later, waiting>>))
       /\ Holds(Or(<<later, waiting>>), b) <=> m = n + 1 \/ ~ours
  <2>1. /\ AllAllowed(Or(<<later, waiting>>))
        /\ Holds(Or(<<later, waiting>>), b) <=>
              EvalNode(later, b) # Err /\ (Truthy(EvalNode(later, b)) \/ Holds(waiting, b))
    BY <1>7, <1>12, EvalOr2
  <2>2. QED
    BY <1>13, <1>14, <2>1
<1>16. /\ Whole(m) = Num(Whole(n)[2] + 100) <=> m = n + 1
       /\ Bool(~ours) = True <=> ~ours
  <2>1. Whole(m) = Num(Whole(n)[2] + 100) <=> m = n + 1
    BY DEF Num, Whole
  <2>2. Bool(~ours) = True <=> ~ours
    BY DEF Bool, True
  <2>3. QED
    BY <2>1, <2>2
<1>17. QED
  BY <1>1, <1>6, <1>15, <1>16

(* The two war actions are confirmed by the relations of the board after.  *)
LEMMA WarConfirmed ==
    ASSUME NEW V, Genuine(V), NEW W, Genuine(W), DOMAIN V = DOMAIN W, Read(V, DiplomacyId) # Null,
           NEW target, SameValue(Rival, target), Meant(target) = Rival,
           NEW b, b = Bindings(W, target, ObservedSnapshot(V))
    PROVE  /\ AllAllowed(DeclareWarEntry.verification[1])
           /\ Holds(DeclareWarEntry.verification[1], b) <=> \E r \in RelationTo(W, target) : AtWar(r)
           /\ AllAllowed(MakePeaceEntry.verification[1])
           /\ Holds(MakePeaceEntry.verification[1], b) <=> \A r \in RelationTo(W, target) : ~AtWar(r)
<1> DEFINE state == Of("other_player", "diplomatic_state")
           x == EvalNode(state, b)
           same == Compare(state, "==", Word("war"))
           other == Compare(state, "!=", Word("war"))
<1>1. DeclareWarEntry.verification[1] = same /\ MakePeaceEntry.verification[1] = other
  BY DEF DeclareWarEntry, MakePeaceEntry, Action
<1>2. PICK i \in {"peace", "war", "gone"} : Read(W, DiplomacyId) = Relations(i)
  <2>1. Read(W, DiplomacyId) # Null
    BY ReadsAlike, Zenon
  <2>2. QED
    BY <2>1, ReadGenuine
<1>3. /\ AllAllowed(same) /\ AllAllowed(other)
      /\ x = Field(Rec(SubjectNamespace(W, "other_player", target)), "diplomatic_state")
      /\ Holds(same, b) <=> x = Str("war")
      /\ x # Err => (Holds(other, b) <=> x # Str("war"))
  BY StateCompared
<1>4. i # "gone" => x = Str(i)
  BY <1>2, <1>3, SubjectFields
<1>5. i = "gone" => x = Null
  <2>1. Relations("gone") # Relations("peace") /\ Relations("gone") # Relations("war")
    <3>1. Field(Relations("gone"), "relations")[2] = <<>>
      BY RelationValues DEF List
    <3>2. \A k : k # "gone" => Field(Relations(k), "relations")[2] = << Relation(Rival, k) >>
      BY RelationValues DEF List
    <3>3. \A v : <<>> # <<v>>
      OBVIOUS
    <3>4. "peace" # "gone" /\ "war" # "gone"
      OBVIOUS
    <3>5. QED
      BY <3>1, <3>2, <3>3, <3>4, Zenon
  <2>2. i = "gone" => \A k \in {"peace", "war"} : Read(W, DiplomacyId) # Relations(k)
    BY <1>2, <2>1
  <2>3. QED
    BY <1>3, <2>2, SubjectFields
<1> HIDE DEF x, same, other
<1>6. /\ Null # Str("war") /\ Null # Err /\ \A k : Str(k) # Err /\ (Str(k) = Str("war") <=> k = "war")
  BY DEF Null, Str, Err
<1>7. x # Err /\ (x = Str("war") <=> i = "war")
  BY <1>4, <1>5, <1>6
<1>8. (\E r \in RelationTo(W, target) : AtWar(r)) <=> i = "war"
  BY <1>2, RelationsListed
<1>9. QED
  BY <1>1, <1>3, <1>7, <1>8

(* research.set_tech is confirmed by the current research.                 *)
LEMMA SetTechConfirmed ==
    ASSUME NEW W, Genuine(W), NEW target, target = Str("pottery"),
           NEW snapshot, NEW b, b = Bindings(W, target, snapshot)
    PROVE  /\ AllAllowed(SetTechEntry.verification[1])
           /\ Holds(SetTechEntry.verification[1], b) <=>
                 Field(Read(W, ResearchId), "current_research") = target
<1> DEFINE current == Of("player", "current_research")
           x == Field(Read(W, ResearchId), "current_research")
<1>1. SetTechEntry.verification[1] = Compare(current, "==", Target)
  BY DEF SetTechEntry, Action
<1>2. x = EvalNode(current, b) /\ target = EvalNode(Target, b)
  BY OfValues
<1>3. Deep3(current) /\ AllAllowed(current) /\ Deep3(Target) /\ AllAllowed(Target)
  BY Sized, Zenon
<1>4. x # Err
  <2>1. CASE Read(W, ResearchId) = Null
    BY <2>1, TruthyValues
  <2>2. ASSUME NEW tech, Read(W, ResearchId) = Research(tech) PROVE x = Null \/ x = Str(tech)
    BY <2>2 DEF Field, Research, Rec, Is
  <2>3. QED
    BY <2>1, <2>2, ReadGenuine, TruthyValues
<1>5. target # Err
  BY TruthyValues
<1>6. SameValue(x, target) <=> x = target
  BY SameAtoms
<1> HIDE DEF current, x
<1>7. /\ AllAllowed(Compare(current, "==", Target))
      /\ Holds(Compare(current, "==", Target), b) <=> x # Err /\ target # Err /\ SameValue(x, target)
  BY <1>2, <1>3, CompareHolds
<1>8. QED
  BY <1>1, <1>4, <1>5, <1>6, <1>7 DEF x

(* prompts.declare_war_response is confirmed by another screen.            *)
LEMMA AnswerWarConfirmed ==
    ASSUME NEW W, Genuine(W), NEW target, NEW snapshot, NEW b, b = Bindings(W, target, snapshot)
    PROVE  /\ AllAllowed(AnswerWarEntry.verification[1])
           /\ Holds(AnswerWarEntry.verification[1], b) <=>
                 Screen(W) # Id(<<"prompt", "declare_war_response">>)
<1>1. AnswerWarEntry.verification[1] = Compare(Of("game", "current_screen"), "!=", WarPrompt)
  BY DEF AnswerWarEntry, Action
<1>2. QED
  BY <1>1, ScreenCompared

(* camera.zoom never is: its predicate reads a field nothing reports.      *)
LEMMA ZoomUnconfirmed ==
    ASSUME NEW W, Genuine(W), NEW target, Is(target, {"bool", "num"}),
           NEW snapshot, NEW b, b = Bindings(W, target, snapshot)
    PROVE  ~Holds(ZoomEntry.verification[1], b)
<1> DEFINE zoom == Of("camera", "zoom")
<1>1. ZoomEntry.verification[1] = Compare(zoom, "==", Target)
  BY DEF ZoomEntry, Action
<1>2. Null = EvalNode(zoom, b) /\ target = EvalNode(Target, b)
  BY OfValues
<1>3. Deep3(zoom) /\ AllAllowed(zoom) /\ Deep3(Target) /\ AllAllowed(Target)
  BY Sized, Zenon
<1>4. ~SameValue(Null, target)
  BY DEF SameValue, Is, Null
<1> HIDE DEF zoom
<1>5. Holds(Compare(zoom, "==", Target), b) => SameValue(Null, target)
  BY <1>2, <1>3, CompareHolds
<1>6. QED
  BY <1>1, <1>4, <1>5

----------------------------------------------------------------------------
(* A verdict, and what follows from it.                                    *)

(* The shipped actions that are ever performed. *)
Performed == {EndTurnEntry, DeclareWarEntry, MakePeaceEntry, SetTechEntry, AnswerWarEntry, ZoomEntry}

EntryOf(id) == catalog.declarations[id]

(* The ids of the shipped actions.                                         *)
LEMMA EntryIds ==
    /\ EndTurnEntry.id = <<"turn", "end_turn">> /\ DeclareWarEntry.id = <<"diplomacy", "declare_war">>
    /\ MakePeaceEntry.id = <<"diplomacy", "make_peace">> /\ RecruitEntry.id = <<"great_people", "recruit">>
    /\ SetTechEntry.id = <<"research", "set_tech">>
    /\ AnswerWarEntry.id = <<"prompts", "declare_war_response">>
    /\ ZoomEntry.id = <<"camera", "zoom">> /\ CastVoteEntry.id = <<"congress", "cast_vote">>
BY DEF EndTurnEntry, DeclareWarEntry, MakePeaceEntry, RecruitEntry, SetTechEntry, AnswerWarEntry,
       ZoomEntry, CastVoteEntry, Action

(* A predicate that does not parse is an error, not True, and so is a name *)
(* that nothing binds.                                                     *)
LEMMA UnevaluableFails ==
    ASSUME NEW e \in Unevaluable, NEW b, DOMAIN b \cap OtherSpellings = {}
    PROVE  Evaluate(e, b) # True
<1>1. Err # True
  BY DEF Err, Bool, True
<1>2. CASE e = Garbled
  <2>1. Garbled \in Nodes(Garbled)
    BY Zenon DEF Nodes
  <2>2. Garbled.op \notin Allowed
    BY DEF Garbled, Allowed
  <2>3. Evaluate(Garbled, b) = Err
    BY <2>1, <2>2, Zenon DEF Evaluate
  <2>4. QED
    BY <1>1, <1>2, <2>3
<1>3. ASSUME NEW id \in OtherSpellings, e = Name(id)
      PROVE  Evaluate(e, b) # True
  <2>1. id \notin DOMAIN Literals
    BY DEF OtherSpellings, Literals
  <2>2. ResolveName(id, b) = Err
    BY <2>1 DEF ResolveName
  <2>3. EvalNode(e, b) = Err
    BY <1>3, <2>2, EvalName
  <2>4. Evaluate(e, b) = Err
    BY <2>3, Zenon DEF Evaluate
  <2>5. QED
    BY <1>1, <2>4
<1>4. QED
  BY <1>2, <1>3 DEF Unevaluable

(* What a verdict of "authorized" has gone through. *)
LEMMA AuthorizedMeans ==
    ASSUME NEW p, Judgement(p) = "authorized"
    PROVE  /\ p.action \in DOMAIN catalog.declarations
           /\ EntryOf(p.action).kind = "action" /\ EntryOf(p.action).context = "InGame"
           /\ IF p.action \in CameraActions THEN Available(p.action, [target |-> p.target])
              ELSE Available(p.action, Bindings(board, p.target, <<>>))
<1>1. DispatchAction(p) \notin {"not_in_catalog", "illegal_in_context"}
  BY DEF Judgement
<1>2. /\ p.action \in DOMAIN catalog.declarations
      /\ EntryOf(p.action).kind = "action" /\ EntryOf(p.action).context = "InGame"
  BY <1>1, Zenon DEF DispatchAction, Declared, Authorized, EntryOf
<1>3. CASE p.action \in CameraActions
  <2>1. ValidateCamera(p) = "authorized"
    BY <1>1, <1>3 DEF Judgement
  <2>2. Available(p.action, [target |-> p.target])
    BY <2>1 DEF ValidateCamera
  <2>3. QED
    BY <1>2, <1>3, <2>2
<1>4. CASE p.action \notin CameraActions
  <2>1. DispatchAction(p) = "authorized"
    BY <1>4 DEF Judgement
  <2>2. Available(p.action, Bindings(board, p.target, <<>>))
    BY <1>2, <2>1 DEF DispatchAction
  <2>3. QED
    BY <1>2, <1>4, <2>2
<1>5. QED
  BY <1>3, <1>4

(* What is authorized is a shipped action.                                 *)
LEMMA ShippedAction ==
    ASSUME Catalogued, NEW p, Judgement(p) = "authorized"
    PROVE  EntryOf(p.action) \in Range(Actions) /\ EntryOf(p.action).id = p.action
<1> DEFINE d == EntryOf(p.action)
<1>1. /\ p.action \in DOMAIN catalog.declarations /\ d.kind = "action" /\ d.context = "InGame"
      /\ \E b : DOMAIN b \cap OtherSpellings = {} /\ Available(p.action, b)
  <2>1. DOMAIN [target |-> p.target] \cap OtherSpellings = {}
    BY DEF OtherSpellings
  <2>2. DOMAIN Bindings(board, p.target, <<>>) \cap OtherSpellings = {}
    BY DEF Bindings, Joined, SubjectSources, OtherSpellings
  <2>3. QED
    BY <2>1, <2>2, AuthorizedMeans, Zenon
<1>2. AsShipped(d) /\ d.id = p.action
  BY <1>1, Zenon DEF Catalogued, CatalogOK, EntryOf
<1>3. \A e \in Unevaluable : \A b :
         DOMAIN b \cap OtherSpellings = {} /\ d.availability = <<e>> => ~Available(p.action, b)
  <2> SUFFICES ASSUME NEW e \in Unevaluable, NEW b, DOMAIN b \cap OtherSpellings = {},
                      d.availability = <<e>>
               PROVE  ~Available(p.action, b)
    OBVIOUS
  <2>1. d.availability[1] = e
    OBVIOUS
  <2>2. QED
    BY <2>1, UnevaluableFails DEF Available, EntryOf
<1> HIDE DEF d
<1>4. \A o \in Range(Observations) : o.kind = "observation"
  <2>1. Range(Observations) =
          {ScreenStateEntry, TurnStateEntry, DiplomacyEntry, GreatPeopleEntry, ResearchEntry}
    BY DEF Range, Observations
  <2>2. QED
    BY <2>1 DEF ScreenStateEntry, TurnStateEntry, DiplomacyEntry, GreatPeopleEntry, ResearchEntry, Observation
<1>5. d \in Range(Actions)
  <2>1. ~\E o \in Range(Observations) : d.kind = o.kind
    BY <1>1, <1>4
  <2>2. ~\E e \in Unevaluable : d.availability = <<e>>
    <3> SUFFICES ASSUME NEW e \in Unevaluable, d.availability = <<e>>  PROVE FALSE
      OBVIOUS
    <3>1. PICK b : DOMAIN b \cap OtherSpellings = {} /\ Available(p.action, b)
      BY <1>1, Zenon
    <3>2. ~Available(p.action, b)
      BY <1>3, <3>1, Zenon
    <3> QED  BY <3>1, <3>2, Zenon
  <2>3. QED
    BY <1>1, <1>2, <2>1, <2>2, Zenon DEF AsShipped
<1>6. QED
  BY <1>2, <1>5 DEF d

(* The shipped actions are eight.                                          *)
LEMMA ActionsAre ==
    Range(Actions) = {EndTurnEntry, DeclareWarEntry, MakePeaceEntry, RecruitEntry,
                      SetTechEntry, AnswerWarEntry, ZoomEntry, CastVoteEntry}
BY DEF Range, Actions

(* What is authorized is one of the six, and a human could do it. *)
LEMMA AuthorizedCould ==
    ASSUME Catalogued, Genuine(board), NEW p \in Proposals, Judgement(p) = "authorized"
    PROVE  /\ EntryOf(p.action) \in Performed /\ EntryOf(p.action).id = p.action
           /\ HumanCould(p, board)
           /\ p.action \in {<<"diplomacy", "declare_war">>, <<"diplomacy", "make_peace">>} =>
                 SameValue(Rival, p.target) /\ Read(board, DiplomacyId) # Null
<1> DEFINE d == EntryOf(p.action)
           b == Bindings(board, p.target, <<>>)
<1>1. d \in Range(Actions) /\ d.id = p.action
  BY ShippedAction, Zenon
<1>2. IF p.action \in CameraActions THEN Available(p.action, [target |-> p.target])
      ELSE Available(p.action, b)
  BY AuthorizedMeans, Zenon
<1>3. \A bindings : Available(p.action, bindings) => Holds(d.availability[1], bindings)
  <2> SUFFICES ASSUME NEW bindings, Available(p.action, bindings)
               PROVE  Holds(d.availability[1], bindings)
    OBVIOUS
  <2>1. Evaluate(d.availability[1], bindings) = True
    BY DEF Available, EntryOf
  <2> HIDE DEF d
  <2>3. QED
    BY <2>1, EvaluateHolds
<1>4. NumTarget(p.target)
  BY ProposalsAssumption, Zenon DEF NumTarget
<1> HIDE DEF d
<1>5. p.action \notin CameraActions => Holds(d.availability[1], b)
  BY <1>2, <1>3, Zenon
<1>6. CASE d = EndTurnEntry
  <2>1. p.action = <<"turn", "end_turn">>
    BY <1>1, <1>6, EntryIds
  <2>2. Holds(EndTurnEntry.availability[1], b)
    BY <1>5, <1>6, <2>1 DEF CameraActions
  <2>3. /\ Turn(board, "is_local_player_turn") = True
        /\ Is(Screen(board), {"id"}) => ~IsPrompt(Screen(board)[2])
    BY <2>2, EndTurnAvailable
  <2>4. HumanCould(p, board)
    BY <2>1, <2>3 DEF HumanCould
  <2>5. QED
    BY <1>1, <1>6, <2>1, <2>4 DEF Performed, d
<1>7. CASE d = DeclareWarEntry
  <2>1. p.action = <<"diplomacy", "declare_war">>
    BY <1>1, <1>7, EntryIds
  <2>2. Holds(DeclareWarEntry.availability[1], b)
    BY <1>5, <1>7, <2>1 DEF CameraActions
  <2>3. /\ SameValue(Rival, p.target) /\ Read(board, DiplomacyId) # Null
        /\ \E r \in RelationTo(board, p.target) : ~AtWar(r)
    BY <1>4, <2>2, DeclareWarAvailable
  <2>4. HumanCould(p, board)
    BY <2>1, <2>3 DEF HumanCould
  <2>5. QED
    BY <1>1, <1>7, <2>1, <2>3, <2>4 DEF Performed, d
<1>8. CASE d = MakePeaceEntry
  <2>1. p.action = <<"diplomacy", "make_peace">>
    BY <1>1, <1>8, EntryIds
  <2>2. Holds(MakePeaceEntry.availability[1], b)
    BY <1>5, <1>8, <2>1 DEF CameraActions
  <2>3. /\ SameValue(Rival, p.target) /\ Read(board, DiplomacyId) # Null
        /\ \E r \in RelationTo(board, p.target) : AtWar(r)
    BY <1>4, <2>2, MakePeaceAvailable
  <2>4. HumanCould(p, board)
    BY <2>1, <2>3 DEF HumanCould
  <2>5. QED
    BY <1>1, <1>8, <2>1, <2>3, <2>4 DEF Performed, d
<1>9. CASE d = RecruitEntry
  <2>1. p.action = <<"great_people", "recruit">>
    BY <1>1, <1>9, EntryIds
  <2>2. Holds(RecruitEntry.availability[1], b)
    BY <1>5, <1>9, <2>1 DEF CameraActions
  <2>3. QED
    BY <2>2, RecruitUnavailable
<1>10. CASE d = SetTechEntry
  <2>1. p.action = <<"research", "set_tech">>
    BY <1>1, <1>10, EntryIds
  <2>2. Holds(SetTechEntry.availability[1], b)
    BY <1>5, <1>10, <2>1 DEF CameraActions
  <2>3. p.target = Str("pottery")
    BY <2>2, SetTechAvailable
  <2>4. HumanCould(p, board)
    BY <2>1, <2>3 DEF HumanCould
  <2>5. QED
    BY <1>1, <1>10, <2>1, <2>4 DEF Performed, d
<1>11. CASE d = AnswerWarEntry
  <2>1. p.action = <<"prompts", "declare_war_response">>
    BY <1>1, <1>11, EntryIds
  <2>2. Holds(AnswerWarEntry.availability[1], b)
    BY <1>5, <1>11, <2>1 DEF CameraActions
  <2>3. /\ Screen(board) = Id(<<"prompt", "declare_war_response">>)
        /\ p.target \in {Str("accept"), Str("refuse")}
    BY <2>2, AnswerWarAvailable
  <2>4. HumanCould(p, board)
    BY <2>1, <2>3 DEF HumanCould
  <2>5. QED
    BY <1>1, <1>11, <2>1, <2>4 DEF Performed, d
<1>12. CASE d = ZoomEntry
  <2>1. p.action = <<"camera", "zoom">>
    BY <1>1, <1>12, EntryIds
  <2>2. Holds(ZoomEntry.availability[1], [target |-> p.target])
    BY <1>2, <1>3, <1>12, <2>1 DEF CameraActions
  <2>3. Is(Meant(p.target), {"num"}) /\ Meant(p.target)[2] \in 5..100
    BY <1>4, <2>2, ZoomAvailable
  <2>4. HumanCould(p, board)
    BY <2>1, <2>3 DEF HumanCould
  <2>5. QED
    BY <1>1, <1>12, <2>1, <2>4 DEF Performed, d
<1>13. CASE d = CastVoteEntry
  <2>1. p.action = <<"congress", "cast_vote">>
    BY <1>1, <1>13, EntryIds
  <2>2. Holds(CastVoteEntry.availability[1], b)
    BY <1>5, <1>13, <2>1 DEF CameraActions
  <2>3. QED
    BY <2>2, CastVoteUnavailable
<1>14. QED
  BY <1>1, <1>6, <1>7, <1>8, <1>9, <1>10, <1>11, <1>12, <1>13, ActionsAre, Zenon

(* An execution is confirmed exactly when the board after it shows the     *)
(* effect: verify_execution of a decision that was authorized.             *)
LEMMA ConfirmedAsShown ==
    ASSUME Catalogued, Genuine(board), Genuine(fresh), DOMAIN board = DOMAIN fresh,
           proposal \in Proposals, Judgement(proposal) = "authorized"
    PROVE  Confirmed <=> EffectShown(proposal, board, fresh)
<1> DEFINE d == EntryOf(proposal.action)
           target == proposal.target
           snapshot == ObservedSnapshot(board)
           b == Bindings(fresh, target, snapshot)
<1>1. /\ d \in Performed /\ d.id = proposal.action
      /\ HumanCould(proposal, board)
      /\ proposal.action \in {<<"diplomacy", "declare_war">>, <<"diplomacy", "make_peace">>} =>
            SameValue(Rival, target) /\ Read(board, DiplomacyId) # Null
  BY AuthorizedCould
<1>t. NumTarget(target)
  BY ProposalsAssumption, Zenon DEF NumTarget
<1>2. UnknownSymbols(d.verification[1]) = {}
  <2>1. /\ proposal.action \in DOMAIN catalog.declarations
        /\ d.kind = "action"
    BY AuthorizedMeans, Zenon
  <2>2. ChecksSymbols(d)
    BY <2>1, Zenon DEF Catalogued, CatalogOK, EntryOf
  <2>3. QED
    BY <2>2 DEF ChecksSymbols
<1>3. Confirmed <=> Evaluate(d.verification[1], b) = True
  BY DEF Confirmed, EntryOf, Snapshot
<1> HIDE DEF d
<1>4. Confirmed => Holds(d.verification[1], b)
  <2>1. Evaluate(d.verification[1], b) = True => Holds(d.verification[1], b)
    BY EvaluateHolds
  <2>2. QED
    BY <1>3, <2>1
<1>5. AllAllowed(d.verification[1]) /\ Holds(d.verification[1], b) => Confirmed
  <2>1. ASSUME AllAllowed(d.verification[1]), Holds(d.verification[1], b)
        PROVE  Evaluate(d.verification[1], b) = True
    BY <1>2, <2>1, HoldsEvaluate
  <2>2. QED
    BY <1>3, <2>1
<1>6. CASE d = EndTurnEntry
  <2>1. proposal.action = <<"turn", "end_turn">>
    BY <1>1, <1>6, EntryIds
  <2>2. Turn(board, "is_local_player_turn") = True
    BY <1>1, <2>1 DEF HumanCould
  <2>3. /\ AllAllowed(EndTurnEntry.verification[1])
        /\ Holds(EndTurnEntry.verification[1], b) <=>
              \/ Turn(fresh, "turn_number") = Num(Turn(board, "turn_number")[2] + 100)
              \/ Turn(fresh, "is_waiting_for_other_players") = True
    BY <2>2, EndTurnConfirmed
  <2>4. EffectShown(proposal, board, fresh) <=>
              \/ Turn(fresh, "turn_number") = Num(Turn(board, "turn_number")[2] + 100)
              \/ Turn(fresh, "is_waiting_for_other_players") = True
    BY <2>1 DEF EffectShown
  <2> HIDE DEF b
  <2>5. QED
    BY <1>4, <1>5, <1>6, <2>3, <2>4
<1>7. CASE d = DeclareWarEntry
  <2>1. proposal.action = <<"diplomacy", "declare_war">>
    BY <1>1, <1>7, EntryIds
  <2>2. SameValue(Rival, target) /\ Meant(target) = Rival /\ Read(board, DiplomacyId) # Null
    BY <1>1, <1>t, <2>1, RivalMeant
  <2>3. /\ AllAllowed(DeclareWarEntry.verification[1])
        /\ Holds(DeclareWarEntry.verification[1], b) <=> \E r \in RelationTo(fresh, target) : AtWar(r)
    BY <2>2, WarConfirmed
  <2>4. EffectShown(proposal, board, fresh) <=> \E r \in RelationTo(fresh, target) : AtWar(r)
    BY <2>1 DEF EffectShown
  <2> HIDE DEF b
  <2>5. QED
    BY <1>4, <1>5, <1>7, <2>3, <2>4
<1>8. CASE d = MakePeaceEntry
  <2>1. proposal.action = <<"diplomacy", "make_peace">>
    BY <1>1, <1>8, EntryIds
  <2>2. SameValue(Rival, target) /\ Meant(target) = Rival /\ Read(board, DiplomacyId) # Null
    BY <1>1, <1>t, <2>1, RivalMeant
  <2>3. /\ AllAllowed(MakePeaceEntry.verification[1])
        /\ Holds(MakePeaceEntry.verification[1], b) <=> \A r \in RelationTo(fresh, target) : ~AtWar(r)
    BY <2>2, WarConfirmed
  <2>4. EffectShown(proposal, board, fresh) <=> \A r \in RelationTo(fresh, target) : ~AtWar(r)
    BY <2>1 DEF EffectShown
  <2> HIDE DEF b
  <2>5. QED
    BY <1>4, <1>5, <1>8, <2>3, <2>4
<1>9. CASE d = SetTechEntry
  <2>1. proposal.action = <<"research", "set_tech">>
    BY <1>1, <1>9, EntryIds
  <2>2. target = Str("pottery")
    BY <1>1, <2>1 DEF HumanCould
  <2>3. /\ AllAllowed(SetTechEntry.verification[1])
        /\ Holds(SetTechEntry.verification[1], b) <=>
              Field(Read(fresh, ResearchId), "current_research") = target
    BY <2>2, SetTechConfirmed
  <2>4. EffectShown(proposal, board, fresh) <=>
              Field(Read(fresh, ResearchId), "current_research") = target
    BY <2>1 DEF EffectShown, ResearchId
  <2> HIDE DEF b
  <2>5. QED
    BY <1>4, <1>5, <1>9, <2>3, <2>4
<1>10. CASE d = AnswerWarEntry
  <2>1. proposal.action = <<"prompts", "declare_war_response">>
    BY <1>1, <1>10, EntryIds
  <2>3. /\ AllAllowed(AnswerWarEntry.verification[1])
        /\ Holds(AnswerWarEntry.verification[1], b) <=>
              Screen(fresh) # Id(<<"prompt", "declare_war_response">>)
    BY AnswerWarConfirmed
  <2>4. EffectShown(proposal, board, fresh) <=> Screen(fresh) # Id(<<"prompt", "declare_war_response">>)
    BY <2>1 DEF EffectShown
  <2> HIDE DEF b
  <2>5. QED
    BY <1>4, <1>5, <1>10, <2>3, <2>4
<1>11. CASE d = ZoomEntry
  <2>1. proposal.action = <<"camera", "zoom">>
    BY <1>1, <1>11, EntryIds
  <2>2. Is(target, {"bool", "num"})
    <3>1. Is(Meant(target), {"num"})
      BY <1>1, <2>1 DEF HumanCould
    <3>2. CASE target = Bool(TRUE) \/ target = Bool(FALSE)
      <4>1. Is(Bool(TRUE), {"bool", "num"}) /\ Is(Bool(FALSE), {"bool", "num"})
        BY DEF Is, Bool
      <4> QED  BY <3>2, <4>1, Zenon
    <3>3. CASE target # Bool(TRUE) /\ target # Bool(FALSE)
      <4>1. Meant(target) = target
        BY <3>3, Zenon DEF Meant
      <4> QED  BY <3>1, <4>1 DEF Is
    <3> QED  BY <3>2, <3>3
  <2>3. ~Holds(ZoomEntry.verification[1], b)
    BY <2>2, ZoomUnconfirmed
  <2>4. ~EffectShown(proposal, board, fresh)
    BY <2>1 DEF EffectShown
  <2> HIDE DEF b
  <2>5. QED
    BY <1>4, <1>11, <2>3, <2>4
<1>12. QED
  BY <1>1, <1>6, <1>7, <1>8, <1>9, <1>10, <1>11 DEF Performed

(* The function and the arguments of each action that is performed.        *)
LEMMA CallsMade ==
    ASSUME NEW p, EntryOf(p.action) \in Performed, EntryOf(p.action).id = p.action
    PROVE  /\ p.action = <<"turn", "end_turn">> => CallOf(p).function = "end_turn"
           /\ p.action = <<"diplomacy", "declare_war">> => CallOf(p).function = "declare_war"
           /\ p.action = <<"diplomacy", "make_peace">> => CallOf(p).function = "make_peace"
           /\ p.action = <<"research", "set_tech">> => CallOf(p).function = "set_research"
           /\ p.action = <<"prompts", "declare_war_response">> =>
                 CallOf(p) = [function |-> "respond",
                              arguments |-> << Id(<<"prompt", "declare_war_response">>), p.target >>]
           /\ p.action # <<"prompts", "declare_war_response">> /\ p.target # Null =>
                 CallOf(p).arguments = Append(p.extra, p.target)
           /\ CallOf(p).function # "none"
<1> DEFINE d == EntryOf(p.action)
<1>1. /\ EndTurnEntry.capability = "turn.control" /\ DeclareWarEntry.capability = "diplomacy.orders"
      /\ MakePeaceEntry.capability = "diplomacy.orders" /\ SetTechEntry.capability = "empire.orders"
      /\ AnswerWarEntry.capability = "prompts.orders" /\ ZoomEntry.capability = "camera.control"
  BY DEF EndTurnEntry, DeclareWarEntry, MakePeaceEntry, SetTechEntry, AnswerWarEntry, ZoomEntry, Action
<1>2. d.capability = "prompts.orders" <=> p.action = <<"prompts", "declare_war_response">>
  BY <1>1, EntryIds DEF Performed
<1>3. p.action \in {<<"turn", "end_turn">>, <<"diplomacy", "declare_war">>, <<"diplomacy", "make_peace">>,
                    <<"research", "set_tech">>, <<"prompts", "declare_war_response">>, <<"camera", "zoom">>}
  BY EntryIds DEF Performed
<1>4. /\ (\E o \in FunctionKeyOverrides : o[1] = p.action) <=> p.action = <<"research", "set_tech">>
      /\ \A o \in FunctionKeyOverrides : o[1] = <<"research", "set_tech">> <=> o = << <<"research", "set_tech">>, "set_research" >>
  BY <1>3 DEF FunctionKeyOverrides
<1>5. (CHOOSE o \in FunctionKeyOverrides : o[1] = <<"research", "set_tech">>) = << <<"research", "set_tech">>, "set_research" >>
  BY <1>4 DEF FunctionKeyOverrides
<1>6. FunctionKey(catalog, p.action) =
         IF p.action = <<"research", "set_tech">> THEN "set_research"
         ELSE IF d.capability = "prompts.orders" THEN "respond" ELSE p.action[2]
  BY <1>4, <1>5 DEF FunctionKey, EntryOf
<1>7. ArgumentsOf(catalog, p.action, p.extra, p.target) =
         IF d.capability = "prompts.orders" THEN << Id(<<"prompt", p.action[2]>>), p.target >>
         ELSE IF p.target = Null THEN p.extra ELSE Append(p.extra, p.target)
  BY DEF ArgumentsOf, EntryOf
<1> HIDE DEF d
<1>8. QED
  BY <1>2, <1>3, <1>6, <1>7 DEF CallOf

(* What is authorized is sent under a function's name. *)
LEMMA CallSent ==
    ASSUME Catalogued, Genuine(board), NEW p \in Proposals, Judgement(p) = "authorized"
    PROVE  CallOf(p) # NotSent
<1>1. EntryOf(p.action) \in Performed /\ EntryOf(p.action).id = p.action
  BY AuthorizedCould, Zenon
<1>2. CallOf(p).function # "none"
  BY <1>1, CallsMade, Zenon
<1>3. QED
  BY <1>2 DEF NotSent

(* A call the game obeys does what the decision means.                     *)
LEMMA CallDoes ==
    ASSUME Catalogued, Genuine(board), proposal \in Proposals, Judgement(proposal) = "authorized",
           proposal.extra = <<>>,
           ~Is(proposal.target, {"bool"}), game \in Games
    PROVE  /\ proposal.action = <<"turn", "end_turn">> => ~Done(CallOf(proposal)).mine
           /\ proposal.action = <<"diplomacy", "declare_war">> => Done(CallOf(proposal)).rival # "peace"
           /\ proposal.action = <<"diplomacy", "make_peace">> => Done(CallOf(proposal)).rival # "war"
           /\ proposal.action = <<"research", "set_tech">> =>
                 Str(Done(CallOf(proposal)).tech) = proposal.target
           /\ proposal.action = <<"prompts", "declare_war_response">> =>
                 Done(CallOf(proposal)).screen # <<"prompt", "declare_war_response">>
<1> DEFINE c == CallOf(proposal)
<1>1. /\ EntryOf(proposal.action) \in Performed /\ EntryOf(proposal.action).id = proposal.action
      /\ HumanCould(proposal, board)
      /\ proposal.action \in {<<"diplomacy", "declare_war">>, <<"diplomacy", "make_peace">>} =>
            proposal.target = Rival
  <2>1. NumTarget(proposal.target)
    BY ProposalsAssumption, Zenon DEF NumTarget
  <2>2. QED
    BY <2>1, AuthorizedCould, RivalMeant
<1>2. c = [function |-> c.function, arguments |-> c.arguments]
  BY DEF CallOf
<1>3. ASSUME proposal.target # Null, proposal.action # <<"prompts", "declare_war_response">>
      PROVE  c.arguments = <<proposal.target>>
  <2>1. proposal.target # Null
    BY <1>3
  <2>2. c.arguments = Append(<<>>, proposal.target)
    BY <1>1, <1>3, <2>1, CallsMade
  <2>3. QED
    BY <2>2
<1>r. Rival # Null /\ Str("pottery") # Null
  BY DEF Rival, Whole, Num, Str, Null
<1>4. ASSUME proposal.action = <<"turn", "end_turn">> PROVE ~Done(c).mine
  <2>1. c.function = "end_turn"
    BY <1>1, <1>4, CallsMade, Zenon
  <2> HIDE DEF c
  <2>2. QED
    BY <2>1 DEF Done, Games
<1>5. ASSUME proposal.action = <<"diplomacy", "declare_war">> PROVE Done(c).rival # "peace"
  <2>1. c.function = "declare_war"
    BY <1>1, <1>5, CallsMade, Zenon
  <2>2. c.arguments = <<Rival>>
    BY <1>1, <1>3, <1>r, <1>5
  <2> HIDE DEF c
  <2>3. QED
    BY <1>2, <2>1, <2>2 DEF Done, Games
<1>6. ASSUME proposal.action = <<"diplomacy", "make_peace">> PROVE Done(c).rival # "war"
  <2>1. c.function = "make_peace"
    BY <1>1, <1>6, CallsMade, Zenon
  <2>2. c.arguments = <<Rival>>
    BY <1>1, <1>3, <1>r, <1>6
  <2> HIDE DEF c
  <2>3. QED
    BY <1>2, <2>1, <2>2 DEF Done, Games
<1>7. ASSUME proposal.action = <<"research", "set_tech">> PROVE Str(Done(c).tech) = proposal.target
  <2>1. c.function = "set_research"
    BY <1>1, <1>7, CallsMade, Zenon
  <2>2. proposal.target = Str("pottery")
    BY <1>1, <1>7 DEF HumanCould
  <2>3. c.arguments = <<Str("pottery")>>
    BY <1>3, <1>r, <1>7, <2>2
  <2> HIDE DEF c
  <2>4. Done(c).tech = "pottery"
    BY <1>2, <2>1, <2>3 DEF Done, Games
  <2>5. QED
    BY <2>2, <2>4
<1>8. ASSUME proposal.action = <<"prompts", "declare_war_response">>
      PROVE  Done(c).screen # <<"prompt", "declare_war_response">>
  <2>1. c.function = "respond" /\ c.arguments # <<>> /\ c.arguments[1] = Id(<<"prompt", "declare_war_response">>)
    BY <1>1, <1>8, CallsMade
  <2> HIDE DEF c
  <2>2. QED
    BY <1>2, <2>1 DEF Done, Games, Id
<1>9. QED
  BY <1>4, <1>5, <1>6, <1>7, <1>8

----------------------------------------------------------------------------
(* The state machine.                                                      *)

(* Of the places not read yet one is the first. *)
LEMMA FirstPlace ==
    ASSUME NEW S, S \subseteq Nat \X Nat, S # {}
    PROVE  \E p \in S : \A q \in S : Precedes(p, q)
<1> DEFINE files == {p[1] : p \in S}
<1>1. PICK f \in files : \A g \in files : f <= g
  <2>1. files \subseteq Nat /\ files # {}
    OBVIOUS
  <2> HIDE DEF files
  <2>2. QED
    BY <2>1, LeastNat
<1> DEFINE entries == {p[2] : p \in {q \in S : q[1] = f}}
<1>2. PICK e \in entries : \A i \in entries : e <= i
  <2>1. entries \subseteq Nat /\ entries # {}
    OBVIOUS
  <2> HIDE DEF entries
  <2>2. QED
    BY <2>1, LeastNat
<1>3. PICK p \in S : p[1] = f /\ p[2] = e
  OBVIOUS
<1>4. ASSUME NEW q \in S PROVE Precedes(p, q)
  <2>1. f <= q[1]
    BY <1>1
  <2>2. q[1] = f => e <= q[2]
    BY <1>2
  <2>3. p[1] \in Nat /\ q[1] \in Nat /\ p[2] \in Nat /\ q[2] \in Nat
    OBVIOUS
  <2>4. QED
    BY <1>3, <2>1, <2>2, <2>3 DEF Precedes
<1>5. QED
  BY <1>4

(* The declaration that is read next is one that was not read.             *)
LEMMA NextIsUnread ==
    ASSUME CatalogOK(catalog), Unread # {}
    PROVE  NextRead \in Unread
<1> DEFINE unread == {i \in DOMAIN catalog.order : catalog.order[i] \in Unread}
           first == CHOOSE i \in unread : \A j \in unread : Precedes(i, j)
<1>1. unread \subseteq Nat \X Nat
  BY DEF CatalogOK
<1>2. unread # {}
  BY DEF Unread, Observables, Range
<1> HIDE DEF unread
<1>3. \E i \in unread : \A j \in unread : Precedes(i, j)
  BY <1>1, <1>2, FirstPlace, Zenon
<1>4. first \in unread
  BY <1>3, Zenon
<1> HIDE DEF first
<1>5. NextRead = catalog.order[first]
  BY DEF NextRead, first, unread
<1>6. QED
  BY <1>4, <1>5 DEF unread

----------------------------------------------------------------------------
(* What a verdict says of the decision it is the judgement of. *)
LEMMA JudgementTells ==
    ASSUME NEW p
    PROVE  LET action == IF Declared(catalog, p.action)
                         THEN catalog.declarations[p.action].kind = "action" ELSE FALSE
               ours == IF action THEN Authorized(catalog, p.action, "InGame") ELSE FALSE
               v == Judgement(p)
           IN  /\ v \in {"authorized"} \cup (Reasons \ {"none", "verification_failed"})
               /\ v = "not_in_catalog" <=> ~action
               /\ v = "illegal_in_context" <=> action /\ ~ours
               /\ v = "unavailable_to_human_now" => p.action \notin CameraActions
               /\ v = "out_of_parity_camera" => p.action \in CameraActions
<1> DEFINE declared == Declared(catalog, p.action)
           acts == catalog.declarations[p.action].kind = "action"
           ours == Authorized(catalog, p.action, "InGame")
           available == Available(p.action, Bindings(board, p.target, <<>>))
           seen == Available(p.action, [target |-> p.target])
           camera == p.action \in CameraActions
<1>1. DispatchAction(p) =
         IF ~declared THEN "not_in_catalog"
         ELSE IF ~acts THEN "not_in_catalog"
         ELSE IF ~ours THEN "illegal_in_context"
         ELSE IF available THEN "authorized" ELSE "unavailable_to_human_now"
  BY DEF DispatchAction
<1>2. ValidateCamera(p) = IF seen THEN "authorized" ELSE "out_of_parity_camera"
  BY DEF ValidateCamera
<1>3. Judgement(p) =
         IF camera /\ DispatchAction(p) \notin {"not_in_catalog", "illegal_in_context"}
         THEN ValidateCamera(p) ELSE DispatchAction(p)
  BY DEF Judgement
<1> HIDE DEF declared, acts, ours, available, seen, camera
<1>4. QED
  BY <1>1, <1>2, <1>3 DEF Reasons, declared, acts, ours, camera

(* What the game does with a call, and on its own, leaves it a game. *)
LEMMA GameStays ==
    ASSUME game \in Games
    PROVE  (\A c : Done(c) \in Games) /\ Moves \subseteq Games
<1>1. ASSUME NEW c PROVE Done(c) \in Games
  BY DEF Done, Games, Screens
<1>2. Moves \subseteq Games
  <2>1. ASSUME NEW s \in Screens PROVE [game EXCEPT !.screen = s] \in Games
    BY <2>1 DEF Games
  <2>2. ASSUME NEW r \in {"war", "gone"} PROVE [game EXCEPT !.rival = r] \in Games
    BY <2>2 DEF Games
  <2>3. [game EXCEPT !.person = IF @ = "free" THEN "taken" ELSE @] \in Games
    BY DEF Games
  <2>4. [game EXCEPT !.turn = @ + 1, !.mine = TRUE] \in Games
    <3>1. game.turn + 1 \in Int
      BY DEF Games
    <3>2. QED
      BY <3>1 DEF Games
  <2>5. QED
    BY <2>1, <2>2, <2>3, <2>4 DEF Moves, Screens
<1>3. QED
  BY <1>1, <1>2

(* A board that is whole and genuine is complete. *)
LEMMA WholeIsComplete ==
    ASSUME DispatchInv
    PROVE  BoardComplete
<1>1. pc \in {"routing", "deciding", "executing", "verifying"} => DOMAIN board = Observables(catalog)
  BY DEF DispatchInv, WholeBoard, Pending
<1>2. ASSUME NEW id \in DOMAIN board
      PROVE  Is(board[id], {"rec"}) /\ DOMAIN board[id][2] # {}
  <2> DEFINE Filled(v) == \E fields : v = Rec(fields) /\ DOMAIN fields # {}
  <2>1. Filled(board[id])
    <3>1. (\A s : Filled(ScreenState(s, IsPrompt(s)))) /\ \A n, mine : Filled(TurnState(n, mine))
      BY DEF ScreenState, TurnState
    <3>2. /\ \A rival : Filled(Relations(rival))
          /\ \A person : Filled(People(person))
          /\ \A tech : Filled(Research(tech))
      BY DEF Relations, People, Research
    <3> HIDE DEF Filled
    <3>3. Genuine(board)
      BY DEF DispatchInv
    <3>4. \/ \E s \in Screens : board[id] = ScreenState(s, IsPrompt(s))
          \/ \E n \in Int, mine \in BOOLEAN : board[id] = TurnState(n, mine)
          \/ \E rival \in {"peace", "war", "gone"} : board[id] = Relations(rival)
          \/ \E person \in {"free", "taken", "ours"} : board[id] = People(person)
          \/ \E tech \in {"none", "pottery"} : board[id] = Research(tech)
      BY <1>2, <3>3, Zenon DEF Genuine
    <3>5. QED
      BY <3>1, <3>2, <3>4, Zenon
  <2>2. QED
    BY <2>1 DEF Is, Rec
<1>3. ASSUME DiplomacyId \in DOMAIN board,
             NEW i \in DOMAIN Field(board[DiplomacyId], "relations")[2]
      PROVE  Field(Field(board[DiplomacyId], "relations")[2][i], "player_id") # Null
  <2>1. PICK rival \in {"peace", "war", "gone"} : board[DiplomacyId] = Relations(rival)
    <3>1. DiplomacyId # ScreenId /\ DiplomacyId # TurnId /\ DiplomacyId # PeopleId /\ DiplomacyId # ResearchId
      BY DEF DiplomacyId, ScreenId, TurnId, PeopleId, ResearchId
    <3>2. QED
      BY <1>3, <3>1, Zenon DEF DispatchInv, Genuine
  <2>2. Field(Relations(rival), "relations") = List(IF rival = "gone" THEN <<>> ELSE <<Relation(Rival, rival)>>)
    BY DEF Relations, Field, Rec, Is
  <2>3. rival # "gone" /\ Field(board[DiplomacyId], "relations")[2] = <<Relation(Rival, rival)>> /\ i = 1
    BY <1>3, <2>1, <2>2 DEF List
  <2>4. Field(Relation(Rival, rival), "player_id") = Rival
    BY DEF Relation, Field, Rec, Is
  <2>5. QED
    BY <2>3, <2>4 DEF Rival, Whole, Num, Null
<1>4. QED
  BY <1>1, <1>2, <1>3, Zenon DEF BoardComplete, DiplomacyId

(* Every action but Load leaves the files and the catalog alone. *)
LEMMA OnlyLoadLoads ==
    ASSUME DispatchNext, ~Load
    PROVE  UNCHANGED <<root, catalog>>
BY DEF DispatchNext, ReadDeclaration, ReadRaises, Assemble, RoutePrompt, Decide, Execute,
       ExecuteRaises, RecordStep, GameMoves

(* The files stay those of a root, and what is loaded is what the loader   *)
(* lets through.                                                           *)
CatalogInv == root \in Roots /\ CatalogOK(catalog)

(* The files under catalogs/ do not change and the catalog is one the      *)
(* loader let through.                                                     *)
THEOREM DispatchCatalogInv == DispatchSpec => []CatalogInv
<1>1. DispatchInit => CatalogInv
  BY NoCatalogOK DEF DispatchInit, CatalogInv
<1>2. CatalogInv /\ [DispatchNext]_dispatchVars => CatalogInv'
  <2> SUFFICES ASSUME CatalogInv, [DispatchNext]_dispatchVars PROVE CatalogInv'
    OBVIOUS
  <2>1. CASE Load
    <3>1. root' = root /\ (catalog' = catalog \/ (LoadsCatalog(root) /\ catalog' = LoadedCatalog(root)))
      BY <2>1 DEF Load
    <3>2. LoadsCatalog(root) => CatalogOK(LoadedCatalog(root))
      BY LoadedOK DEF CatalogInv
    <3>3. QED
      BY <3>1, <3>2 DEF CatalogInv
  <2>2. CASE DispatchNext /\ ~Load
    BY <2>2, OnlyLoadLoads DEF CatalogInv
  <2>3. CASE UNCHANGED dispatchVars
    BY <2>3 DEF CatalogInv, dispatchVars
  <2>4. QED
    BY <2>1, <2>2, <2>3
<1>3. QED
  BY <1>1, <1>2, PTL DEF DispatchSpec

(* For whatever is under catalogs/: what load_catalog lets through has what*)
(* the code behind it takes for granted, in every state of a run, and the  *)
(* capabilities audit finds nothing on it.                                 *)
THEOREM DispatchLoadedServes == DispatchSpec => []LoadedServes
<1>1. CatalogInv => LoadedServes
  BY ServesCatalog DEF CatalogInv
<1>2. QED
  BY <1>1, DispatchCatalogInv, PTL

----------------------------------------------------------------------------
(* The invariant, one action at a time. *)

(* The invariant holds at the start.                                       *)
LEMMA InitInv ==
    ASSUME DispatchInit
    PROVE  DispatchInv
<1>1. game \in Games /\ root \in Roots
  <2>1. <<"screen", "world">> \in Screens
    BY DEF Screens
  <2>2. QED
    BY <2>1 DEF Games, DispatchInit
<1>2. DispatchTypeOK
  BY DispatchAssumption DEF DispatchInit, DispatchTypeOK, Reasons, NoRecord
<1>3. Catalogued
  BY NoCatalogOK DEF DispatchInit, Catalogued, NoCatalog
<1>4. Unloaded /\ WholeBoard /\ Pending
  BY DEF DispatchInit, Unloaded, WholeBoard, Pending
<1>5. Genuine(board) /\ Genuine(fresh)
  BY DEF DispatchInit, Genuine
<1>6. RecordIsShown
  BY DEF DispatchInit, RecordIsShown, VerifiedAsShown, RecordTellsTruth, NoRecord
<1>7. QED
  BY <1>1, <1>2, <1>3, <1>4, <1>5, <1>6 DEF DispatchInv

(* load_catalog: the entries of a root that loads are as shipped.          *)
LEMMA LoadKeeps ==
    ASSUME OnlyShipped(Roots), DispatchInv, Load
    PROVE  DispatchInv'
<1>1. /\ pc = "loading" /\ pc' \in {"reading", "catalog_refused"}
      /\ \/ catalog' = catalog
         \/ LoadsCatalog(root) /\ catalog' = LoadedCatalog(root)
      /\ UNCHANGED <<root, game, moves, board, fresh, proposal, verdict, call, record, steps>>
  BY DEF Load
<1>2. proposal = NoProposal /\ record = NoRecord /\ fresh = <<>> /\ board = <<>>
  BY <1>1 DEF DispatchInv, Unloaded
<1>3. Catalogued'
  <2>1. CASE catalog' = catalog
    BY <2>1 DEF DispatchInv, Catalogued
  <2>2. CASE LoadsCatalog(root) /\ catalog' = LoadedCatalog(root)
    <3>1. root \in Roots
      BY DEF DispatchInv
    <3>2. /\ CatalogOK(LoadedCatalog(root))
          /\ \A id \in DOMAIN LoadedCatalog(root).declarations :
                LoadedCatalog(root).declarations[id] \in Range(Entries(root.declarations))
      BY <2>2, <3>1, LoadedOK
    <3>3. \A d \in Range(Entries(root.declarations)) : AsShipped(d)
      BY <2>2, <3>1 DEF OnlyShipped
    <3>4. QED
      BY <2>2, <3>2, <3>3 DEF Catalogued
  <2>3. QED
    BY <1>1, <2>1, <2>2
<1>4. DispatchTypeOK' /\ game' \in Games /\ root' \in Roots
  BY <1>1, <1>2 DEF DispatchInv, DispatchTypeOK
<1>5. Unloaded' /\ WholeBoard' /\ Pending'
  BY <1>1, <1>2 DEF DispatchInv, Unloaded, WholeBoard, Pending
<1>6. Genuine(board)' /\ Genuine(fresh)'
  BY <1>1 DEF DispatchInv
<1>7. RecordIsShown'
  BY <1>1, <1>2 DEF RecordIsShown, VerifiedAsShown, RecordTellsTruth, NoRecord
<1>8. QED
  BY <1>3, <1>4, <1>5, <1>6, <1>7 DEF DispatchInv

(* What a step keeps that leaves the catalog, and the record, alone. *)
LEMMA CatalogKept ==
    ASSUME DispatchInv, UNCHANGED <<root, catalog>>
    PROVE  Catalogued' /\ root' \in Roots
BY DEF DispatchInv, Catalogued

(* A record stays true while the catalog does not change.                  *)
LEMMA RecordKept ==
    ASSUME RecordIsShown, UNCHANGED <<catalog, record>>
    PROVE  RecordIsShown'
<1>1. VerifiedAsShown'
  BY DEF RecordIsShown, VerifiedAsShown
<1>2. RecordTellsTruth'
  BY DEF RecordIsShown, RecordTellsTruth
<1>3. QED
  BY <1>1, <1>2 DEF RecordIsShown

(* A judgement stays what it was on the same board.                        *)
LEMMA JudgementKept ==
    ASSUME UNCHANGED <<catalog, board>>, NEW p
    PROVE  Judgement(p)' = Judgement(p)
BY DEF Judgement, DispatchAction, ValidateCamera, Available

(* A read adds an entry that is genuine, under an id that was not read, or *)
(* none.                                                                   *)
LEMMA ReadKeeps ==
    ASSUME DispatchInv, ReadDeclaration
    PROVE  DispatchInv'
<1>1. /\ pc = "reading" /\ pc' \in {"reading", "observation_failed"}
      /\ UNCHANGED <<root, catalog, game, moves, board, proposal, verdict, call, record, steps>>
  BY DEF ReadDeclaration, Reading
<1>2. Genuine(fresh') /\ DOMAIN fresh' \subseteq Observables(catalog)
  <2>1. CASE fresh' = fresh
    BY <2>1 DEF DispatchInv, WholeBoard
  <2>2. CASE \E value \in {ValueOf(NextRead)} \cup Malformed(NextRead) :
                Accepted(NextRead, value) /\ fresh' = Joined([i \in {NextRead} |-> value], fresh)
    <3> DEFINE d == catalog.declarations[NextRead]
    <3>1. NextRead \in Unread
      BY NextIsUnread DEF DispatchInv, Catalogued, ReadDeclaration, Reading
    <3>2. NextRead \in Observables(catalog)
      BY <3>1 DEF Unread
    <3>3. NextRead \in DOMAIN catalog.declarations /\ d.kind = "observation"
      BY <3>2, Zenon DEF Observables, DispatchInv, Catalogued, CatalogOK
    <3>4. AsShipped(d) /\ d.id = NextRead
      BY <3>3, Zenon DEF DispatchInv, Catalogued, CatalogOK
    <3>5. PICK value \in {ValueOf(NextRead)} \cup Malformed(NextRead) :
             Accepted(NextRead, value) /\ fresh' = Joined([i \in {NextRead} |-> value], fresh)
      BY <2>2
    <3> DEFINE one == [i \in {NextRead} |-> value]
    <3>6. Genuine(one)
      BY <3>3, <3>4, <3>5, AnswerGenuine DEF DispatchInv
    <3>7. Genuine(fresh) /\ DOMAIN fresh \subseteq Observables(catalog) /\ DOMAIN one = {NextRead}
      BY DEF DispatchInv, WholeBoard
    <3> HIDE DEF one
    <3>8. Genuine(Joined(one, fresh)) /\ DOMAIN Joined(one, fresh) = DOMAIN one \cup DOMAIN fresh
      BY <3>6, <3>7, JoinedGenuine, Zenon
    <3>9. QED
      BY <3>2, <3>5, <3>7, <3>8 DEF one
  <2>3. QED
    BY <2>1, <2>2 DEF ReadDeclaration
<1>3. DispatchTypeOK' /\ game' \in Games
  BY <1>1, <1>2 DEF DispatchInv, DispatchTypeOK
<1>4. Unloaded' /\ WholeBoard'
  BY <1>1, <1>2 DEF DispatchInv, Unloaded, WholeBoard
<1>5. Pending'
  BY <1>1, JudgementKept DEF DispatchInv, Pending
<1>6. Genuine(board)' /\ Genuine(fresh)'
  BY <1>1, <1>2 DEF DispatchInv
<1>7. QED
  BY <1>1, <1>3, <1>4, <1>5, <1>6, CatalogKept, RecordKept DEF DispatchInv

(* An error ends the run where it is. *)
LEMMA RaiseKeeps ==
    ASSUME DispatchInv, ReadRaises \/ ExecuteRaises
    PROVE  DispatchInv'
<1>1. /\ pc \in {"reading", "executing"} /\ pc' = "raised"
      /\ UNCHANGED <<root, catalog, game, moves, board, fresh, proposal, verdict, call, record, steps>>
  BY DEF ReadRaises, ExecuteRaises, Reading
<1>2. DispatchTypeOK' /\ game' \in Games
  BY <1>1 DEF DispatchInv, DispatchTypeOK
<1>3. Unloaded' /\ WholeBoard'
  BY <1>1 DEF DispatchInv, Unloaded, WholeBoard
<1>4. Pending'
  BY <1>1, JudgementKept DEF DispatchInv, Pending
<1>5. Genuine(board)' /\ Genuine(fresh)'
  BY <1>1 DEF DispatchInv
<1>6. QED
  BY <1>1, <1>2, <1>3, <1>4, <1>5, CatalogKept, RecordKept DEF DispatchInv

(* A board is whole when it is assembled.                                  *)
LEMMA AssembleKeeps ==
    ASSUME DispatchInv, Assemble
    PROVE  DispatchInv'
<1>1. /\ pc = "reading" /\ DOMAIN fresh = Observables(catalog)
      /\ \/ proposal = NoProposal /\ pc' = "routing" /\ board' = fresh /\ fresh' = <<>>
         \/ proposal # NoProposal /\ pc' = "verifying" /\ UNCHANGED <<board, fresh>>
      /\ UNCHANGED <<root, catalog, game, moves, proposal, verdict, call, record, steps>>
  BY DEF Assemble, Unread, DispatchInv, WholeBoard
<1>2. DispatchTypeOK' /\ game' \in Games
  BY <1>1 DEF DispatchInv, DispatchTypeOK
<1>3. Unloaded' /\ WholeBoard'
  BY <1>1 DEF DispatchInv, Unloaded, WholeBoard
<1>4. Pending'
  <2>1. CASE proposal = NoProposal
    BY <1>1, <2>1 DEF DispatchInv, Pending
  <2>2. CASE proposal # NoProposal
    BY <1>1, <2>2, JudgementKept DEF DispatchInv, Pending
  <2>3. QED
    BY <2>1, <2>2
<1>5. Genuine(board)' /\ Genuine(fresh)'
  <2>1. Genuine(<<>>)
    BY DEF Genuine
  <2>2. QED
    BY <1>1, <2>1 DEF DispatchInv
<1>6. QED
  BY <1>1, <1>2, <1>3, <1>4, <1>5, CatalogKept, RecordKept DEF DispatchInv

(* Routing changes nothing.                                                *)
LEMMA RouteKeeps ==
    ASSUME DispatchInv, RoutePrompt
    PROVE  DispatchInv'
<1>1. /\ pc = "routing" /\ pc' \in {"unknown_screen", "catalog_error", "deciding"}
      /\ UNCHANGED <<root, catalog, game, moves, board, fresh, proposal, verdict, call, record, steps>>
  BY DEF RoutePrompt
<1>2. proposal = NoProposal
  BY <1>1 DEF DispatchInv, Pending
<1>3. DispatchTypeOK' /\ game' \in Games
  BY <1>1 DEF DispatchInv, DispatchTypeOK
<1>4. Unloaded' /\ WholeBoard' /\ Pending'
  BY <1>1, <1>2 DEF DispatchInv, Unloaded, WholeBoard, Pending
<1>5. Genuine(board)' /\ Genuine(fresh)'
  BY <1>1 DEF DispatchInv
<1>6. QED
  BY <1>1, <1>3, <1>4, <1>5, CatalogKept, RecordKept DEF DispatchInv

(* A decision leaves the verdict on it.                                    *)
LEMMA DecideKeeps ==
    ASSUME DispatchInv, Decide
    PROVE  DispatchInv'
<1>1. /\ pc = "deciding" /\ steps < MaxSteps /\ steps' = steps + 1
      /\ proposal' \in Proposals /\ verdict' = Judgement(proposal')
      /\ pc' = IF verdict' = "authorized" THEN "executing" ELSE "reading"
      /\ call' = NotSent /\ record' = NoRecord
      /\ UNCHANGED <<root, catalog, game, moves, board, fresh>>
  BY DEF Decide
<1>2. proposal' # NoProposal
  <2>1. proposal'.action # <<"none", "none">>
    BY <1>1, ProposalsAssumption, Zenon
  <2>2. QED
    BY <2>1 DEF NoProposal
<1>3. verdict' \in {"authorized"} \cup (Reasons \ {"none", "verification_failed"})
  BY <1>1, JudgementTells
<1>4. verdict' = Judgement(proposal)'
  BY <1>1 DEF Judgement, DispatchAction, ValidateCamera, Available
<1>5. DispatchTypeOK' /\ game' \in Games
  <2>1. steps' \in 0..MaxSteps
    BY <1>1, DispatchAssumption DEF DispatchInv, DispatchTypeOK
  <2>2. QED
    BY <1>1, <1>3, <2>1 DEF DispatchInv, DispatchTypeOK, NoRecord, Reasons
<1>6. Unloaded' /\ WholeBoard'
  BY <1>1 DEF DispatchInv, Unloaded, WholeBoard
<1>7. Pending'
  BY <1>1, <1>2, <1>4 DEF Pending
<1>8. Genuine(board)' /\ Genuine(fresh)'
  BY <1>1 DEF DispatchInv
<1>9. RecordIsShown'
  BY <1>1 DEF RecordIsShown, VerifiedAsShown, RecordTellsTruth, NoRecord
<1>10. QED
  BY <1>1, <1>5, <1>6, <1>7, <1>8, <1>9, CatalogKept DEF DispatchInv

(* Only what is authorized is sent, and sending leaves a call.             *)
LEMMA ExecuteKeeps ==
    ASSUME DispatchInv, Execute
    PROVE  DispatchInv'
<1>1. /\ pc = "executing" /\ pc' = "reading" /\ call' = CallOf(proposal)
      /\ game' \in {game, Done(call')}
      /\ UNCHANGED <<root, catalog, moves, board, fresh, proposal, verdict, record, steps>>
  BY DEF Execute
<1>2. /\ proposal \in Proposals /\ proposal # NoProposal
      /\ verdict = "authorized" /\ Judgement(proposal) = "authorized"
  BY <1>1 DEF DispatchInv, Pending
<1>3. call' # NotSent
  BY <1>1, <1>2, CallSent DEF DispatchInv
<1>4. game' \in Games
  BY <1>1, GameStays DEF DispatchInv
<1>5. DispatchTypeOK'
  BY <1>1 DEF DispatchInv, DispatchTypeOK
<1>6. Unloaded' /\ WholeBoard'
  BY <1>1 DEF DispatchInv, Unloaded, WholeBoard
<1>7. Pending'
  BY <1>1, <1>2, <1>3, JudgementKept DEF Pending
<1>8. Genuine(board)' /\ Genuine(fresh)'
  BY <1>1 DEF DispatchInv
<1>9. QED
  BY <1>1, <1>4, <1>5, <1>6, <1>7, <1>8, CatalogKept, RecordKept DEF DispatchInv

(* What is recorded is what was judged, sent and seen.                     *)
LEMMA RecordKeeps ==
    ASSUME DispatchInv, RecordStep
    PROVE  DispatchInv'
<1>1. /\ pc = "verifying" /\ pc' = "routing"
      /\ record' = [proposal |-> proposal, outcome |-> Execution.outcome,
                    reason |-> Execution.reason, call |-> call, before |-> board, after |-> fresh]
      /\ board' = fresh /\ fresh' = <<>>
      /\ proposal' = NoProposal /\ verdict' = "none" /\ call' = NotSent
      /\ UNCHANGED <<root, catalog, game, moves, steps>>
  BY DEF RecordStep
<1>2. /\ proposal \in Proposals /\ verdict = Judgement(proposal)
      /\ call # NotSent <=> verdict = "authorized"
      /\ DOMAIN board = Observables(catalog) /\ DOMAIN fresh = Observables(catalog)
  BY <1>1 DEF DispatchInv, Pending, WholeBoard
<1>3. /\ verdict \in {"authorized"} \cup (Reasons \ {"none", "verification_failed"})
      /\ Execution.outcome \in {"applied", "rejected"} /\ Execution.reason \in Reasons
      /\ Execution.reason \in {"none", "verification_failed"} <=> verdict = "authorized"
      /\ Execution.outcome = "applied" <=> verdict = "authorized" /\ Confirmed
      /\ verdict # "authorized" => Execution.reason = verdict
  <2>1. verdict \in {"authorized"} \cup (Reasons \ {"none", "verification_failed"})
    BY <1>2, JudgementTells
  <2>2. CASE verdict = "authorized" /\ Confirmed
    BY <2>1, <2>2 DEF Execution, Verified, Reasons
  <2>3. CASE verdict = "authorized" /\ ~Confirmed
    BY <2>1, <2>3 DEF Execution, Verified, Reasons
  <2>4. CASE verdict # "authorized"
    BY <2>1, <2>4 DEF Execution
  <2>5. QED
    BY <2>1, <2>2, <2>3, <2>4
<1>4. VerifiedAsShown'
  <2>1. verdict = "authorized" => (Confirmed <=> EffectShown(proposal, board, fresh))
    BY <1>2, ConfirmedAsShown DEF DispatchInv
  <2>2. /\ record'.proposal = proposal /\ record'.outcome = Execution.outcome /\ record'.call = call
        /\ record'.before = board /\ record'.after = fresh
    BY <1>1
  <2>3. record'.outcome = "applied" <=>
          record'.call # NotSent /\ EffectShown(record'.proposal, record'.before, record'.after)
    BY <1>2, <1>3, <2>1, <2>2
  <2>4. QED
    BY <2>3 DEF VerifiedAsShown
<1>5. RecordTellsTruth'
  <2> DEFINE id == proposal.action
             action == IF Declared(catalog, id) THEN catalog.declarations[id].kind = "action" ELSE FALSE
             ours == IF action THEN Authorized(catalog, id, "InGame") ELSE FALSE
  <2>1. /\ verdict = "not_in_catalog" <=> ~action
        /\ verdict = "illegal_in_context" <=> action /\ ~ours
        /\ verdict = "unavailable_to_human_now" => id \notin CameraActions
        /\ verdict = "out_of_parity_camera" => id \in CameraActions
    BY <1>2, JudgementTells
  <2>2. /\ record'.proposal = proposal /\ record'.reason = Execution.reason /\ record'.call = call
    BY <1>1
  <2> HIDE DEF action, ours
  <2>3. /\ record'.reason \in {"none", "verification_failed"} <=> record'.call # NotSent
        /\ record'.reason = "not_in_catalog" <=> ~action
        /\ record'.reason = "illegal_in_context" <=> action /\ ~ours
        /\ record'.reason = "unavailable_to_human_now" => id \notin CameraActions
        /\ record'.reason = "out_of_parity_camera" => id \in CameraActions
    BY <1>2, <1>3, <2>1, <2>2
  <2>4. QED
    BY <1>1, <2>2, <2>3 DEF RecordTellsTruth, action, ours
<1>6. DispatchTypeOK' /\ game' \in Games
  BY <1>1, <1>3 DEF DispatchInv, DispatchTypeOK, Reasons
<1>7. Unloaded' /\ WholeBoard' /\ Pending'
  BY <1>1, <1>2 DEF Unloaded, WholeBoard, Pending
<1>8. Genuine(board)' /\ Genuine(fresh)'
  <2>1. Genuine(<<>>)
    BY DEF Genuine
  <2>2. QED
    BY <1>1, <2>1 DEF DispatchInv
<1>9. QED
  BY <1>1, <1>4, <1>5, <1>6, <1>7, <1>8, CatalogKept DEF DispatchInv, RecordIsShown

(* The game may move under a board, and the board stays what was read.     *)
LEMMA MoveKeeps ==
    ASSUME DispatchInv, GameMoves
    PROVE  DispatchInv'
<1>1. /\ moves < MaxMoves /\ moves' = moves + 1 /\ game' \in Moves
      /\ UNCHANGED <<root, pc, catalog, board, fresh, proposal, verdict, call, record, steps>>
  BY DEF GameMoves
<1>2. game' \in Games
  BY <1>1, GameStays DEF DispatchInv
<1>3. DispatchTypeOK'
  <2>1. moves' \in 0..MaxMoves
    BY <1>1, DispatchAssumption DEF DispatchInv, DispatchTypeOK
  <2>2. QED
    BY <1>1, <2>1 DEF DispatchInv, DispatchTypeOK
<1>4. Unloaded' /\ WholeBoard'
  BY <1>1 DEF DispatchInv, Unloaded, WholeBoard
<1>5. Pending'
  BY <1>1, JudgementKept DEF DispatchInv, Pending
<1>6. Genuine(board)' /\ Genuine(fresh)'
  BY <1>1 DEF DispatchInv
<1>7. QED
  BY <1>1, <1>2, <1>3, <1>4, <1>5, <1>6, CatalogKept, RecordKept DEF DispatchInv

(* The inductive invariant, for every root whose entries are as shipped.   *)
THEOREM DispatchInvariant ==
    ASSUME OnlyShipped(Roots)
    PROVE  DispatchSpec => []DispatchInv
<1>1. DispatchInit => DispatchInv
  BY InitInv
<1>2. DispatchInv /\ [DispatchNext]_dispatchVars => DispatchInv'
  <2> SUFFICES ASSUME DispatchInv, [DispatchNext]_dispatchVars PROVE DispatchInv'
    OBVIOUS
  <2>1. CASE Load
    BY <2>1, LoadKeeps
  <2>2. CASE ReadDeclaration
    BY <2>2, ReadKeeps
  <2>3. CASE ReadRaises \/ ExecuteRaises
    BY <2>3, RaiseKeeps
  <2>4. CASE Assemble
    BY <2>4, AssembleKeeps
  <2>5. CASE RoutePrompt
    BY <2>5, RouteKeeps
  <2>6. CASE Decide
    BY <2>6, DecideKeeps
  <2>7. CASE Execute
    BY <2>7, ExecuteKeeps
  <2>8. CASE RecordStep
    BY <2>8, RecordKeeps
  <2>9. CASE GameMoves
    BY <2>9, MoveKeeps
  <2>10. CASE UNCHANGED dispatchVars
    <3>1. UNCHANGED <<root, pc, catalog, game, moves, board, fresh, proposal, verdict, call, record, steps>>
      BY <2>10 DEF dispatchVars
    <3>2. DispatchTypeOK' /\ Unloaded' /\ WholeBoard'
      BY <3>1 DEF DispatchInv, DispatchTypeOK, Unloaded, WholeBoard
    <3>3. Pending'
      BY <3>1, JudgementKept DEF DispatchInv, Pending
    <3>4. QED
      BY <3>1, <3>2, <3>3, CatalogKept, RecordKept DEF DispatchInv
  <2>11. QED
    BY <2>1, <2>2, <2>3, <2>4, <2>5, <2>6, <2>7, <2>8, <2>9, <2>10 DEF DispatchNext
<1>3. QED
  BY <1>1, <1>2, PTL DEF DispatchSpec

(* A board is whole, and what is executed a human could have done on it:   *)
(* for every game, proposal and answer of the Lua side.                    *)
THEOREM DispatchEvidence ==
    ASSUME OnlyShipped(Roots)
    PROVE  DispatchSpec => []EvidenceHolds
<1>1. DispatchInv => EvidenceHolds
  <2> SUFFICES ASSUME DispatchInv PROVE EvidenceHolds
    OBVIOUS
  <2>1. DispatchTypeOK /\ BoardComplete
    BY WholeIsComplete DEF DispatchInv
  <2>2. ASSUME pc = "executing" PROVE HumanCould(proposal, board)
    <3>1. proposal \in Proposals /\ Judgement(proposal) = "authorized"
      BY <2>2 DEF DispatchInv, Pending
    <3>2. QED
      BY <3>1, AuthorizedCould DEF DispatchInv
  <2>3. QED
    BY <2>1, <2>2 DEF EvidenceHolds, AuthorizedOnEvidence
<1>2. QED
  BY <1>1, DispatchInvariant, PTL

(* What is recorded of an execution is what was sent and what the board    *)
(* after it shows.                                                         *)
THEOREM DispatchRecords ==
    ASSUME OnlyShipped(Roots)
    PROVE  DispatchSpec => []RecordIsShown
<1>1. DispatchInv => RecordIsShown
  BY DEF DispatchInv
<1>2. QED
  BY <1>1, DispatchInvariant, PTL

(* A call the game obeys does what the decision means.                     *)
THEOREM DispatchCalls ==
    ASSUME OnlyShipped(Roots)
    PROVE  DispatchSpec => CallDoesItsAction
<1> DEFINE Means ==
      pc = "executing" /\ pc' = "reading" /\ proposal.extra = <<>>
      /\ ~Is(proposal.target, {"bool"}) =>
          CASE proposal.action = <<"turn", "end_turn">> -> ~Done(call').mine
            [] proposal.action = <<"diplomacy", "declare_war">> -> Done(call').rival # "peace"
            [] proposal.action = <<"diplomacy", "make_peace">> -> Done(call').rival # "war"
            [] proposal.action = <<"research", "set_tech">> -> Str(Done(call').tech) = proposal.target
            [] proposal.action = <<"prompts", "declare_war_response">> ->
                  Done(call').screen # <<"prompt", "declare_war_response">>
            [] OTHER -> TRUE
<1>1. DispatchInv /\ [DispatchNext]_dispatchVars => [Means]_dispatchVars
  <2> SUFFICES ASSUME DispatchInv, DispatchNext, pc = "executing", pc' = "reading", proposal.extra = <<>>,
                      ~Is(proposal.target, {"bool"})
               PROVE  Means
    OBVIOUS
  <2>1. Execute
    BY DEF DispatchNext, Load, ReadDeclaration, Reading, ReadRaises, Assemble, RoutePrompt, Decide,
           ExecuteRaises, RecordStep, GameMoves
  <2>2. call' = CallOf(proposal)
    BY <2>1 DEF Execute
  <2>3. proposal \in Proposals /\ Judgement(proposal) = "authorized"
    BY DEF DispatchInv, Pending
  <2>4. /\ proposal.action = <<"turn", "end_turn">> => ~Done(call').mine
        /\ proposal.action = <<"diplomacy", "declare_war">> => Done(call').rival # "peace"
        /\ proposal.action = <<"diplomacy", "make_peace">> => Done(call').rival # "war"
        /\ proposal.action = <<"research", "set_tech">> => Str(Done(call').tech) = proposal.target
        /\ proposal.action = <<"prompts", "declare_war_response">> =>
              Done(call').screen # <<"prompt", "declare_war_response">>
    BY <2>2, <2>3, CallDoes DEF DispatchInv
  <2>5. QED
    BY <2>4
<1>2. QED
  BY <1>1, DispatchInvariant, PTL DEF DispatchSpec, CallDoesItsAction
=============================================================================
