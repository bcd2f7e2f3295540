------------------------- MODULE Preparation_proofs -------------------------
(***************************************************************************)
(* What a start keeps for every document, seed set, host and setup, with   *)
(* any number of failing calls and whatever the operator and `doctor' do   *)
(* at the client meanwhile: it leaves nothing held unless it plays, no run *)
(* stands on what it was not cleared for, and how the start ended is       *)
(* recorded as it was.                                                     *)
(***************************************************************************)
EXTENDS Preparation, TLAPS

(* The start's steps, by what has happened before them. *)
Offline == {"begin", "preflight", "connect", "refused", "raised"}
Fetched == {"pin", "source", "load", "create"}
Reported == {"record_branch", "refresh_loaded", "claim", "read", "judge", "announce", "play",
             "fail", "announce_failed", "failing", "playing", "failed"}
Verified == {"announce", "play", "playing"}
Refuted == {"fail", "announce_failed", "failing", "failed"}
Secured == {"read", "judge"} \cup Verified \cup (Refuted \ {"failed"})

(* The types of everything the start reads and holds. *)
Answers == [Getters -> Readings]
Taken == {<<>>} \cup Answers
Games == [phase : Phases, setup : Answers, timer : Timers, at : Nat]
Preps == [at : Steps, leader : {NotTried, "written", "verified"} \cup LeaderTrouble,
          build : Builds \cup {"unread"}, snapshot : Taken,
          timer : Timers \cup {"unread"}, mismatches : SUBSET Fields]
Shape ==
  /\ start \in Starts /\ game \in Games /\ prep \in Preps
  /\ table \in [phase : Phases, at : Int]
  /\ truth \in Taken
  /\ budget \in [moves : Int, faults : Int] /\ budget.moves <= MaxMoves

(* Who holds the client's one slot, its claim and the run's context. *)
Holders ==
  /\ slot \in {"free", "run", "doctor"} /\ claim \in {"free", "run"}
  /\ doctor \in {"off", "connected", "ok", "no_game_loaded", "unreachable"}
  /\ slot = "run" <=> prep.at \notin Offline \cup {"failed"}
  /\ slot = "doctor" <=> doctor = "connected"
  /\ context \in BOOLEAN /\ (context <=> prep.at = "playing")
  /\ prep.at \in Secured /\ start.process = "found" => claim = "run"
  /\ prep.at = "failed" => claim = "free"

RowIn(s, build, state) == [NewRow(s, build) EXCEPT !.state = state]

(* What has been judged by now; a row is the one the start was cleared for. *)
Cleared ==
  /\ prep.at \notin {"begin", "refused", "raised"} => Restated(start) = {}
  /\ prep.at \notin {"begin", "preflight", "refused", "raised"} => Passes(start)
  /\ prep.at \in Fetched => prep.build \in Builds
  /\ prep.at \in Fetched \ {"pin"} => PinCovers(start, prep.build)
  /\ prep.at \in {"load", "create"} /\ start.kind = "branch" => SourceHolds
  /\ prep.at \in Reported => row # NoRow
  /\ prep.at \notin Reported \cup {"raised"} => row = NoRow
  /\ row # NoRow =>
       /\ Restated(start) = {} /\ Passes(start)
       /\ prep.build \in Builds /\ PinCovers(start, prep.build)
       /\ start.kind = "branch" => SourceHolds
       /\ row = RowIn(start, prep.build, row.state) /\ row.state # "absent"
  /\ row.state \in {"absent", "preparing", "playing", "failed"}
  /\ row.state = "playing" <=> prep.at = "playing"
  /\ row.state = "failed" <=> prep.at = "failed"

(* The client's setup as it was read, where it could be read, and what the *)
(* verdict rests on.                                                       *)
Compared ==
  /\ prep.at \notin Offline \cup {"refresh"} /\ budget.moves = MaxMoves =>
       table.at = game.at /\ table.phase = game.phase
  /\ prep.leader = "written" => prep.at \in {"leader_read", "raised"}
  /\ prep.at \notin {"raised", "leader_read"} /\ prep.leader \in LeaderTrouble =>
       prep.mismatches # {}
  /\ prep.at \in {"read", "judge"} \cup Verified => prep.leader \notin LeaderTrouble
  /\ prep.at \in {"judge"} \cup Verified =>
       /\ prep.snapshot \in Answers /\ truth \in Answers
       /\ prep.snapshot \in {truth, Nothing}
       /\ budget.moves = MaxMoves => prep.snapshot = truth
  /\ prep.at \in Verified =>
       /\ \A f \in Getters : prep.snapshot[f] = Config[f]
       /\ prep.timer # "active"
  /\ prep.at \in Refuted =>
       /\ prep.mismatches # {}
       /\ prep.leader \notin LeaderTrouble /\ budget.moves = MaxMoves =>
            prep.mismatches = {f \in Getters : truth[f] # Config[f]}

(* The events on record by now. *)
Logged ==
  /\ prep.at \in {"play", "playing"} => PlayingEvent \in events
  /\ prep.at \in {"announce_failed", "failing", "failed"} =>
       MismatchEvent(prep.mismatches) \in events
  /\ prep.at \in {"failing", "failed"} => [kind |-> "failed"] \in events
  /\ start.kind = "branch" /\ prep.at \in Reported \ {"record_branch"} =>
       [kind |-> "branch_created", lineage |-> row.lineage] \in events

StartInv == Shape /\ Holders /\ Cleared /\ Compared /\ Logged

(* Every step keeps the types. *)
LEMMA ShapeStep ==
  Shape /\ [Next]_vars => Shape'
<1> SUFFICES ASSUME Shape, [Next]_vars PROVE Shape'
  OBVIOUS
<1>1. CASE LoadConfiguration
  BY <1>1 DEF LoadConfiguration, Goto, Outside, Shape, Preps, Steps
<1>2. CASE RunPreflight
  BY <1>2 DEF RunPreflight, Goto, Outside, Shape, Preps, Steps
<1>3. CASE Connect
  BY <1>3 DEF Connect, Goto, Outside, Shape, Preps, Steps
<1>4. CASE RefreshTable
  BY <1>4 DEF RefreshTable, Read, Goto, Outside, Games, Shape, Preps, Steps
<1>5. CASE RefreshAfterLeader
  BY <1>5 DEF RefreshAfterLeader, Read, Goto, Outside, Games, Shape, Preps, Steps
<1>6. CASE WriteLeader
  <2>1. game' \in Games
    <3>1. CASE Aimed("HostGame")
      <4>1. PICK taken \in SUBSET LeaderFields :
              game' = [game EXCEPT !.setup =
                         [f \in Getters |-> IF f \in taken THEN Config[f] ELSE game.setup[f]]]
        BY <1>6, <3>1 DEF WriteLeader
      <4>2. [f \in Getters |-> IF f \in taken THEN Config[f] ELSE game.setup[f]]
              \in Answers
        <5>1. game.setup \in Answers
          BY DEF Shape, Games
        <5>2. \A f \in Getters : Config[f] \in Readings
          BY StartsAreValid DEF Shape, Config, Readings
        <5> QED  BY <5>1, <5>2 DEF Answers
      <4> QED  BY <4>1, <4>2 DEF Shape, Games
    <3>2. CASE ~Aimed("HostGame")
      BY <1>6, <3>2 DEF WriteLeader, Shape
    <3> QED  BY <3>1, <3>2
  <2>2. prep' \in Preps
    <3>1. PICK r \in {"written", "unavailable"}, w \in SUBSET Fields : LeaderIs(r, w)
      BY <1>6, PreparationConstants DEF WriteLeader
    <3> QED  BY <3>1 DEF LeaderIs, Shape, Preps, Steps, LeaderTrouble
  <2> QED  BY <1>6, <2>1, <2>2 DEF WriteLeader, Stored, Shape
<1>7. CASE ReadLeaderBack
  <2>1. PICK wrong \in SUBSET LeaderFields :
          LeaderIs(IF wrong = {} THEN "verified" ELSE "mismatch", wrong)
    BY <1>7 DEF ReadLeaderBack
  <2>2. prep' \in Preps
    BY <2>1, PreparationConstants DEF LeaderIs, Shape, Preps, Steps, LeaderTrouble
  <2> QED  BY <1>7, <2>2 DEF ReadLeaderBack, Outside, Shape
<1>8. CASE RequireGame
  BY <1>8 DEF RequireGame, Raise, Goto, Outside, Shape, Preps, Steps
<1>9. CASE ReadBuild
  <2>1. UNCHANGED <<table, Outside>>
    BY <1>9 DEF ReadBuild, Raise
  <2>2. prep \in Preps
    BY DEF Shape
  <2>3. prep' \in Preps
    <3>1. CASE Raise
      BY <3>1, <2>2 DEF Raise, Goto, Preps, Steps
    <3>2. CASE start.build \in Builds
                 /\ prep' = [prep EXCEPT !.build = start.build, !.at = "pin"]
      BY <3>2, <2>2 DEF Preps, Steps
    <3> QED  BY <1>9, <3>1, <3>2 DEF ReadBuild
  <2> QED  BY <2>1, <2>3 DEF Outside, Shape
<1>10. CASE CheckPin
  BY <1>10 DEF CheckPin, Raise, Goto, Outside, Shape, Preps, Steps
<1>11. CASE CheckSource
  BY <1>11 DEF CheckSource, Raise, Goto, Outside, Shape, Preps, Steps
<1>12. CASE LoadParentSave
  <2>1. PICK s \in Setups : game' = [game EXCEPT !.phase = "game", !.setup = s,
                                                    !.at = game.at + 1]
    BY <1>12 DEF LoadParentSave
  <2>2. game' \in Games
    <3>1. s \in Answers
      BY StartsAreValid DEF Answers, Readings
    <3>2. game.at + 1 \in Nat /\ game \in Games
      BY DEF Shape, Games
    <3> QED  BY <2>1, <3>1, <3>2 DEF Games, Phases
  <2> QED  BY <1>12, <2>2 DEF LoadParentSave, Goto, Shape, Games, Preps, Steps, Phases
<1>13. CASE CreateRow
  BY <1>13 DEF CreateRow, Goto, Outside, AfterRow, Shape, Preps, Steps
<1>14. CASE RecordBranch
  BY <1>14 DEF RecordBranch, Goto, Outside, Shape, Preps, Steps
<1>15. CASE RefreshLoaded
  BY <1>15 DEF RefreshLoaded, Read, Goto, Outside, Games, Shape, Preps, Steps
<1>16. CASE Claim
  BY <1>16 DEF Claim, Raise, Goto, Outside, Shape, Preps, Steps
<1>17. CASE ReadSetup
  <2>1. Nothing \in Answers
    BY DEF Nothing, Readings, Answers
  <2>2. prep' \in Preps
    <3>1. game.setup \in Taken /\ Nothing \in Taken /\ game.timer \in Timers
      BY <2>1 DEF Shape, Games, Taken
    <3>2. PICK taken \in Taken, t \in Timers :
            \/ prep' = [prep EXCEPT !.at = "judge", !.snapshot = taken, !.timer = t]
            \/ Raise
      BY <1>17, <3>1 DEF ReadSetup, Timers
    <3> QED  BY <3>2, ZenonT(30) DEF Raise, Goto, Shape, Preps, Steps
  <2> QED  BY <1>17, <2>2 DEF ReadSetup, Raise, Outside, Shape, Games, Taken
<1>18. CASE Judge
  <2>1. Mismatching \subseteq Fields
    BY DEF Mismatching
  <2>2. UNCHANGED <<table, Outside>>
    BY <1>18 DEF Judge, Raise
  <2>3. prep \in Preps
    BY DEF Shape
  <2>4. prep' \in Preps
    <3>1. CASE Raise
      BY <3>1, <2>3 DEF Raise, Goto, Preps, Steps
    <3>2. CASE prep' = [prep EXCEPT !.mismatches = Mismatching,
                          !.at = IF Mismatching = {} THEN "announce" ELSE "fail"]
      BY <3>2, <2>1, <2>3 DEF Preps, Steps
    <3> QED  BY <1>18, <3>1, <3>2 DEF Judge
  <2> QED  BY <2>2, <2>4 DEF Outside, Shape
<1>19. CASE Announce
  BY <1>19 DEF Announce, Goto, Outside, Shape, Preps, Steps
<1>20. CASE Play
  BY <1>20 DEF Play, Goto, Outside, Shape, Preps, Steps
<1>21. CASE RecordMismatch
  BY <1>21 DEF RecordMismatch, Goto, Outside, Shape, Preps, Steps
<1>22. CASE AnnounceFailed
  BY <1>22 DEF AnnounceFailed, Goto, Outside, Shape, Preps, Steps
<1>23. CASE Fail
  BY <1>23 DEF Fail, Goto, Outside, Shape, Preps, Steps
<1>24. CASE CallFails
  BY <1>24 DEF CallFails, Goto, Shape, Preps, Steps
<1>25. CASE OperatorMoves
  BY <1>25, PreparationConstants, StartsAreValid DEF OperatorMoves, Games,
     Answers, Readings, Shape
<1>26. CASE DoctorConnects
  BY <1>26 DEF DoctorConnects, Shape
<1>27. CASE DoctorReads
  BY <1>27 DEF DoctorReads, Shape
<1>28. CASE UNCHANGED vars
  BY <1>28 DEF vars, Shape
<1> QED
  BY <1>1, <1>2, <1>3, <1>4, <1>5, <1>6, <1>7, <1>8, <1>9, <1>10, <1>11, <1>12,
     <1>13, <1>14, <1>15, <1>16, <1>17, <1>18, <1>19, <1>20, <1>21, <1>22, <1>23,
     <1>24, <1>25, <1>26, <1>27, <1>28
     DEF Next, Step

(* Every step keeps the holders right. *)
LEMMA HoldersStep ==
  Shape /\ Holders /\ [Next]_vars => Holders'
<1> SUFFICES ASSUME Shape, Holders, [Next]_vars PROVE Holders'
  OBVIOUS
<1>1. CASE LoadConfiguration
  BY <1>1 DEF LoadConfiguration, At, Goto, Outside, Holders, Offline, Secured,
     Verified, Refuted
<1>2. CASE RunPreflight
  BY <1>2 DEF RunPreflight, At, Goto, Outside, Holders, Offline, Secured,
     Verified, Refuted
<1>3. CASE Connect
  BY <1>3 DEF Connect, At, Goto, Outside, Shape, Holders, Preps, Offline,
     Secured, Verified, Refuted
<1>4. CASE RefreshTable
  BY <1>4 DEF RefreshTable, At, Goto, Outside, Holders, Offline, Secured,
     Verified, Refuted
<1>5. CASE RefreshAfterLeader
  BY <1>5 DEF RefreshAfterLeader, At, Goto, Outside, Holders, Offline, Secured,
     Verified, Refuted
<1>6. CASE WriteLeader
  BY <1>6, ZenonT(30) DEF WriteLeader, LeaderIs, At, Goto, Stored, Outside, Shape, Holders,
     Preps, Offline, Secured, Verified, Refuted
<1>7. CASE ReadLeaderBack
  BY <1>7 DEF ReadLeaderBack, LeaderIs, At, Outside, Holders, Offline, Secured,
     Verified, Refuted
<1>8. CASE RequireGame
  BY <1>8 DEF RequireGame, Raise, Closed, At, Goto, Outside, Shape, Holders,
     Preps, Offline, Secured, Verified, Refuted
<1>9. CASE ReadBuild
  BY <1>9 DEF ReadBuild, Raise, Closed, At, Goto, Stored, Outside, Shape,
     Holders, Preps, Offline, Secured, Verified, Refuted
<1>10. CASE CheckPin
  BY <1>10 DEF CheckPin, Raise, Closed, At, Goto, Outside, Shape, Holders,
     Preps, Offline, Secured, Verified, Refuted
<1>11. CASE CheckSource
  BY <1>11 DEF CheckSource, Raise, Closed, At, Goto, Outside, Shape, Holders,
     Preps, Offline, Secured, Verified, Refuted
<1>12. CASE LoadParentSave
  BY <1>12 DEF LoadParentSave, At, Goto, Holders, Offline, Secured, Verified, Refuted
<1>13. CASE CreateRow
  BY <1>13 DEF CreateRow, At, Goto, Outside, AfterRow, Holders, Offline,
     Secured, Verified, Refuted
<1>14. CASE RecordBranch
  BY <1>14 DEF RecordBranch, At, Goto, Outside, Holders, Offline, Secured,
     Verified, Refuted
<1>15. CASE RefreshLoaded
  BY <1>15 DEF RefreshLoaded, At, Goto, Outside, Holders, Offline, Secured,
     Verified, Refuted
<1>16. CASE Claim
  BY <1>16 DEF Claim, Raise, Closed, At, Goto, Outside, Shape, Holders, Preps, Offline
<1>17. CASE ReadSetup
  BY <1>17 DEF ReadSetup, Raise, Closed, At, Goto, Stored, Outside, Shape,
     Holders, Preps, Offline, Secured, Verified, Refuted
<1>18. CASE Judge
  BY <1>18 DEF Judge, Raise, Closed, At, Goto, Stored, Outside, Shape, Holders,
     Preps, Offline, Secured, Verified, Refuted
<1>19. CASE Announce
  BY <1>19 DEF Announce, At, Goto, Outside, Holders, Offline, Secured, Verified
<1>20. CASE Play
  BY <1>20 DEF Play, At, Goto, Outside, Holders, Offline, Secured, Verified
<1>21. CASE RecordMismatch
  BY <1>21 DEF RecordMismatch, At, Goto, Outside, Holders, Offline, Secured, Refuted
<1>22. CASE AnnounceFailed
  BY <1>22 DEF AnnounceFailed, At, Goto, Outside, Holders, Offline, Secured, Refuted
<1>23. CASE Fail
  BY <1>23 DEF Fail, Closed, At, Goto, Outside, Holders, Secured, Verified
<1>24. CASE CallFails
  BY <1>24 DEF CallFails, Closed, Goto, Awaits, Writes, Holders, Offline,
     Secured, Verified, Refuted
<1>25. CASE OperatorMoves
  BY <1>25 DEF OperatorMoves, Holders
<1>26. CASE DoctorConnects
  BY <1>26 DEF DoctorConnects, Holders
<1>27. CASE DoctorReads
  BY <1>27 DEF DoctorReads, Holders
<1>28. CASE UNCHANGED vars
  BY <1>28 DEF vars, Holders
<1> QED
  BY <1>1, <1>2, <1>3, <1>4, <1>5, <1>6, <1>7, <1>8, <1>9, <1>10, <1>11, <1>12,
     <1>13, <1>14, <1>15, <1>16, <1>17, <1>18, <1>19, <1>20, <1>21, <1>22, <1>23,
     <1>24, <1>25, <1>26, <1>27, <1>28
     DEF Next, Step
(* Every step keeps to what was cleared. *)
LEMMA ClearedStep ==
  Shape /\ Cleared /\ [Next]_vars => Cleared'
<1> SUFFICES ASSUME Shape, Cleared, [Next]_vars PROVE Cleared'
  OBVIOUS
<1>1. CASE LoadConfiguration
  BY <1>1 DEF LoadConfiguration, At, Goto, Stored, Outside, Cleared, Fetched, Reported
<1>2. CASE RunPreflight
  BY <1>2 DEF RunPreflight, At, Goto, Stored, Outside, Cleared, Fetched, Reported
<1>3. CASE Connect
  BY <1>3 DEF Connect, At, Goto, Stored, Outside, Shape, Cleared, Preps,
     Fetched, Reported
<1>4. CASE RefreshTable
  BY <1>4 DEF RefreshTable, At, Goto, Stored, Outside, Cleared, Fetched, Reported
<1>5. CASE RefreshAfterLeader
  BY <1>5 DEF RefreshAfterLeader, At, Goto, Stored, Outside, Cleared, Fetched, Reported
<1>6. CASE WriteLeader
  BY <1>6 DEF WriteLeader, LeaderIs, At, Goto, Stored, Outside, Shape, Cleared,
     Preps, Offline, Fetched, Reported, SourceHolds
<1>7. CASE ReadLeaderBack
  BY <1>7 DEF ReadLeaderBack, LeaderIs, At, Stored, Outside, Cleared, Fetched, Reported
<1>8. CASE RequireGame
  BY <1>8 DEF RequireGame, Raise, At, Goto, Stored, Outside, Shape, Cleared,
     Preps, Fetched, Reported
<1>9. CASE ReadBuild
  BY <1>9 DEF ReadBuild, Raise, Closed, At, Goto, Stored, Outside, Shape,
     Cleared, Preps, Offline, Fetched, Reported, SourceHolds
<1>10. CASE CheckPin
  BY <1>10 DEF CheckPin, Raise, At, Goto, Stored, Outside, Shape, Cleared,
     Preps, Fetched, Reported
<1>11. CASE CheckSource
  BY <1>11 DEF CheckSource, Raise, At, Goto, Stored, Outside, SourceHolds,
     Shape, Cleared, Preps, Fetched, Reported
<1>12. CASE LoadParentSave
  BY <1>12 DEF LoadParentSave, At, Goto, Stored, SourceHolds, Cleared, Fetched, Reported
<1>13. CASE CreateRow
  BY <1>13 DEF CreateRow, At, Goto, Outside, AfterRow, NewRow, NoRow, RowIn,
     Cleared, Fetched, Reported, SourceHolds
<1>14. CASE RecordBranch
  BY <1>14 DEF RecordBranch, At, Goto, Outside, Cleared, Reported, SourceHolds
<1>15. CASE RefreshLoaded
  BY <1>15 DEF RefreshLoaded, At, Goto, Stored, Outside, Cleared, Reported, SourceHolds
<1>16. CASE Claim
  BY <1>16 DEF Claim, Raise, At, Goto, Stored, Outside, Shape, Cleared, Preps,
     Reported, SourceHolds
<1>17. CASE ReadSetup
  BY <1>17 DEF ReadSetup, Raise, Closed, At, Goto, Stored, Outside, Shape,
     Cleared, Preps, Offline, Fetched, Reported, SourceHolds
<1>18. CASE Judge
  BY <1>18 DEF Judge, Raise, Closed, At, Goto, Stored, Outside, Shape, Cleared,
     Preps, Offline, Fetched, Reported, SourceHolds
<1>19. CASE Announce
  BY <1>19 DEF Announce, At, Goto, Outside, Cleared, Reported, SourceHolds
<1>20. CASE Play
  BY <1>20 DEF Play, At, Goto, Outside, NoRow, RowIn, Cleared, Reported, SourceHolds
<1>21. CASE RecordMismatch
  BY <1>21 DEF RecordMismatch, At, Goto, Outside, Cleared, Reported, SourceHolds
<1>22. CASE AnnounceFailed
  BY <1>22 DEF AnnounceFailed, At, Goto, Outside, Cleared, Reported, SourceHolds
<1>23. CASE Fail
  BY <1>23 DEF Fail, At, Goto, Outside, NoRow, RowIn, Cleared, Reported, SourceHolds
<1>24. CASE CallFails
  BY <1>24 DEF CallFails, Goto, Stored, Awaits, Writes, Cleared, Fetched,
     Reported, SourceHolds
<1>25. CASE OperatorMoves
  BY <1>25 DEF OperatorMoves, Stored, Cleared, SourceHolds
<1>26. CASE DoctorConnects
  BY <1>26 DEF DoctorConnects, Stored, Cleared, SourceHolds
<1>27. CASE DoctorReads
  BY <1>27 DEF DoctorReads, Stored, Cleared, SourceHolds
<1>28. CASE UNCHANGED vars
  BY <1>28 DEF vars, Cleared, SourceHolds, Config
<1> QED
  BY <1>1, <1>2, <1>3, <1>4, <1>5, <1>6, <1>7, <1>8, <1>9, <1>10, <1>11, <1>12,
     <1>13, <1>14, <1>15, <1>16, <1>17, <1>18, <1>19, <1>20, <1>21, <1>22, <1>23,
     <1>24, <1>25, <1>26, <1>27, <1>28
     DEF Next, Step
(* Every step keeps the comparison true. *)
LEMMA ComparedStep ==
  Shape /\ Cleared /\ Compared /\ [Next]_vars => Compared'
<1> SUFFICES ASSUME Shape, Cleared, Compared, [Next]_vars PROVE Compared'
  OBVIOUS
<1>1. CASE LoadConfiguration
  BY <1>1 DEF LoadConfiguration, At, Goto, Compared, Offline, Verified, Refuted
<1>2. CASE RunPreflight
  BY <1>2 DEF RunPreflight, At, Goto, Compared, Offline, Verified, Refuted
<1>3. CASE Connect
  BY <1>3 DEF Connect, At, Goto, Shape, Compared, Preps, Offline, Verified, Refuted
<1>4. CASE RefreshTable
  BY <1>4 DEF RefreshTable, Read, At, Goto, Outside, Compared, Verified, Refuted
<1>5. CASE RefreshAfterLeader
  BY <1>5 DEF RefreshAfterLeader, Read, At, Goto, Outside, Compared, Verified, Refuted
<1>6. CASE WriteLeader
  <2>1. prep.at = "leader" /\ prep'.at \in {"leader_read", "leave_create"}
    BY <1>6 DEF WriteLeader, LeaderIs, At, Shape, Preps
  <2>2. /\ prep'.leader \in {"written", "unavailable"}
        /\ prep'.leader = "written" => prep'.at = "leader_read"
        /\ prep'.leader = "unavailable" => prep'.mismatches # {}
    BY <1>6, StartsAreValid DEF WriteLeader, LeaderIs, Shape, Preps
  <2>3. /\ game'.at = game.at /\ game'.phase = game.phase
        /\ UNCHANGED <<start, table, budget>>
    BY <1>6 DEF WriteLeader, Shape, Games
  <2> QED
    BY <2>1, <2>2, <2>3 DEF Compared, Offline, Verified, Refuted
<1>7. CASE ReadLeaderBack
  BY <1>7 DEF ReadLeaderBack, LeaderIs, At, Outside, Compared, Offline,
     Verified, Refuted, LeaderTrouble
<1>8. CASE RequireGame
  BY <1>8 DEF RequireGame, Raise, At, Goto, Outside, Shape, Compared, Preps,
     Offline, Verified, Refuted
<1>9. CASE ReadBuild
  <2>1. prep.at = "build" /\ prep'.at \in {"pin", "raised"}
    BY <1>9 DEF ReadBuild, Raise, Goto, At, Shape, Preps
  <2>2. UNCHANGED <<start, game, table, budget, prep.leader, prep.mismatches>>
    BY <1>9 DEF ReadBuild, Raise, Goto, Outside, Shape, Preps
  <2> QED  BY <2>1, <2>2 DEF Compared, Offline, Verified, Refuted
<1>10. CASE CheckPin
  BY <1>10 DEF CheckPin, Raise, At, Goto, Outside, Shape, Compared, Preps,
     Offline, Verified, Refuted
<1>11. CASE CheckSource
  BY <1>11 DEF CheckSource, Raise, At, Goto, Outside, Shape, Compared, Preps,
     Offline, Verified, Refuted
<1>12. CASE LoadParentSave
  BY <1>12 DEF LoadParentSave, At, Goto, Compared, Verified, Refuted
<1>13. CASE CreateRow
  BY <1>13 DEF CreateRow, At, Goto, Outside, AfterRow, Compared, Offline,
     Verified, Refuted
<1>14. CASE RecordBranch
  BY <1>14 DEF RecordBranch, At, Goto, Outside, Compared, Offline, Verified, Refuted
<1>15. CASE RefreshLoaded
  BY <1>15 DEF RefreshLoaded, Read, At, Goto, Outside, Compared, Verified, Refuted
<1>16. CASE Claim
  BY <1>16 DEF Claim, Raise, At, Goto, Outside, Shape, Compared, Preps, Offline,
     Verified, Refuted, LeaderTrouble, NotTried
<1>17. CASE ReadSetup
  <2>1. prep.at = "read" /\ prep'.at \in {"judge", "raised"}
    BY <1>17 DEF ReadSetup, Raise, Goto, At, Shape, Preps
  <2>2. UNCHANGED <<start, game, table, budget, prep.leader, prep.mismatches>>
    BY <1>17 DEF ReadSetup, Raise, Goto, Outside, Shape, Preps
  <2>3. ASSUME prep'.at = "judge"
        PROVE  /\ truth' = game.setup /\ table.phase = "game"
               /\ prep'.snapshot = IF Aimed("InGame") THEN game.setup ELSE Nothing
    BY <1>17, <2>3 DEF ReadSetup, Raise, Goto, StateNames, Shape, Preps
  <2>4. game.setup \in Answers /\ Nothing \in Answers
    BY DEF Shape, Games, Nothing, Answers, Readings
  <2>5. ASSUME prep'.at = "judge", budget.moves = MaxMoves PROVE Aimed("InGame")
    BY <2>1, <2>3, <2>5 DEF Compared, Offline, Aimed, StateNames
  <2> HIDE DEF Answers
  <2> QED
    BY <2>1, <2>2, <2>3, <2>4, <2>5 DEF Compared, Offline, Verified, Refuted
<1>18. CASE Judge
  <2>1. prep.at = "judge" /\ prep'.at \in {"announce", "fail", "raised"}
    BY <1>18 DEF Judge, Raise, Goto, At, Shape, Preps
  <2>2. UNCHANGED <<start, game, table, budget, truth, prep.leader, prep.snapshot, prep.timer>>
    BY <1>18 DEF Judge, Raise, Goto, Outside, Shape, Preps
  <2>3. prep'.at # "raised" =>
          /\ prep'.mismatches = Mismatching /\ prep.timer # "active"
          /\ prep'.at = IF Mismatching = {} THEN "announce" ELSE "fail"
    BY <1>18 DEF Judge, Raise, Goto, Shape, Preps
  <2>4. Mismatching = {f \in Getters : prep.snapshot[f] # Config[f]}
    BY PreparationConstants DEF Mismatching, Fallback, NoReadPath
  <2> QED
    BY <2>1, <2>2, <2>3, <2>4 DEF Compared, Offline, Verified, Refuted, Config
<1>19. CASE Announce
  BY <1>19 DEF Announce, At, Goto, Outside, Compared, Offline, Verified, Refuted, Config
<1>20. CASE Play
  BY <1>20 DEF Play, At, Goto, Outside, Compared, Offline, Verified, Refuted, Config
<1>21. CASE RecordMismatch
  BY <1>21 DEF RecordMismatch, At, Goto, Outside, Compared, Offline, Verified,
     Refuted, Config
<1>22. CASE AnnounceFailed
  BY <1>22 DEF AnnounceFailed, At, Goto, Outside, Compared, Offline, Verified,
     Refuted, Config
<1>23. CASE Fail
  BY <1>23 DEF Fail, At, Goto, Outside, Compared, Offline, Verified, Refuted, Config
<1>24. CASE CallFails
  BY <1>24 DEF CallFails, Goto, Compared, Offline, Verified, Refuted
<1>25. CASE OperatorMoves
  BY <1>25 DEF OperatorMoves, Shape, Compared, Config
<1>26. CASE DoctorConnects
  BY <1>26 DEF DoctorConnects, Compared, Config
<1>27. CASE DoctorReads
  BY <1>27 DEF DoctorReads, Compared, Config
<1>28. CASE UNCHANGED vars
  BY <1>28 DEF vars, Compared, Config
<1> QED
  BY <1>1, <1>2, <1>3, <1>4, <1>5, <1>6, <1>7, <1>8, <1>9, <1>10, <1>11, <1>12,
     <1>13, <1>14, <1>15, <1>16, <1>17, <1>18, <1>19, <1>20, <1>21, <1>22, <1>23,
     <1>24, <1>25, <1>26, <1>27, <1>28
     DEF Next, Step
(* Every step keeps the events on record. *)
LEMMA LoggedStep ==
  Shape /\ Cleared /\ Logged /\ [Next]_vars => Logged'
<1> SUFFICES ASSUME Shape, Cleared, Logged, [Next]_vars PROVE Logged'
  OBVIOUS
<1>1. CASE LoadConfiguration
  BY <1>1 DEF LoadConfiguration, Goto, Logged, Reported
<1>2. CASE RunPreflight
  BY <1>2 DEF RunPreflight, Goto, Logged, Reported
<1>3. CASE Connect
  BY <1>3 DEF Connect, Goto, Shape, Logged, Preps, Reported
<1>4. CASE RefreshTable
  BY <1>4 DEF RefreshTable, Goto, Logged, Reported
<1>5. CASE RefreshAfterLeader
  BY <1>5 DEF RefreshAfterLeader, Goto, Logged, Reported
<1>6. CASE WriteLeader
  BY <1>6 DEF WriteLeader, LeaderIs, At, Goto, Stored, Outside, Shape, Logged,
     Preps, Reported, PlayingEvent, MismatchEvent, Fallback
<1>7. CASE ReadLeaderBack
  BY <1>7 DEF ReadLeaderBack, LeaderIs, Logged, Reported
<1>8. CASE RequireGame
  BY <1>8 DEF RequireGame, Raise, Goto, Shape, Logged, Preps, Reported
<1>9. CASE ReadBuild
  BY <1>9 DEF ReadBuild, Raise, Closed, At, Goto, Stored, Outside, Shape,
     Logged, Preps, Reported, PlayingEvent, MismatchEvent, Fallback
<1>10. CASE CheckPin
  BY <1>10 DEF CheckPin, Raise, Goto, Shape, Logged, Preps, Reported
<1>11. CASE CheckSource
  BY <1>11 DEF CheckSource, Raise, Goto, Shape, Logged, Preps, Reported
<1>12. CASE LoadParentSave
  BY <1>12 DEF LoadParentSave, Goto, Logged, Reported
<1>13. CASE CreateRow
  BY <1>13 DEF CreateRow, Goto, Outside, AfterRow, Logged
<1>14. CASE RecordBranch
  BY <1>14 DEF RecordBranch, Goto, Logged
<1>15. CASE RefreshLoaded
  BY <1>15 DEF RefreshLoaded, At, Goto, Stored, Outside, Logged, Reported
<1>16. CASE Claim
  BY <1>16 DEF Claim, Raise, At, Goto, Stored, Outside, Shape, Logged, Preps, Reported
<1>17. CASE ReadSetup
  <2>1. /\ prep.at = "read" /\ prep'.at \in {"judge", "raised"}
        /\ UNCHANGED <<start, row, events>>
    BY <1>17 DEF ReadSetup, Raise, Goto, At, Stored, Outside, Shape, Preps
  <2> QED  BY <2>1 DEF Logged, Reported
<1>18. CASE Judge
  <2>1. /\ prep.at = "judge" /\ prep'.at \in {"announce", "fail", "raised"}
        /\ UNCHANGED <<start, row, events>>
    BY <1>18 DEF Judge, Raise, Goto, At, Stored, Outside, Shape, Preps
  <2> QED  BY <2>1 DEF Logged, Reported
<1>19. CASE Announce
  BY <1>19 DEF Announce, At, Goto, Outside, Logged, Reported
<1>20. CASE Play
  BY <1>20 DEF Play, At, Goto, Outside, Logged, Reported
<1>21. CASE RecordMismatch
  BY <1>21 DEF RecordMismatch, At, Goto, Outside, Logged, Reported
<1>22. CASE AnnounceFailed
  BY <1>22 DEF AnnounceFailed, At, Goto, Outside, Logged, Reported
<1>23. CASE Fail
  BY <1>23 DEF Fail, At, Goto, Outside, Logged, Reported
<1>24. CASE CallFails
  BY <1>24 DEF CallFails, Goto, Logged, Reported
<1>25. CASE OperatorMoves
  BY <1>25 DEF OperatorMoves, Stored, Logged
<1>26. CASE DoctorConnects
  BY <1>26 DEF DoctorConnects, Stored, Logged
<1>27. CASE DoctorReads
  BY <1>27 DEF DoctorReads, Stored, Logged
<1>28. CASE UNCHANGED vars
  BY <1>28 DEF vars, Logged
<1> QED
  BY <1>1, <1>2, <1>3, <1>4, <1>5, <1>6, <1>7, <1>8, <1>9, <1>10, <1>11, <1>12,
     <1>13, <1>14, <1>15, <1>16, <1>17, <1>18, <1>19, <1>20, <1>21, <1>22, <1>23,
     <1>24, <1>25, <1>26, <1>27, <1>28
     DEF Next, Step

(* A start begins with nothing judged, held or on record. *)
LEMMA StartInit == Init => StartInv
<1> SUFFICES ASSUME Init PROVE StartInv
  OBVIOUS
<1>1. Shape
  <2>1. Setups \subseteq Answers
    BY StartsAreValid DEF Answers, Readings
  <2>2. game \in Games /\ prep \in Preps
    BY <2>1 DEF Init, Games, Preps, Taken, Steps
  <2> QED  BY <2>2, PreparationConstants DEF Init, Shape, Taken, Phases, NoTable
<1>2. Holders /\ Cleared /\ Compared /\ Logged
  BY DEF Init, Holders, Cleared, Compared, Logged, Offline, Fetched, Reported,
     Verified, Refuted, Secured, NoRow, NotTried, LeaderTrouble
<1> QED  BY <1>1, <1>2 DEF StartInv

(* StartInv holds all through a start. *)
LEMMA StartInvariant == Spec => []StartInv
<1>1. StartInv /\ [Next]_vars => StartInv'
  BY ShapeStep, HoldersStep, ClearedStep, ComparedStep, LoggedStep DEF StartInv
<1> QED  BY <1>1, StartInit, PTL DEF Spec

(* However a start ends without a run that plays -- refused, raised at any *)
(* await or write, or failed on record -- the tuner's one slot is free     *)
(* again, no context stands and a failed run keeps no claim.               *)
THEOREM StartLeavesNothing == Spec => []NothingLeft
<1>1. StartInv => NothingLeft
  BY DEF StartInv, Holders, Cleared, NothingLeft, Ends, Offline, Secured, Verified
<1> QED  BY <1>1, StartInvariant, PTL

(* A reference from Acceptance is that of an acceptance for this very      *)
(* transition, and there is one when the build is covered.                 *)
LEMMA ReferenceIsCovering ==
  ASSUME NEW s \in Starts, NEW build, PinCovers(s, build),
         s.kind = "branch" => BranchCovers(s, build)
  PROVE  LET from == IF s.kind = "branch" THEN s.parentBuild ELSE s.seed.pinned
             ref == AcceptanceRef(s, build)
         IN /\ ref # NoAcceptance =>
                 \E a \in Accepted(s) : a.from = from /\ a.to = build /\ a.id = ref
            /\ ref # NoAcceptance <=> HasSeedSet(s) /\ build # from
<1> DEFINE from == IF s.kind = "branch" THEN s.parentBuild ELSE s.seed.pinned
           fitting == Acceptance(s, from, build)
<1>0. s.kind \in {"fresh", "branch"}
  BY StartsAreValid
<1>1. CASE (s.kind = "fresh" /\ ~HasSeedSet(s)) \/ build = from
  BY <1>1 DEF AcceptanceRef
<1>2. CASE ~((s.kind = "fresh" /\ ~HasSeedSet(s)) \/ build = from) /\ fitting = {}
  BY <1>0, <1>2 DEF PinCovers, BranchCovers
<1>3. CASE ~((s.kind = "fresh" /\ ~HasSeedSet(s)) \/ build = from) /\ fitting # {}
  <2>1. (CHOOSE a \in fitting : TRUE) \in fitting
    BY <1>3
  <2>2. AcceptanceRef(s, build) = (CHOOSE a \in fitting : TRUE).id
    BY <1>3 DEF AcceptanceRef
  <2>3. \A a \in fitting : a \in Accepted(s) /\ a.from = from /\ a.to = build
                           /\ a.id # NoAcceptance
    BY StartsAreValid DEF Acceptance
  <2>4. HasSeedSet(s)
    BY <2>1, <2>3 DEF Accepted
  <2> QED  BY <1>3, <2>1, <2>2, <2>3, <2>4
<1> QED  BY <1>1, <1>2, <1>3

(* A host that counts as comparable has nothing that speaks for Wayland. *)
LEMMA ComparableHost ==
  ASSUME NEW h, Comparability(h) = "comparable"
  PROVE  /\ h.os = "linux" /\ h.compositing /\ h.xdg # "wayland"
         /\ h.waylandDisplay => h.xdg = "x11"
<1>1. Probe(h).capture
  BY DEF Comparability, Tier
<1>2. CaptureEvidence(h)
  BY <1>1 DEF Probe
<1>3. h.os = "linux" /\ h.compositing /\ Session(h) = "x11"
  BY <1>2 DEF CaptureEvidence
<1> QED  BY <1>3 DEF Session

(* What the stored row of a start says. *)
LEMMA StoredRow ==
  ASSUME StartInv, row # NoRow
  PROVE  /\ row.lineage = LineageOf(start) /\ row.build = prep.build
         /\ row.acceptance = AcceptanceRef(start, prep.build)
         /\ row.comparability = Comparability(start.host) /\ row.config = Config
BY DEF StartInv, Cleared, RowIn, NewRow, Config

(* StartInv covers each of the clearances. *)
LEMMA ClearedByNow == StartInv => StandsOnCleared
<1> SUFFICES ASSUME StartInv PROVE StandsOnCleared
  OBVIOUS
<1>0. start \in Starts
  BY DEF StartInv, Shape
<1>1. BuildCovered
  <2> SUFFICES ASSUME row # NoRow PROVE BuildCovered
    BY DEF BuildCovered
  <2>1. PinCovers(start, prep.build) /\ (start.kind = "branch" => BranchCovers(start, prep.build))
    BY DEF StartInv, Cleared, SourceHolds
  <2>2. row.build = prep.build /\ row.acceptance = AcceptanceRef(start, prep.build)
    BY StoredRow
  <2>3. HasSeedSet(start) /\ row.build # start.seed.pinned =>
          \E a \in start.seed.accepted : a.from = start.seed.pinned /\ a.to = row.build
    BY <2>1, <2>2 DEF PinCovers, Acceptance, Accepted
  <2>4. /\ row.acceptance # NoAcceptance =>
             \E a \in Accepted(start) :
                a.from = StartedFrom /\ a.to = row.build /\ a.id = row.acceptance
        /\ row.acceptance # NoAcceptance <=> HasSeedSet(start) /\ row.build # StartedFrom
    BY <1>0, <2>1, <2>2, ReferenceIsCovering DEF StartedFrom
  <2> QED  BY <2>3, <2>4 DEF BuildCovered
<1>2. LoadedIsCovered
  BY DEF StartInv, Cleared, SourceHolds, BranchCovers, Acceptance,
     PlatformTransition, LoadedIsCovered
<1>3. ComparableIsProven
  BY StoredRow, ComparableHost DEF ComparableIsProven
<1>4. InheritedIsParents
  <2> SUFFICES ASSUME row # NoRow PROVE InheritedIsParents
    BY DEF InheritedIsParents
  <2>1. Restated(start) = {} /\ SeedSetAgrees(start) /\ row.config = Configuration(start)
    BY StoredRow DEF StartInv, Cleared, Passes, Config
  <2> QED  BY <2>1 DEF InheritedIsParents, Restated, SeedSetAgrees, Same
<1>5. ConnectedCanRun
  BY DEF StartInv, Holders, Cleared, Offline, ConnectedCanRun, Passes,
     ChainFits, Carries, HeadroomHolds, Governed
<1> QED  BY <1>1, <1>2, <1>3, <1>4, <1>5 DEF StandsOnCleared

(* No run stands on what it was not cleared for: not on a build its seed   *)
(* set or its parent does not cover, with the acceptance of the change it  *)
(* made on its row, a save its branch check did not pass, a host whose     *)
(* capture is not proven, a configuration that differs from its parent's   *)
(* or seed set's, or a chain, disk or catalog that could not carry it      *)
(* (preparation.py, branching.py).                                         *)
THEOREM RunsStandOnCleared == Spec => []StandsOnCleared
BY ClearedByNow, StartInvariant, PTL

(* StartInv covers both ways for a start to end on record. *)
LEMMA RecordedAsItWas == StartInv => VerdictIsTrue
<1> SUFFICES ASSUME StartInv PROVE VerdictIsTrue
  OBVIOUS
<1> USE DEF StartInv
<1>1. TypeOK
  <2>1. row # NoRow => row.acceptance \in AcceptanceIds \cup {NoAcceptance}
    <3> SUFFICES ASSUME row # NoRow PROVE row.acceptance \in AcceptanceIds \cup {NoAcceptance}
      OBVIOUS
    <3>1. /\ start \in Starts /\ PinCovers(start, prep.build)
          /\ start.kind = "branch" => BranchCovers(start, prep.build)
      BY DEF Shape, Cleared, SourceHolds
    <3> QED  BY <3>1, StoredRow, ReferenceIsCovering DEF AcceptanceIds
  <2>2. row # NoRow => /\ row.state \in {"preparing", "playing", "failed"}
                       /\ row.build \in Builds
    BY StoredRow DEF Cleared, RowIn, NewRow, NoRow
  <2>3. row # NoRow => row.comparability \in {"comparable", "visually_degraded"}
    BY StoredRow DEF Comparability
  <2>4. game.setup \in [Getters -> Readings] /\ game.phase \in Phases /\ game.timer \in Timers
    BY DEF Shape, Games, Answers
  <2> QED  BY <2>1, <2>2, <2>3, <2>4 DEF TypeOK, Shape, Preps, Holders
<1>2. PlayingIsMatched
  <2> SUFFICES ASSUME row.state = "playing" PROVE PlayingIsMatched
    BY DEF PlayingIsMatched
  <2>1. prep.at = "playing" /\ row # NoRow /\ row.config = Config
    BY StoredRow DEF Cleared, Reported
  <2>2. \A f \in Getters : prep.snapshot[f] = Config[f]
    BY <2>1 DEF Compared, Verified
  <2>3. \A f \in Getters : truth[f] = row.config[f]
    <3>1. CASE prep.snapshot = truth
      BY <2>1, <2>2, <3>1
    <3>2. CASE prep.snapshot = Nothing
      <4>1. \A f \in Getters : Config[f] \in Values /\ Config[f] = "nil"
        BY <2>2, <3>2, StartsAreValid DEF Nothing, Shape, Config
      <4> QED  BY <4>1 DEF Values
    <3> QED  BY <2>1, <3>1, <3>2 DEF Compared, Verified
  <2>4. PlayingEvent \in events /\ PlayingEvent.kind = "playing"
    BY <2>1 DEF Logged, PlayingEvent
  <2>5. PlayingEvent.unverified \cup PlayingEvent.unobservable = Fields \ Getters
    BY PreparationConstants DEF PlayingEvent, Fallback, NoReadPath
  <2> QED  BY <2>1, <2>3, <2>4, <2>5 DEF PlayingIsMatched, Compared, Verified
<1>3. FailedIsRecorded
  <2> SUFFICES ASSUME row.state = "failed" PROVE FailedIsRecorded
    BY DEF FailedIsRecorded
  <2>1. prep.at = "failed" /\ row # NoRow /\ row.config = Config
    BY StoredRow DEF Cleared, Reported
  <2>2. /\ [kind |-> "failed"] \in events
        /\ MismatchEvent(prep.mismatches) \in events
        /\ MismatchEvent(prep.mismatches).kind = "mismatch"
        /\ MismatchEvent(prep.mismatches).fields = prep.mismatches
    BY <2>1 DEF Logged, MismatchEvent
  <2>3. /\ prep.mismatches # {}
        /\ prep.leader \notin LeaderTrouble /\ budget.moves = MaxMoves =>
             prep.mismatches = {f \in Getters : truth[f] # row.config[f]}
    BY <2>1 DEF Compared, Refuted
  <2> QED  BY <2>2, <2>3 DEF FailedIsRecorded
<1>4. AuditsHold
  <2> SUFFICES ASSUME row # NoRow PROVE AuditsHold
    BY DEF AuditsHold
  <2>1. ASSUME start.kind = "branch", row.state # "preparing"
        PROVE  AuditLineage(row.lineage, {"parent"}, {<<"parent", 1>>},
                            {e.lineage : e \in {v \in events : v.kind = "branch_created"}}) = {}
    <3>1. row.lineage = <<"parent", 1>>
      BY <2>1, StoredRow DEF LineageOf
    <3>2. prep.at \in Reported \ {"record_branch"}
      BY <2>1 DEF Cleared, Reported, NoRow
    <3>3. row.lineage \in {e.lineage : e \in {v \in events : v.kind = "branch_created"}}
      BY <2>1, <3>2 DEF Logged
    <3> QED  BY <3>1, <3>3 DEF AuditLineage
  <2>2. ASSUME HasSeedSet(start)
        PROVE  AuditBuilds(start.seed.pinned, start.seed.accepted, Platform, {row.build})
                 \subseteq {"platform_transition_acceptance_missing_spike_ref"} \X Builds \X Builds
    <3>1. row.build \in {start.seed.pinned} \cup {a.to : a \in start.seed.accepted}
      BY <2>2, StoredRow DEF Cleared, PinCovers, Acceptance, Accepted
    <3>2. \A a \in start.seed.accepted : a.from \in Builds /\ a.to \in Builds
      BY <2>2, StartsAreValid DEF Shape, Accepted
    <3> QED  BY <3>1, <3>2 DEF AuditBuilds
  <2> QED  BY <2>1, <2>2 DEF AuditsHold
<1> QED  BY <1>1, <1>2, <1>3, <1>4 DEF VerdictIsTrue

(* How a start ended is recorded as it was: a run that plays was read to   *)
(* be the game configured and says which fields nobody could verify, one   *)
(* that failed names exactly the fields the client had otherwise, and the  *)
(* audits of lineage and of builds find nothing wrong (preparation.py,     *)
(* V2; operator/audit.py).                                                 *)
THEOREM StartsEndTruthfully == Spec => []VerdictIsTrue
BY RecordedAsItWas, StartInvariant, PTL
=============================================================================
