-------------------------- MODULE TurnCycle_proofs --------------------------
(***************************************************************************)
(* What TurnCycle keeps for runs of any length, with any number of faults, *)
(* replays, rewinds and retries, in the order proved:                      *)
(*                                                                         *)
(* The store never has a reason to refuse a turn's record.  An attempt's   *)
(* index is fresh: it is one past the highest on record when the turn      *)
(* begins, and a replay adds one after the abandoned attempt, if that was  *)
(* recorded, took the old one.  And no authoritative attempt is ever ahead *)
(* of the turn being played: a rewind sets the counter back only as far as *)
(* it supersedes the record.                                               *)
(*                                                                         *)
(* The two audits of a run's record agree.                                 *)
(*                                                                         *)
(* The stored record is the game that was played: the authoritative        *)
(* attempts are one line of play, each begun on the board the ones before  *)
(* it led to; and, through rewinds too, each is filed under the number of  *)
(* the game turn it was played at.  The two hold for different reasons.    *)
(* The numbers agree because a save is named after its turn and a load is  *)
(* refused that comes back at another one.  The line is one because,       *)
(* without a rewind or a retry, a turn is saved once, so that what a       *)
(* replay loads is what it began on.                                       *)
(***************************************************************************)
EXTENDS TurnCycle, WellFoundedInduction, TLAPS

(* The attempts of a turn under way have used the indices below its own;   *)
(* that of an attempt about to be replayed may be on record.               *)
FreshIndex ==
  \A r \in RecordsOf(turn) :
    /\ pc \in {"quicksave", "deciding", "ending", "persist", "recovering"} =>
         r.index < attempt
    /\ pc = "reloading" => r.index <= attempt

(* The record is never ahead of the counter, and behind it while a turn is *)
(* being played whose attempt is yet to be persisted.                      *)
RecordBehind ==
  \A r \in Authoritative :
    /\ r.turn <= turn
    /\ pc \notin {"top", "parked", "backstop"} => r.turn < turn

(* The indices on record are bounded, so that there is a highest one. *)
Bounded == \E n \in Nat : \A r \in records : r.index <= n

(* A turn being played has its save on record once its attempt begins. *)
PlayedTurn ==
  /\ pc \notin {"top", "parked"} => turn \in Turns
  /\ pc \notin {"top", "parked", "quicksave"} => turn \in saved

PendingSave == pending # <<>> => pending[1] \in saved /\ pending[2] \in Boards

TurnInv ==
  TypeOK /\ PlayedTurn /\ PendingSave /\ Bounded /\ FreshIndex /\ RecordBehind

-----------------------------------------------------------------------------
LEMMA LeastNat ==
  ASSUME NEW T, T \subseteq Nat, T # {}
  PROVE  \E x \in T : \A y \in T : x <= y
<1>1. PICK x \in T : \A y \in T : ~(<<y, x>> \in OpToRel(<, Nat))
  BY NatLessThanWellFounded, WFMin
<1>2. \A y \in T : x <= y
  <2> SUFFICES ASSUME NEW y \in T, y < x PROVE FALSE
    OBVIOUS
  <2>1. <<y, x>> \in OpToRel(<, Nat)
    BY DEF OpToRel
  <2> QED  BY <1>1, <2>1
<1> QED  BY <1>2

LEMMA MaxIsMax ==
  ASSUME NEW S, S \subseteq Nat, S # {}, NEW n \in Nat, \A s \in S : s <= n
  PROVE  MaxOf(S) \in S /\ \A y \in S : y <= MaxOf(S)
<1> DEFINE T == {n - s : s \in S}
<1>1. T \subseteq Nat /\ T # {}
  <2>1. \A s \in S : n - s \in Nat
    OBVIOUS
  <2> QED  BY <2>1
<1>2. PICK t \in T : \A y \in T : t <= y
  BY <1>1, LeastNat
<1>3. PICK m \in S : t = n - m
  OBVIOUS
<1>4. ASSUME NEW y \in S PROVE y <= m
  <2>1. n - m <= n - y
    BY <1>2, <1>3
  <2> QED  BY <2>1
<1> QED  BY <1>4 DEF MaxOf

LEMMA NextIndexFresh ==
  ASSUME records \subseteq Attempts, Bounded, NEW t
  PROVE  /\ NextAttemptIndex(t) \in Nat
         /\ \A r \in RecordsOf(t) : r.index < NextAttemptIndex(t)
<1>1. CASE RecordsOf(t) = {}
  BY <1>1 DEF NextAttemptIndex
<1>2. CASE RecordsOf(t) # {}
  <2> DEFINE S == {r.index : r \in RecordsOf(t)}
  <2>1. S \subseteq Nat /\ S # {}
    BY <1>2 DEF RecordsOf, Attempts
  <2>2. PICK n \in Nat : \A s \in S : s <= n
    BY DEF Bounded, RecordsOf
  <2>3. MaxOf(S) \in S /\ \A y \in S : y <= MaxOf(S)
    BY <2>1, <2>2, MaxIsMax
  <2>4. NextAttemptIndex(t) = MaxOf(S) + 1
    BY <1>2 DEF NextAttemptIndex
  <2>5. \A r \in RecordsOf(t) : r.index \in S
    OBVIOUS
  <2> HIDE DEF S
  <2>6. PICK m \in Nat : m = MaxOf(S) /\ \A y \in S : y <= m
    BY <2>1, <2>3
  <2>7. \A r \in RecordsOf(t) : r.index \in Nat /\ r.index <= m
    BY <2>1, <2>5, <2>6
  <2> QED  BY <2>4, <2>6, <2>7
<1> QED  BY <1>1, <1>2

LEMMA EndedBoard ==
  ASSUME NEW b \in Boards, NEW t \in Turns, NEW i \in Nat
  PROVE  Append(b, <<t, i>>) \in Boards
  BY DEF Boards

LEMMA StatusTyped ==
  ASSUME NEW state, NEW recs
  PROVE  Completeness(state, recs) \in {"unknown", "has_gaps", "complete"}
  BY DEF Completeness

LEMMA FaultCounted ==
  ASSUME ControlTyped, NEW kind, Injected(kind)
  PROVE  faults' \in 0 .. MaxFaults /\ departures' \subseteq Departures
  BY ConstantsOK DEF ControlTyped, Injected, Departures

LEMMA Paused ==
  ASSUME PauseOnFailure
  PROVE  /\ lifecycle' = "failure" /\ pc' = "parked" /\ UNCHANGED attemptVars
         /\ status' \in {"unknown", "has_gaps", "complete"}
  BY StatusTyped DEF PauseOnFailure, Park, RefreshCompleteness

LEMMA TurnInit == Init => TurnInv
<1> SUFFICES ASSUME Init PROVE TurnInv
  OBVIOUS
<1>1. <<>> \in Boards
  BY DEF Boards
<1>2. ControlTyped /\ PlayTyped
  <2>1. 0 \in 0 .. MaxTurn /\ 0 \in 0 .. MaxFaults /\ 0 \in Nat
    BY ConstantsOK
  <2>2. {} \subseteq Departures
    OBVIOUS
  <2>3. PlayTyped
    BY <1>1, <2>1 DEF Init, PlayTyped
  <2> QED  BY <2>1, <2>2, <2>3 DEF Init, ControlTyped
<1>3. SavesTyped /\ records \subseteq Attempts
  BY DEF Init, SavesTyped
<1>4. \A r \in records : r.index <= 0
  BY DEF Init
<1> QED  BY <1>2, <1>3, <1>4 DEF Init, TurnInv, TypeOK, PlayedTurn, PendingSave,
   Bounded, FreshIndex, RecordBehind, Authoritative


LEMMA TypeStep ==
  ASSUME TurnInv, [Next]_vars
  PROVE  (TypeOK /\ PendingSave)'
<1> USE ConstantsOK, StatusTyped DEF TurnInv, attemptVars, gameVars, saveVars, eventVars, faultVars
<1>1. CASE UNCHANGED vars
  BY <1>1 DEF vars, PendingSave, ControlTyped, PlayTyped, SavesTyped, TypeOK
<1>2. CASE StopAtBoundary
  <2>1. ControlTyped'
    BY <1>2, FaultCounted, Paused DEF StopAtBoundary, Park, RefreshCompleteness,
       ControlTyped, TypeOK
  <2>2. PlayTyped' /\ SavesTyped' /\ PendingSave'
    BY <1>2, NextIndexFresh, EndedBoard, Paused DEF StopAtBoundary, Park,
       PlayTyped, SavesTyped, TypeOK, PendingSave
  <2>3. records' \subseteq Attempts
    BY <1>2 DEF StopAtBoundary, TypeOK
  <2> QED  BY <2>1, <2>2, <2>3 DEF TypeOK
<1>3. CASE PauseAtBoundary
  <2>1. ControlTyped'
    BY <1>3, FaultCounted, Paused DEF PauseAtBoundary, Park, ControlTyped, TypeOK
  <2>2. PlayTyped' /\ SavesTyped' /\ PendingSave'
    BY <1>3, NextIndexFresh, EndedBoard, Paused DEF PauseAtBoundary, Park,
       PlayTyped, SavesTyped, TypeOK, PendingSave
  <2>3. records' \subseteq Attempts
    BY <1>3 DEF PauseAtBoundary, TypeOK
  <2> QED  BY <2>1, <2>2, <2>3 DEF TypeOK
<1>4. CASE BeginTurn
  <2>1. ControlTyped'
    BY <1>4, FaultCounted, Paused DEF BeginTurn, ControlTyped, TypeOK
  <2>2. PlayTyped' /\ SavesTyped' /\ PendingSave'
    BY <1>4, NextIndexFresh, EndedBoard, Paused DEF BeginTurn, PlayTyped,
       SavesTyped, TypeOK, PendingSave
  <2>3. records' \subseteq Attempts
    BY <1>4 DEF BeginTurn, TypeOK
  <2> QED  BY <2>1, <2>2, <2>3 DEF TypeOK
<1>5. CASE TakeQuicksave
  <2>1. ControlTyped'
    BY <1>5, FaultCounted, Paused DEF TakeQuicksave, BeginAttempt, ControlTyped, TypeOK
  <2>2. PlayTyped' /\ SavesTyped' /\ PendingSave'
    BY <1>5, NextIndexFresh, EndedBoard, Paused DEF TakeQuicksave, SaveGame,
       RecordSavePoint, BeginAttempt, Written, PlayTyped, SavesTyped, TypeOK,
       PlayedTurn, PendingSave
  <2>3. records' \subseteq Attempts
    BY <1>5 DEF TakeQuicksave, TypeOK
  <2> QED  BY <2>1, <2>2, <2>3 DEF TypeOK
<1>6. CASE QuicksaveFails
  <2>1. ControlTyped'
    BY <1>6, FaultCounted, Paused DEF QuicksaveFails, ControlTyped, TypeOK
  <2>2. PlayTyped' /\ SavesTyped' /\ PendingSave'
    BY <1>6, NextIndexFresh, EndedBoard, Paused DEF QuicksaveFails, PlayTyped,
       SavesTyped, TypeOK, PendingSave
  <2>3. records' \subseteq Attempts
    BY <1>6 DEF QuicksaveFails, TypeOK
  <2> QED  BY <2>1, <2>2, <2>3 DEF TypeOK
<1>7. CASE CompleteStep
  <2>1. ControlTyped'
    BY <1>7, FaultCounted, Paused DEF CompleteStep, ControlTyped, TypeOK
  <2>2. PlayTyped' /\ SavesTyped' /\ PendingSave'
    BY <1>7, NextIndexFresh, EndedBoard, Paused DEF CompleteStep, PlayTyped,
       SavesTyped, TypeOK, PendingSave
  <2>3. records' \subseteq Attempts
    BY <1>7 DEF CompleteStep, TypeOK
  <2> QED  BY <2>1, <2>2, <2>3 DEF TypeOK
<1>8. CASE AgentEndsTurn
  <2>1. ControlTyped'
    BY <1>8, FaultCounted, Paused DEF AgentEndsTurn, ControlTyped, TypeOK
  <2>2. PlayTyped' /\ SavesTyped' /\ PendingSave'
    BY <1>8, NextIndexFresh, EndedBoard, Paused DEF AgentEndsTurn, PlayTyped,
       SavesTyped, TypeOK, PlayedTurn, PendingSave
  <2>3. records' \subseteq Attempts
    BY <1>8 DEF AgentEndsTurn, TypeOK
  <2> QED  BY <2>1, <2>2, <2>3 DEF TypeOK
<1>9. CASE LoopEndedByAgent
  <2>1. ControlTyped'
    BY <1>9, FaultCounted, Paused DEF LoopEndedByAgent, ControlTyped, TypeOK
  <2>2. PlayTyped' /\ SavesTyped' /\ PendingSave'
    BY <1>9, NextIndexFresh, EndedBoard, Paused DEF LoopEndedByAgent, PlayTyped,
       SavesTyped, TypeOK, PendingSave
  <2>3. records' \subseteq Attempts
    BY <1>9 DEF LoopEndedByAgent, TypeOK
  <2> QED  BY <2>1, <2>2, <2>3 DEF TypeOK
<1>10. CASE LoopEndedOnNoProgress
  <2>1. ControlTyped'
    BY <1>10, FaultCounted, Paused DEF LoopEndedOnNoProgress, ControlTyped, TypeOK
  <2>2. PlayTyped' /\ SavesTyped' /\ PendingSave'
    BY <1>10, NextIndexFresh, EndedBoard, Paused DEF LoopEndedOnNoProgress,
       PlayTyped, SavesTyped, TypeOK, PendingSave
  <2>3. records' \subseteq Attempts
    BY <1>10 DEF LoopEndedOnNoProgress, TypeOK
  <2> QED  BY <2>1, <2>2, <2>3 DEF TypeOK
<1>11. CASE LoopRaises
  <2>1. ControlTyped'
    BY <1>11, FaultCounted, Paused DEF LoopRaises, ControlTyped, TypeOK
  <2>2. PlayTyped' /\ SavesTyped' /\ PendingSave'
    BY <1>11, NextIndexFresh, EndedBoard, Paused DEF LoopRaises, PlayTyped,
       SavesTyped, TypeOK, PendingSave
  <2>3. records' \subseteq Attempts
    BY <1>11 DEF LoopRaises, TypeOK
  <2> QED  BY <2>1, <2>2, <2>3 DEF TypeOK
<1>12. CASE ObservationFails
  <2>1. ControlTyped'
    BY <1>12, FaultCounted, Paused DEF ObservationFails, ControlTyped, TypeOK
  <2>2. PlayTyped' /\ SavesTyped' /\ PendingSave'
    BY <1>12, NextIndexFresh, EndedBoard, Paused DEF ObservationFails,
       PlayTyped, SavesTyped, TypeOK, PendingSave
  <2>3. records' \subseteq Attempts
    <3>1. [turn |-> turn, index |-> attempt, authoritative |-> FALSE,
           abandoned |-> TRUE, began |-> began] \in Attempts
      BY <1>12 DEF ObservationFails, PlayTyped, TypeOK, PlayedTurn, Attempts
    <3> QED  BY <1>12, <3>1 DEF ObservationFails, TypeOK
  <2> QED  BY <2>1, <2>2, <2>3 DEF TypeOK
<1>13. CASE ClientFaultDetected
  <2>1. ControlTyped'
    BY <1>13, FaultCounted, Paused DEF ClientFaultDetected, ControlTyped, TypeOK
  <2>2. PlayTyped' /\ SavesTyped' /\ PendingSave'
    BY <1>13, NextIndexFresh, EndedBoard, Paused DEF ClientFaultDetected,
       PlayTyped, SavesTyped, TypeOK, PendingSave
  <2>3. records' \subseteq Attempts
    BY <1>13 DEF ClientFaultDetected, TypeOK
  <2> QED  BY <2>1, <2>2, <2>3 DEF TypeOK
<1>14. CASE Recover
  <2>1. ControlTyped'
    BY <1>14, FaultCounted, Paused DEF Recover, BeginAttempt, ControlTyped, TypeOK
  <2>2. PlayTyped' /\ SavesTyped' /\ PendingSave'
    BY <1>14, NextIndexFresh, EndedBoard, Paused DEF Recover, Loads, LoadInto,
       BeginAttempt, PlayTyped, SavesTyped, TypeOK, PendingSave
  <2>3. records' \subseteq Attempts
    BY <1>14 DEF Recover, TypeOK
  <2> QED  BY <2>1, <2>2, <2>3 DEF TypeOK
<1>15. CASE StillFaulty
  <2>1. ControlTyped'
    BY <1>15, FaultCounted, Paused DEF StillFaulty, ControlTyped, TypeOK
  <2>2. PlayTyped' /\ SavesTyped' /\ PendingSave'
    BY <1>15, NextIndexFresh, EndedBoard, Paused DEF StillFaulty, Loads,
       LoadInto, PlayTyped, SavesTyped, TypeOK, PendingSave
  <2>3. records' \subseteq Attempts
    BY <1>15 DEF StillFaulty, TypeOK
  <2> QED  BY <2>1, <2>2, <2>3 DEF TypeOK
<1>16. CASE RecoveryFails
  <2>1. ControlTyped'
    BY <1>16, FaultCounted, Paused DEF RecoveryFails, Park, RefreshCompleteness,
       LoadFailed, ControlTyped, TypeOK
  <2>2. PlayTyped' /\ SavesTyped' /\ PendingSave'
    BY <1>16, NextIndexFresh, EndedBoard, Paused DEF RecoveryFails, Park,
       LoadFailed, LoadInto, PlayTyped, SavesTyped, TypeOK, PendingSave
  <2>3. records' \subseteq Attempts
    BY <1>16 DEF RecoveryFails, TypeOK
  <2> QED  BY <2>1, <2>2, <2>3 DEF TypeOK
<1>17. CASE RecoveryFindsNoFile
  <2>1. ControlTyped'
    BY <1>17, FaultCounted, Paused DEF RecoveryFindsNoFile, Park,
       RefreshCompleteness, ControlTyped, TypeOK
  <2>2. PlayTyped' /\ SavesTyped' /\ PendingSave'
    BY <1>17, NextIndexFresh, EndedBoard, Paused DEF RecoveryFindsNoFile, Park,
       Recovering, PlayTyped, SavesTyped, TypeOK, PlayedTurn, PendingSave
  <2>3. records' \subseteq Attempts
    BY <1>17 DEF RecoveryFindsNoFile, TypeOK
  <2> QED  BY <2>1, <2>2, <2>3 DEF TypeOK
<1>18. CASE Persist
  <2>1. ControlTyped'
    BY <1>18, FaultCounted, Paused DEF Persist, Park, RefreshCompleteness,
       TurnReturns, ControlTyped, TypeOK
  <2>2. PlayTyped' /\ SavesTyped' /\ PendingSave'
    BY <1>18, NextIndexFresh, EndedBoard, Paused DEF Persist, Park, TurnReturns,
       PlayTyped, SavesTyped, TypeOK, PendingSave
  <2>3. records' \subseteq Attempts
    <3>1. [turn |-> turn, index |-> attempt, authoritative |-> TRUE,
           abandoned |-> FALSE, began |-> began] \in Attempts
      BY <1>18 DEF Persist, PlayTyped, TypeOK, PlayedTurn, Attempts
    <3> QED  BY <1>18, <3>1 DEF Persist, TypeOK
  <2> QED  BY <2>1, <2>2, <2>3 DEF TypeOK
<1>19. CASE PersistFails
  <2>1. ControlTyped'
    BY <1>19, FaultCounted, Paused DEF PersistFails, ControlTyped, TypeOK
  <2>2. PlayTyped' /\ SavesTyped' /\ PendingSave'
    BY <1>19, NextIndexFresh, EndedBoard, Paused DEF PersistFails, PlayTyped,
       SavesTyped, TypeOK, PendingSave
  <2>3. records' \subseteq Attempts
    BY <1>19 DEF PersistFails, TypeOK
  <2> QED  BY <2>1, <2>2, <2>3 DEF TypeOK
<1>20. CASE BackstopEndsTurn
  <2>1. ControlTyped'
    BY <1>20, FaultCounted, Paused DEF BackstopEndsTurn, Park,
       RefreshCompleteness, TurnReturns, ControlTyped, TypeOK
  <2>2. PlayTyped' /\ SavesTyped' /\ PendingSave'
    BY <1>20, NextIndexFresh, EndedBoard, Paused DEF BackstopEndsTurn, Park,
       TurnReturns, PlayTyped, SavesTyped, TypeOK, PlayedTurn, PendingSave
  <2>3. records' \subseteq Attempts
    BY <1>20 DEF BackstopEndsTurn, TypeOK
  <2> QED  BY <2>1, <2>2, <2>3 DEF TypeOK
<1>21. CASE BackstopFails
  <2>1. ControlTyped'
    BY <1>21, FaultCounted, Paused DEF BackstopFails, ControlTyped, TypeOK
  <2>2. PlayTyped' /\ SavesTyped' /\ PendingSave'
    BY <1>21, NextIndexFresh, EndedBoard, Paused DEF BackstopFails, PlayTyped,
       SavesTyped, TypeOK, PendingSave
  <2>3. records' \subseteq Attempts
    BY <1>21 DEF BackstopFails, TypeOK
  <2> QED  BY <2>1, <2>2, <2>3 DEF TypeOK
<1>22. CASE Resume
  <2>1. ControlTyped'
    BY <1>22, FaultCounted, Paused DEF Resume, ControlTyped, TypeOK
  <2>2. PlayTyped' /\ SavesTyped' /\ PendingSave'
    BY <1>22, NextIndexFresh, EndedBoard, Paused DEF Resume, PlayTyped,
       SavesTyped, TypeOK, PendingSave
  <2>3. records' \subseteq Attempts
    BY <1>22 DEF Resume, TypeOK
  <2> QED  BY <2>1, <2>2, <2>3 DEF TypeOK
<1>23. ASSUME NEW t \in Turns, ResumeFrom(t) PROVE (TypeOK /\ PendingSave)'
  <2>1. ControlTyped'
    BY <1>23, FaultCounted, Paused DEF ResumeFrom, RefreshCompleteness,
       ControlTyped, TypeOK
  <2>2. PlayTyped' /\ SavesTyped' /\ PendingSave'
    <3>1. turn' \in 0 .. MaxTurn
      BY <1>23 DEF ResumeFrom, RewoundTo, Turns
    <3>2. board' \in Boards /\ client' = "game"
      BY <1>23 DEF ResumeFrom, Loads, LoadInto, SavesTyped, TypeOK
    <3> QED
      BY <1>23, <3>1, <3>2 DEF ResumeFrom, PlayTyped, SavesTyped, TypeOK, PendingSave
  <2>3. records' \subseteq Attempts
    BY <1>23 DEF ResumeFrom, PlayTyped, TypeOK, PlayedTurn, Attempts
  <2> QED  BY <2>1, <2>2, <2>3 DEF TypeOK
<1>24. ASSUME NEW t \in Turns, ResumeFromFails(t) PROVE (TypeOK /\ PendingSave)'
  <2>1. ControlTyped'
    BY <1>24, FaultCounted, Paused DEF ResumeFromFails, LoadFailed, ControlTyped, TypeOK
  <2>2. PlayTyped' /\ SavesTyped' /\ PendingSave'
    BY <1>24, NextIndexFresh, EndedBoard, Paused DEF ResumeFromFails,
       LoadFailed, LoadInto, PlayTyped, SavesTyped, TypeOK, PendingSave
  <2>3. records' \subseteq Attempts
    BY <1>24 DEF ResumeFromFails, TypeOK
  <2> QED  BY <2>1, <2>2, <2>3 DEF TypeOK
<1>25. ASSUME NEW t \in Turns, ResumeFromFindsNoFile(t) PROVE (TypeOK /\ PendingSave)'
  <2>1. ControlTyped'
    BY <1>25, FaultCounted, Paused DEF ResumeFromFindsNoFile, Rewindable,
       ControlTyped, TypeOK
  <2>2. PlayTyped' /\ SavesTyped' /\ PendingSave'
    BY <1>25, NextIndexFresh, EndedBoard, Paused DEF ResumeFromFindsNoFile,
       Rewindable, PlayTyped, SavesTyped, TypeOK, PendingSave
  <2>3. records' \subseteq Attempts
    BY <1>25 DEF ResumeFromFindsNoFile, TypeOK
  <2> QED  BY <2>1, <2>2, <2>3 DEF TypeOK
<1>26. CASE ClientDies
  <2>1. ControlTyped'
    BY <1>26, FaultCounted, Paused DEF ClientDies, ControlTyped, TypeOK
  <2>2. PlayTyped' /\ SavesTyped' /\ PendingSave'
    BY <1>26, NextIndexFresh, EndedBoard, Paused DEF ClientDies, PlayTyped,
       SavesTyped, TypeOK, PendingSave
  <2>3. records' \subseteq Attempts
    BY <1>26 DEF ClientDies, TypeOK
  <2> QED  BY <2>1, <2>2, <2>3 DEF TypeOK
<1>27. CASE ClientRelaunched
  <2>1. ControlTyped'
    BY <1>27, FaultCounted, Paused DEF ClientRelaunched, ControlTyped, TypeOK
  <2>2. PlayTyped' /\ SavesTyped' /\ PendingSave'
    BY <1>27, NextIndexFresh, EndedBoard, Paused DEF ClientRelaunched,
       PlayTyped, SavesTyped, TypeOK, PendingSave
  <2>3. records' \subseteq Attempts
    BY <1>27 DEF ClientRelaunched, TypeOK
  <2> QED  BY <2>1, <2>2, <2>3 DEF TypeOK
<1>28. CASE SaveLands
  <2>1. ControlTyped'
    BY <1>28, FaultCounted, Paused DEF SaveLands, Written, ControlTyped, TypeOK
  <2>2. PlayTyped' /\ SavesTyped' /\ PendingSave'
    BY <1>28, NextIndexFresh, EndedBoard, Paused DEF SaveLands, Written,
       PlayTyped, SavesTyped, TypeOK, PendingSave
  <2>3. records' \subseteq Attempts
    BY <1>28 DEF SaveLands, TypeOK
  <2> QED  BY <2>1, <2>2, <2>3 DEF TypeOK
<1>29. ASSUME NEW t \in Turns, FileLost(t) PROVE (TypeOK /\ PendingSave)'
  <2>1. ControlTyped'
    BY <1>29, FaultCounted, Paused DEF FileLost, ControlTyped, TypeOK
  <2>2. PlayTyped' /\ SavesTyped' /\ PendingSave'
    BY <1>29, NextIndexFresh, EndedBoard, Paused DEF FileLost, PlayTyped,
       SavesTyped, TypeOK, PendingSave
  <2>3. records' \subseteq Attempts
    BY <1>29 DEF FileLost, TypeOK
  <2> QED  BY <2>1, <2>2, <2>3 DEF TypeOK
<1> QED
  BY <1>1, <1>2, <1>3, <1>4, <1>5, <1>6, <1>7, <1>8, <1>9, <1>10, <1>11, <1>12,
     <1>13, <1>14, <1>15, <1>16, <1>17, <1>18, <1>19, <1>20, <1>21, <1>22,
     <1>23, <1>24, <1>25, <1>26, <1>27, <1>28, <1>29
     DEF Next, PlayLoop, Operator, World

LEMMA RecordStep ==
  ASSUME TurnInv, [Next]_vars
  PROVE  (PlayedTurn /\ Bounded /\ FreshIndex /\ RecordBehind)'
<1> USE ConstantsOK, StatusTyped DEF TurnInv, attemptVars, gameVars, saveVars, eventVars, faultVars
<1>1. CASE UNCHANGED vars
  BY <1>1 DEF vars, PlayedTurn, Bounded, FreshIndex, RecordBehind, RecordsOf,
     Authoritative
<1>2. CASE StopAtBoundary
  BY <1>2, NextIndexFresh DEF StopAtBoundary, Park, PlayedTurn, Bounded,
     FreshIndex, RecordBehind, Authoritative
<1>3. CASE PauseAtBoundary
  BY <1>3, NextIndexFresh DEF PauseAtBoundary, Park, PlayedTurn, Bounded,
     FreshIndex, RecordBehind, Authoritative
<1>4. CASE BeginTurn
  <2>1. turn' = turn + 1 /\ attempt' = NextAttemptIndex(turn + 1) /\ pc' = "quicksave"
        /\ records' = records /\ turn + 1 \in Turns
    BY <1>4 DEF BeginTurn, PlayTyped, TypeOK, Turns
  <2>2. FreshIndex'
    BY <2>1, NextIndexFresh DEF FreshIndex, RecordsOf, TypeOK
  <2>3. RecordBehind'
    BY <2>1 DEF RecordBehind, Authoritative, PlayTyped, TypeOK, Attempts, Turns
  <2> QED  BY <2>1, <2>2, <2>3 DEF PlayedTurn, Bounded
<1>5. CASE TakeQuicksave
  BY <1>5, NextIndexFresh DEF TakeQuicksave, RecordSavePoint, BeginAttempt,
     PlayedTurn, Bounded, FreshIndex, RecordBehind, RecordsOf, Authoritative
<1>6. CASE QuicksaveFails
  BY <1>6, NextIndexFresh DEF QuicksaveFails, Park, PauseOnFailure, PlayedTurn,
     Bounded, FreshIndex, RecordBehind, Authoritative
<1>7. CASE CompleteStep
  BY <1>7, NextIndexFresh DEF CompleteStep, PlayedTurn, Bounded, FreshIndex,
     RecordBehind, RecordsOf, Authoritative
<1>8. CASE AgentEndsTurn
  BY <1>8, NextIndexFresh DEF AgentEndsTurn, PlayedTurn, Bounded, FreshIndex,
     RecordBehind, RecordsOf, Authoritative
<1>9. CASE LoopEndedByAgent
  BY <1>9, NextIndexFresh DEF LoopEndedByAgent, PlayedTurn, Bounded, FreshIndex,
     RecordBehind, RecordsOf, Authoritative
<1>10. CASE LoopEndedOnNoProgress
  BY <1>10, NextIndexFresh DEF LoopEndedOnNoProgress, PlayedTurn, Bounded,
     FreshIndex, RecordBehind, RecordsOf, Authoritative
<1>11. CASE LoopRaises
  BY <1>11, NextIndexFresh DEF LoopRaises, Park, PauseOnFailure, PlayedTurn,
     Bounded, FreshIndex, RecordBehind, Authoritative
<1>12. CASE ObservationFails
  BY <1>12, NextIndexFresh DEF ObservationFails, TypeOK, PlayTyped, PlayedTurn,
     Bounded, FreshIndex, RecordBehind, RecordsOf, Authoritative, Attempts
<1>13. CASE ClientFaultDetected
  BY <1>13, NextIndexFresh DEF ClientFaultDetected, PlayedTurn, Bounded,
     FreshIndex, RecordBehind, RecordsOf, Authoritative
<1>14. CASE Recover
  BY <1>14, NextIndexFresh DEF Recover, Recovering, BeginAttempt, TypeOK,
     PlayTyped, PlayedTurn, Bounded, FreshIndex, RecordBehind, RecordsOf,
     Authoritative, Attempts
<1>15. CASE StillFaulty
  BY <1>15, NextIndexFresh DEF StillFaulty, Park, PauseOnFailure, PlayedTurn,
     Bounded, FreshIndex, RecordBehind, Authoritative
<1>16. CASE RecoveryFails
  BY <1>16, NextIndexFresh DEF RecoveryFails, Park, PlayedTurn, Bounded,
     FreshIndex, RecordBehind, Authoritative
<1>17. CASE RecoveryFindsNoFile
  BY <1>17, NextIndexFresh DEF RecoveryFindsNoFile, Park, PlayedTurn, Bounded,
     FreshIndex, RecordBehind, Authoritative
<1>18. CASE Persist
  BY <1>18, NextIndexFresh DEF Persist, Park, TurnReturns, TypeOK, PlayTyped,
     PlayedTurn, Bounded, FreshIndex, RecordBehind, Authoritative, Attempts
<1>19. CASE PersistFails
  BY <1>19, NextIndexFresh DEF PersistFails, Park, PauseOnFailure, PlayedTurn,
     Bounded, FreshIndex, RecordBehind, Authoritative
<1>20. CASE BackstopEndsTurn
  BY <1>20, NextIndexFresh DEF BackstopEndsTurn, Park, TurnReturns, PlayedTurn,
     Bounded, FreshIndex, RecordBehind, Authoritative
<1>21. CASE BackstopFails
  BY <1>21, NextIndexFresh DEF BackstopFails, Park, PauseOnFailure, PlayedTurn,
     Bounded, FreshIndex, RecordBehind, Authoritative
<1>22. CASE Resume
  BY <1>22, NextIndexFresh DEF Resume, PlayedTurn, Bounded, FreshIndex,
     RecordBehind, Authoritative
<1>23. ASSUME NEW t \in Turns, ResumeFrom(t)
      PROVE  (PlayedTurn /\ Bounded /\ FreshIndex /\ RecordBehind)'
  <2>1. pc' = "top" /\ turn' = t - 1
        /\ records' = {[r EXCEPT !.authoritative = @ /\ r.turn < t] : r \in records}
    BY <1>23 DEF ResumeFrom, RewoundTo
  <2>2. \A q \in records' :
           \E r \in records :
             q.turn = r.turn /\ q.index = r.index /\ (q.authoritative => r.turn < t)
    BY <2>1 DEF TypeOK, Attempts
  <2>3. Bounded'
    <3>1. PICK n \in Nat : \A r \in records : r.index <= n
      BY DEF Bounded
    <3>2. \A q \in records' : q.index <= n
      BY <2>2, <3>1
    <3> QED  BY <3>2 DEF Bounded
  <2>4. RecordBehind'
    <3> SUFFICES ASSUME NEW q \in records', q.authoritative PROVE q.turn <= t - 1
      BY <2>1 DEF RecordBehind, Authoritative
    <3>1. PICK r \in records : q.turn = r.turn /\ r.turn < t
      BY <2>2
    <3>2. r.turn \in Int /\ t \in Int
      BY DEF TypeOK, Attempts, Turns
    <3> QED  BY <3>1, <3>2
  <2> QED  BY <2>1, <2>3, <2>4 DEF PlayedTurn, FreshIndex
<1>24. ASSUME NEW t \in Turns, ResumeFromFails(t)
      PROVE  (PlayedTurn /\ Bounded /\ FreshIndex /\ RecordBehind)'
  BY <1>24, NextIndexFresh DEF ResumeFromFails, PlayedTurn, Bounded, FreshIndex,
     RecordBehind, RecordsOf, Authoritative
<1>25. ASSUME NEW t \in Turns, ResumeFromFindsNoFile(t)
      PROVE  (PlayedTurn /\ Bounded /\ FreshIndex /\ RecordBehind)'
  BY <1>25, NextIndexFresh DEF ResumeFromFindsNoFile, PlayedTurn, Bounded,
     FreshIndex, RecordBehind, RecordsOf, Authoritative
<1>26. CASE ClientDies
  BY <1>26, NextIndexFresh DEF ClientDies, PlayedTurn, Bounded, FreshIndex,
     RecordBehind, RecordsOf, Authoritative
<1>27. CASE ClientRelaunched
  BY <1>27, NextIndexFresh DEF ClientRelaunched, PlayedTurn, Bounded,
     FreshIndex, RecordBehind, RecordsOf, Authoritative
<1>28. CASE SaveLands
  BY <1>28, NextIndexFresh DEF SaveLands, PlayedTurn, Bounded, FreshIndex,
     RecordBehind, RecordsOf, Authoritative
<1>29. ASSUME NEW t \in Turns, FileLost(t)
      PROVE  (PlayedTurn /\ Bounded /\ FreshIndex /\ RecordBehind)'
  BY <1>29, NextIndexFresh DEF FileLost, PlayedTurn, Bounded, FreshIndex,
     RecordBehind, RecordsOf, Authoritative
<1> QED
  BY <1>1, <1>2, <1>3, <1>4, <1>5, <1>6, <1>7, <1>8, <1>9, <1>10, <1>11, <1>12,
     <1>13, <1>14, <1>15, <1>16, <1>17, <1>18, <1>19, <1>20, <1>21, <1>22,
     <1>23, <1>24, <1>25, <1>26, <1>27, <1>28, <1>29
     DEF Next, PlayLoop, Operator, World

(* The persisted status is re-derived by every action that stops the run,  *)
(* and what it is derived from does not change while the run is stopped.   *)
LEMMA StatusStep ==
  ASSUME StatusTruthfulAtStop, [Next]_vars
  PROVE  StatusTruthfulAtStop'
<1> USE DEF attemptVars, gameVars, saveVars, eventVars, faultVars
<1>1. CASE UNCHANGED vars
  BY <1>1 DEF vars, StatusTruthfulAtStop, Derived, Completeness, TurnGaps
<1>2. CASE StopAtBoundary
  BY <1>2 DEF StopAtBoundary, RefreshCompleteness, StatusTruthfulAtStop,
     Derived, Completeness, TurnGaps
<1>3. CASE PauseAtBoundary
  BY <1>3 DEF PauseAtBoundary, Park, StatusTruthfulAtStop
<1>4. CASE BeginTurn
  BY <1>4 DEF BeginTurn, StatusTruthfulAtStop
<1>5. CASE TakeQuicksave
  BY <1>5 DEF TakeQuicksave, StatusTruthfulAtStop
<1>6. CASE QuicksaveFails
  BY <1>6 DEF QuicksaveFails, RefreshCompleteness, PauseOnFailure,
     StatusTruthfulAtStop, Derived, Completeness, TurnGaps
<1>7. CASE CompleteStep
  BY <1>7 DEF CompleteStep, StatusTruthfulAtStop
<1>8. CASE AgentEndsTurn
  BY <1>8 DEF AgentEndsTurn, StatusTruthfulAtStop
<1>9. CASE LoopEndedByAgent
  BY <1>9 DEF LoopEndedByAgent, StatusTruthfulAtStop
<1>10. CASE LoopEndedOnNoProgress
  BY <1>10 DEF LoopEndedOnNoProgress, StatusTruthfulAtStop
<1>11. CASE LoopRaises
  BY <1>11 DEF LoopRaises, RefreshCompleteness, PauseOnFailure,
     StatusTruthfulAtStop, Derived, Completeness, TurnGaps
<1>12. CASE ObservationFails
  BY <1>12 DEF ObservationFails, RefreshCompleteness, PauseOnFailure,
     StatusTruthfulAtStop, Derived, Completeness, TurnGaps
<1>13. CASE ClientFaultDetected
  BY <1>13 DEF ClientFaultDetected, StatusTruthfulAtStop
<1>14. CASE Recover
  BY <1>14 DEF Recover, StatusTruthfulAtStop
<1>15. CASE StillFaulty
  BY <1>15 DEF StillFaulty, RefreshCompleteness, PauseOnFailure,
     StatusTruthfulAtStop, Derived, Completeness, TurnGaps
<1>16. CASE RecoveryFails
  BY <1>16 DEF RecoveryFails, RefreshCompleteness, StatusTruthfulAtStop,
     Derived, Completeness, TurnGaps
<1>17. CASE RecoveryFindsNoFile
  BY <1>17 DEF RecoveryFindsNoFile, RefreshCompleteness, StatusTruthfulAtStop,
     Derived, Completeness, TurnGaps
<1>18. CASE Persist
  BY <1>18 DEF Persist, RefreshCompleteness, TurnReturns, StatusTruthfulAtStop,
     Derived, Completeness, TurnGaps
<1>19. CASE PersistFails
  BY <1>19 DEF PersistFails, RefreshCompleteness, PauseOnFailure,
     StatusTruthfulAtStop, Derived, Completeness, TurnGaps
<1>20. CASE BackstopEndsTurn
  BY <1>20 DEF BackstopEndsTurn, RefreshCompleteness, TurnReturns,
     StatusTruthfulAtStop, Derived, Completeness, TurnGaps
<1>21. CASE BackstopFails
  BY <1>21 DEF BackstopFails, RefreshCompleteness, PauseOnFailure,
     StatusTruthfulAtStop, Derived, Completeness, TurnGaps
<1>22. CASE Resume
  BY <1>22 DEF Resume, StatusTruthfulAtStop
<1>23. ASSUME NEW t \in Turns, ResumeFrom(t) PROVE StatusTruthfulAtStop'
  BY <1>23 DEF ResumeFrom, StatusTruthfulAtStop
<1>24. ASSUME NEW t \in Turns, ResumeFromFails(t) PROVE StatusTruthfulAtStop'
  BY <1>24 DEF ResumeFromFails, StatusTruthfulAtStop
<1>25. ASSUME NEW t \in Turns, ResumeFromFindsNoFile(t) PROVE StatusTruthfulAtStop'
  BY <1>25 DEF ResumeFromFindsNoFile, StatusTruthfulAtStop
<1>26. CASE ClientDies
  BY <1>26 DEF ClientDies, StatusTruthfulAtStop, Derived, Completeness, TurnGaps
<1>27. CASE ClientRelaunched
  BY <1>27 DEF ClientRelaunched, StatusTruthfulAtStop, Derived, Completeness, TurnGaps
<1>28. CASE SaveLands
  BY <1>28 DEF SaveLands, StatusTruthfulAtStop, Derived, Completeness, TurnGaps
<1>29. ASSUME NEW t \in Turns, FileLost(t) PROVE StatusTruthfulAtStop'
  BY <1>29 DEF FileLost, StatusTruthfulAtStop, Derived, Completeness, TurnGaps
<1> QED
  BY <1>1, <1>2, <1>3, <1>4, <1>5, <1>6, <1>7, <1>8, <1>9, <1>10, <1>11, <1>12,
     <1>13, <1>14, <1>15, <1>16, <1>17, <1>18, <1>19, <1>20, <1>21, <1>22,
     <1>23, <1>24, <1>25, <1>26, <1>27, <1>28, <1>29
     DEF Next, PlayLoop, Operator, World

-----------------------------------------------------------------------------
LEMMA TurnInvariant == Spec => []TurnInv
<1>1. TurnInv /\ [Next]_vars => TurnInv'
  BY TypeStep, RecordStep DEF TurnInv
<1> QED  BY TurnInit, <1>1, PTL DEF Spec

(* Every reachable state has the types the design gives it, the stored     *)
(* records included.                                                       *)
THEOREM TurnTyped == Spec => []TypeOK
<1>1. TurnInv => TypeOK
  BY DEF TurnInv
<1> QED  BY <1>1, TurnInvariant, PTL

(* write_turn_cycle never refuses a turn's record (D4, I9): its index is   *)
(* its own and no other attempt at the turn is authoritative.              *)
THEOREM RecordAccepted == Spec => []PersistNeverRefused
<1>1. TurnInv => PersistNeverRefused
  BY DEF TurnInv, TypeOK, FreshIndex, RecordBehind, PersistNeverRefused,
     WriteRefused, RecordsOf, AuthoritativeTurns, Authoritative, Attempts, Turns
<1> QED  BY <1>1, TurnInvariant, PTL

(* When the runner has recorded a stop, the persisted completeness status  *)
(* is what the stored record says.                                         *)
THEOREM StatusKept == Spec => []StatusTruthfulAtStop
<1>1. Init => StatusTruthfulAtStop
  BY DEF Init, StatusTruthfulAtStop
<1>2. StatusTruthfulAtStop /\ [Next]_vars => StatusTruthfulAtStop'
  BY StatusStep
<1> QED  BY <1>1, <1>2, PTL DEF Spec

-----------------------------------------------------------------------------
(* What the audits rest on: an attempt on record as abandoned is not       *)
(* authoritative; a turn that was abandoned had its save recorded; nothing *)
(* plays a stopped run, nor does a run stop being played unsaid; and only  *)
(* a rewind that failed leaves a run resuming.                             *)
Audited ==
  /\ \A r \in records : ~(r.abandoned /\ r.authoritative)
  /\ abandonments \subseteq saved
  /\ pc = "parked" <=> lifecycle # "playing"
  /\ "rewind" \notin departures => \A q \in resumptions : q.paired

(* A run found playing has its abandonment recorded with its resumption. *)
LEMMA Paired ==
  ASSUME NEW t, Resumed(t), lifecycle # "resuming"
  PROVE  /\ abandonments' = abandonments \cup {t}
         /\ \A q \in resumptions' : q \in resumptions \/ q.paired
<1>1. abandonments' = abandonments \cup {t}
  BY DEF Resumed, Abandoned
<1> DEFINE e == [turn |-> t, paired |-> t \in abandonments']
<1>2. e.paired <=> t \in abandonments'
  BY Zenon
<1>3. resumptions' = resumptions \cup {e}
  BY DEF Resumed
<1> HIDE DEF e
<1> QED  BY <1>1, <1>2, <1>3

(* Every step keeps Audited. *)
LEMMA AuditedStep ==
  TypeOK /\ PlayedTurn /\ Audited /\ [Next]_vars => Audited'
<1> SUFFICES ASSUME TypeOK, PlayedTurn, Audited, [Next]_vars PROVE Audited'
  OBVIOUS
<1> USE DEF Audited
<1>1. CASE UNCHANGED vars
  BY <1>1 DEF vars, saveVars, eventVars, faultVars
<1>2. CASE StopAtBoundary
  BY <1>2 DEF StopAtBoundary, Park, saveVars, eventVars, faultVars
<1>3. CASE PauseAtBoundary
  BY <1>3 DEF PauseAtBoundary, Park, saveVars, eventVars, faultVars
<1>4. CASE BeginTurn
  BY <1>4 DEF BeginTurn, saveVars, eventVars, faultVars
<1>5. CASE TakeQuicksave
  BY <1>5 DEF TakeQuicksave, RecordSavePoint, eventVars, faultVars
<1>6. CASE QuicksaveFails
  BY <1>6 DEF QuicksaveFails, Park, PauseOnFailure, Injected, saveVars,
     eventVars, faultVars
<1>7. CASE CompleteStep
  BY <1>7 DEF CompleteStep, saveVars, eventVars, faultVars
<1>8. CASE AgentEndsTurn
  BY <1>8 DEF AgentEndsTurn, Injected, saveVars, eventVars, faultVars
<1>9. CASE LoopEndedByAgent
  BY <1>9 DEF LoopEndedByAgent, saveVars, eventVars, faultVars
<1>10. CASE LoopEndedOnNoProgress
  BY <1>10 DEF LoopEndedOnNoProgress, saveVars, eventVars, faultVars
<1>11. CASE LoopRaises
  BY <1>11 DEF LoopRaises, Park, PauseOnFailure, Injected, saveVars, eventVars
<1>12. CASE ObservationFails
  BY <1>12 DEF ObservationFails, Park, PauseOnFailure, Injected, saveVars, eventVars
<1>13. CASE ClientFaultDetected
  BY <1>13 DEF ClientFaultDetected, saveVars, eventVars, faultVars
<1>14. CASE Recover
  BY <1>14, Paired DEF Recover, Recovering, saveVars, faultVars, PlayedTurn
<1>15. CASE StillFaulty
  BY <1>15, Paired DEF StillFaulty, Park, PauseOnFailure, Injected, saveVars, PlayedTurn
<1>16. CASE RecoveryFails
  BY <1>16 DEF RecoveryFails, Recovering, LoadFailed, AbandonedOnly, Abandoned,
     Park, Injected, saveVars, faultVars, PlayedTurn
<1>17. CASE RecoveryFindsNoFile
  BY <1>17 DEF RecoveryFindsNoFile, Recovering, AbandonedOnly, Abandoned, Park,
     faultVars, PlayedTurn
<1>18. CASE Persist
  BY <1>18 DEF Persist, TurnReturns, Park, saveVars, eventVars, faultVars
<1>19. CASE PersistFails
  BY <1>19 DEF PersistFails, Park, PauseOnFailure, Injected, saveVars,
     eventVars, faultVars
<1>20. CASE BackstopEndsTurn
  BY <1>20 DEF BackstopEndsTurn, TurnReturns, Park, saveVars, eventVars, faultVars
<1>21. CASE BackstopFails
  BY <1>21 DEF BackstopFails, Park, PauseOnFailure, Injected, saveVars,
     eventVars, faultVars
<1>22. CASE Resume
  BY <1>22 DEF Resume, Injected, saveVars, eventVars, faultVars
<1>23. ASSUME NEW t \in Turns, ResumeFrom(t) PROVE Audited'
  <2>1. "rewind" \in departures'
    BY <1>23 DEF ResumeFrom, Injected, Departures
  <2>2. ASSUME NEW r \in records' PROVE ~(r.abandoned /\ r.authoritative)
    <3>1. PICK q \in records : r = [q EXCEPT !.authoritative = @ /\ q.turn < t]
      BY <1>23 DEF ResumeFrom
    <3>2. q \in Attempts /\ ~(q.abandoned /\ q.authoritative)
      BY DEF TypeOK
    <3> QED  BY <3>1, <3>2 DEF Attempts
  <2>3. abandonments' \subseteq saved /\ saved' = saved
    BY <1>23 DEF ResumeFrom, Resumed, Abandoned, Rewindable, saveVars
  <2> QED  BY <1>23, <2>1, <2>2, <2>3 DEF ResumeFrom
<1>24. ASSUME NEW t \in Turns, ResumeFromFails(t) PROVE Audited'
  BY <1>24 DEF ResumeFromFails, Rewindable, LoadFailed, AbandonedOnly,
     Abandoned, Injected, saveVars, faultVars
<1>25. ASSUME NEW t \in Turns, ResumeFromFindsNoFile(t) PROVE Audited'
  BY <1>25 DEF ResumeFromFindsNoFile, Rewindable, AbandonedOnly, Abandoned, faultVars
<1>26. CASE ClientDies
  BY <1>26 DEF ClientDies, Injected, eventVars
<1>27. CASE ClientRelaunched
  BY <1>27 DEF ClientRelaunched, saveVars, eventVars, faultVars
<1>28. CASE SaveLands
  BY <1>28 DEF SaveLands, eventVars, faultVars
<1>29. ASSUME NEW t \in Turns, FileLost(t) PROVE Audited'
  BY <1>29 DEF FileLost, Injected, eventVars
<1> QED
  BY <1>1, <1>2, <1>3, <1>4, <1>5, <1>6, <1>7, <1>8, <1>9, <1>10, <1>11, <1>12,
     <1>13, <1>14, <1>15, <1>16, <1>17, <1>18, <1>19, <1>20, <1>21, <1>22,
     <1>23, <1>24, <1>25, <1>26, <1>27, <1>28, <1>29
     DEF Next, PlayLoop, Operator, World

(* The latest attempt at a turn that has any is one of them. *)
LEMMA LatestIsOne ==
  ASSUME TypeOK, Bounded, NEW t, RecordsOf(t) # {}
  PROVE  Latest(RecordsOf(t)) \in RecordsOf(t)
<1> DEFINE S == {r.index : r \in RecordsOf(t)}
<1>1. S \subseteq Nat /\ S # {}
  BY DEF RecordsOf, TypeOK, Attempts
<1>2. PICK n \in Nat : \A s \in S : s <= n
  BY DEF Bounded, RecordsOf
<1>3. MaxOf(S) \in S /\ \A y \in S : y <= MaxOf(S)
  BY <1>1, <1>2, MaxIsMax
<1>4. \E r \in RecordsOf(t) : \A q \in RecordsOf(t) : q.index <= r.index
  BY <1>3
<1> QED  BY <1>4 DEF Latest

(* A turn with a save and no attempt is a gap of a run that has stopped. *)
LEMMA StoppedGap ==
  ASSUME TypeOK, lifecycle # "playing", NEW t \in saved, RecordsOf(t) = {}
  PROVE  t \in TurnGaps(lifecycle, records)
<1> DEFINE S == {0} \cup AuthoritativeTurns(records) \cup saved
<1>0. MaxTurn \in Nat /\ saved \subseteq Turns /\ records \subseteq Attempts
  BY ConstantsOK DEF TypeOK, SavesTyped
<1>1. AuthoritativeTurns(records) \subseteq Turns
  BY <1>0 DEF AuthoritativeTurns, Attempts
<1>2. S \subseteq Nat /\ S # {} /\ \A s \in S : s <= MaxTurn
  <2>1. \A s \in Turns : s \in Nat /\ s <= MaxTurn
    BY <1>0 DEF Turns
  <2> QED  BY <1>0, <1>1, <2>1
<1>3. MaxOf(S) \in S /\ \A y \in S : y <= MaxOf(S)
  BY <1>0, <1>2, MaxIsMax
<1>4. t \in 1 .. MaxOf(S)
  <2>1. t \in S /\ t \in Nat /\ t >= 1
    BY <1>0 DEF Turns
  <2> HIDE DEF S
  <2> QED  BY <1>2, <1>3, <2>1
<1>5. t \notin AuthoritativeTurns(records)
  BY DEF AuthoritativeTurns, RecordsOf
<1> QED  BY <1>4, <1>5 DEF TurnGaps

(* What each of the recovery audit's findings says. *)
LEMMA RecoveryFindings ==
  ASSUME NEW f \in AuditRecovery(abandonments, resumptions, records)
  PROVE  \/ /\ f.kind = "resumed_without_abandonment"
            /\ \E q \in resumptions : ~q.paired
         \/ /\ f.kind = "abandoned_turn_missing_from_record"
            /\ f.turn \in abandonments /\ RecordsOf(f.turn) = {}
         \/ /\ f.kind = "abandoned_attempt_still_authoritative"
            /\ \E u \in abandonments :
                 /\ RecordsOf(u) # {}
                 /\ Latest(RecordsOf(u)).abandoned /\ Latest(RecordsOf(u)).authoritative
<1> DEFINE unpaired == {Finding("resumed_without_abandonment", r.turn, 0) :
                          r \in {q \in resumptions : ~q.paired}}
           missing == {Finding("abandoned_turn_missing_from_record", t, 0) :
                         t \in {u \in abandonments : RecordsOf(u) = {}}}
           latest == {Finding("abandoned_attempt_still_authoritative", t, 0) :
                        t \in {u \in abandonments :
                                /\ RecordsOf(u) # {}
                                /\ Latest(RecordsOf(u)).abandoned
                                /\ Latest(RecordsOf(u)).authoritative}}
<1>1. f \in unpaired \cup missing \cup latest
  BY DEF AuditRecovery, RecordsOf
<1>2. CASE f \in unpaired
  BY <1>2 DEF Finding
<1>3. CASE f \in missing
  BY <1>3 DEF Finding
<1>4. CASE f \in latest
  BY <1>4 DEF Finding
<1> QED  BY <1>1, <1>2, <1>3, <1>4

(* The audits of recovery and of completeness say the same of a run: no    *)
(* abandoned attempt is authoritative, every resumption has its            *)
(* abandonment until an operator rewinds, and an abandoned turn with no    *)
(* attempt on record is a gap the completeness audit names (audit.py).     *)
THEOREM AuditsConsistent == Spec => []AuditsAgree
<1>1. Init => Audited
  BY DEF Init, Audited
<1>2. TurnInv /\ Audited /\ [Next]_vars => Audited'
  BY AuditedStep DEF TurnInv
<1>3. TurnInv /\ Audited => AuditsAgree
  <2> SUFFICES ASSUME TurnInv, Audited PROVE AuditsAgree
    OBVIOUS
  <2> DEFINE found == AuditRecovery(abandonments, resumptions, records)
             holes == AuditCompleteness(TurnGaps(lifecycle, records), 0)
  <2>0. TypeOK /\ Bounded /\ \A t : RecordsOf(t) = {r \in records : r.turn = t}
    BY DEF TurnInv, RecordsOf
  <2>1. ASSUME NEW f \in found
        PROVE  /\ f.kind # "abandoned_attempt_still_authoritative"
               /\ "rewind" \notin departures => f.kind # "resumed_without_abandonment"
    <3>1. ASSUME NEW u \in abandonments, RecordsOf(u) # {}, Latest(RecordsOf(u)).abandoned,
                 Latest(RecordsOf(u)).authoritative
          PROVE  FALSE
      <4>1. Latest(RecordsOf(u)) \in records
        BY <2>0, <3>1, LatestIsOne
      <4> QED  BY <3>1, <4>1 DEF Audited
    <3> QED  BY <3>1, RecoveryFindings DEF Audited
  <2>2. ASSUME NEW f \in found, f.kind = "abandoned_turn_missing_from_record", pc = "parked"
        PROVE  Finding("turn_gap", f.turn, 0) \in holes
    <3>1. f.turn \in abandonments /\ RecordsOf(f.turn) = {}
      BY <2>2, RecoveryFindings
    <3>2. f.turn \in saved /\ f.turn >= 1
      <4>1. f.turn \in saved
        BY <3>1 DEF Audited
      <4>2. \A t \in saved : t >= 1
        BY <2>0 DEF TypeOK, SavesTyped, Turns
      <4> QED  BY <4>1, <4>2
    <3>3. f.turn \in TurnGaps(lifecycle, records)
      BY <2>0, <2>2, <3>1, <3>2, StoppedGap DEF Audited
    <3> QED  BY <3>2, <3>3 DEF AuditCompleteness, FirstOwed
  <2> QED  BY <2>1, <2>2 DEF AuditsAgree
<1> QED  BY <1>1, <1>2, <1>3, TurnInvariant, PTL DEF Spec

-----------------------------------------------------------------------------
(* The states in which an attempt has begun. *)
Begun == {"deciding", "ending", "persist", "backstop", "reloading", "recovering"}

(* The runner is between two turns, and may go on from here. *)
AtBoundary == pc = "top" \/ (pc = "parked" /\ lifecycle = "paused")

(* The agent's end-turn has reached the game. *)
Ended == pc = "ending" \/ (pc = "persist" /\ outcome = "ended_by_agent")

Unended == pc \in {"deciding", "backstop"} \/ (pc = "persist" /\ outcome # "ended_by_agent")

(* The board is where the counter says, and saves where their names say. *)
NumbersAgree ==
  /\ \A t \in DOMAIN files : Len(files[t]) = t - 1
  /\ pending # <<>> => Len(pending[2]) = pending[1] - 1
  /\ \A r \in records : Len(r.began) = r.turn - 1
  /\ pc \in Begun => Len(began) = turn - 1
  /\ client = "game" /\ (AtBoundary \/ Ended) => Len(board) = turn
  /\ client = "game" /\ (pc = "quicksave" \/ Unended) => Len(board) = turn - 1

Numbered == departures \subseteq {"rewind"} => NumbersAgree

(* A board reached by playing the recorded attempts of turns 1 .. n. *)
Reached(recs, b, n) ==
  /\ Len(b) = n
  /\ \A i \in 1 .. n : \E q \in recs : q.turn = i /\ b[i] = <<i, q.index>>

(* The board of the attempt under way, once its turn is ended. *)
EndBoard == Append(began, <<turn, attempt>>)

OneLine ==
  /\ \A r \in Authoritative : Reached(Authoritative, r.began, r.turn - 1)
  /\ pending = <<>>
  /\ saved \subseteq 1 .. turn
  /\ pc = "quicksave" => turn \notin saved
  /\ pc \in Begun => /\ Reached(Authoritative, began, turn - 1)
                     /\ turn \in DOMAIN files => files[turn] = began
  /\ pc = "backstop" => \E q \in Authoritative : q.turn = turn /\ q.index = attempt
  /\ client = "game" =>
       /\ AtBoundary => Reached(Authoritative, board, turn)
       /\ pc = "quicksave" => Reached(Authoritative, board, turn - 1)
       /\ Unended => board = began
       /\ Ended => board = EndBoard

Lined == departures = {} => OneLine

(* What a replay of the attempt under way would load is what it began on,  *)
(* on every line of play, unless the save is still owed.                   *)
SaveIsStart ==
  pc \in Begun =>
    /\ turn \notin owed /\ turn \in DOMAIN files => files[turn] = began
    /\ pending # <<>> /\ pending[1] = turn => pending[2] = began

-----------------------------------------------------------------------------
LEMMA BoardGrows ==
  ASSUME NEW b \in Boards, NEW e
  PROVE  /\ Len(b) \in Nat
         /\ Len(Append(b, e)) = Len(b) + 1
         /\ Append(b, e)[Len(b) + 1] = e
         /\ \A i \in 1 .. Len(b) : Append(b, e)[i] = b[i]
  BY DEF Boards

(* A turn's attempt, once on record, takes the line one board further. *)
LEMMA Onward ==
  ASSUME NEW recs, NEW b \in Boards, NEW n \in Nat, Reached(recs, b, n),
         NEW q \in recs, q.turn = n + 1
  PROVE  Reached(recs, Append(b, <<n + 1, q.index>>), n + 1)
<1> DEFINE c == Append(b, <<n + 1, q.index>>)
<1>1. Len(b) = n
  BY DEF Reached
<1>2. /\ Len(c) = n + 1 /\ c[n + 1] = <<n + 1, q.index>>
      /\ \A i \in 1 .. n : c[i] = b[i]
  BY <1>1, BoardGrows
<1>3. ASSUME NEW i \in 1 .. n + 1
      PROVE  \E p \in recs : p.turn = i /\ c[i] = <<i, p.index>>
  <2>1. CASE i = n + 1
    BY <1>2, <2>1
  <2>2. CASE i \in 1 .. n
    BY <1>2, <2>2 DEF Reached
  <2>3. i = n + 1 \/ i \in 1 .. n
    OBVIOUS
  <2> QED  BY <2>1, <2>2, <2>3
<1> QED  BY <1>2, <1>3 DEF Reached

(* Recording more leaves what was reached where it is. *)
LEMMA StillReached ==
  ASSUME NEW S, NEW T, S \subseteq T, NEW b, NEW n, Reached(S, b, n)
  PROVE  Reached(T, b, n)
  BY DEF Reached

LEMMA EmptyBoard == ASSUME NEW recs PROVE Reached(recs, <<>>, 0)
  BY DEF Reached


LEMMA NumberedInit == Init => Numbered
  BY DEF Init, Numbered, NumbersAgree, Unended, Begun

LEMMA LinedInit == Init => Lined
  BY EmptyBoard DEF Init, Lined, OneLine, Ended, Begun, Authoritative

LEMMA NumberedStep ==
  ASSUME TurnInv, Numbered, [Next]_vars
  PROVE  Numbered'
<1> USE ConstantsOK DEF TurnInv, attemptVars, gameVars, saveVars, eventVars, faultVars
<1>1. CASE UNCHANGED vars
  BY <1>1 DEF vars, Numbered, NumbersAgree, AtBoundary, Ended, Unended
<1>2. CASE StopAtBoundary
  BY <1>2, BoardGrows DEF StopAtBoundary, Park, Numbered, NumbersAgree,
     AtBoundary, Unended, Begun
<1>3. CASE PauseAtBoundary
  BY <1>3, BoardGrows DEF PauseAtBoundary, Park, Numbered, NumbersAgree,
     AtBoundary, Unended, Begun
<1>4. CASE BeginTurn
  BY <1>4, BoardGrows DEF BeginTurn, Numbered, NumbersAgree, AtBoundary, Ended, Begun
<1>5. CASE TakeQuicksave
  BY <1>5, BoardGrows DEF TakeQuicksave, SaveGame, RecordSavePoint,
     BeginAttempt, Written, VerifySave, Numbered, NumbersAgree, AtBoundary,
     Ended, Unended, Begun, Departures, GameTurn, PlayTyped, SavesTyped
<1>6. CASE QuicksaveFails
  BY <1>6, BoardGrows DEF QuicksaveFails, Park, PauseOnFailure, Injected,
     Numbered, NumbersAgree, AtBoundary, Ended, Begun
<1>7. CASE CompleteStep
  BY <1>7, BoardGrows DEF CompleteStep, Numbered, NumbersAgree, AtBoundary,
     Ended, Unended
<1>8. CASE AgentEndsTurn
  <2> SUFFICES ASSUME departures' \subseteq {"rewind"} PROVE NumbersAgree'
    BY DEF Numbered
  <2>1. /\ departures \subseteq {"rewind"} /\ board' = Append(board, <<turn, attempt>>)
        /\ pc = "deciding" /\ pc' = "ending" /\ client = "game"
        /\ UNCHANGED <<attemptVars, client, saveVars, records>>
    <3>1. ~Injected("unended")
      BY DEF Injected, Departures
    <3> QED  BY <1>8, <3>1 DEF AgentEndsTurn
  <2>2. NumbersAgree /\ Len(board) = turn - 1 /\ turn \in Nat
    BY <2>1 DEF Numbered, NumbersAgree, Unended, TypeOK, PlayTyped
  <2>3. Len(board') = turn
    BY <2>1, <2>2, BoardGrows DEF TypeOK, PlayTyped
  <2> QED  BY <2>1, <2>2, <2>3 DEF NumbersAgree, Unended, Begun
<1>9. CASE LoopEndedByAgent
  BY <1>9, BoardGrows DEF LoopEndedByAgent, Numbered, NumbersAgree, Ended,
     Unended, Begun
<1>10. CASE LoopEndedOnNoProgress
  BY <1>10, BoardGrows DEF LoopEndedOnNoProgress, Numbered, NumbersAgree,
     AtBoundary, Ended, Unended, Begun
<1>11. CASE LoopRaises
  BY <1>11, BoardGrows DEF LoopRaises, Park, PauseOnFailure, Injected, Numbered,
     NumbersAgree, AtBoundary, Ended, Unended, Begun
<1>12. CASE ObservationFails
  BY <1>12, BoardGrows DEF ObservationFails, Park, PauseOnFailure, Injected,
     Numbered, NumbersAgree, AtBoundary, Ended, Unended, Begun, Departures,
     GameTurn, PlayTyped, SavesTyped, TypeOK, PlayedTurn, PendingSave, Turns
<1>13. CASE ClientFaultDetected
  BY <1>13, BoardGrows DEF ClientFaultDetected, Numbered, NumbersAgree, Begun
<1>14. CASE Recover
  BY <1>14, BoardGrows DEF Recover, Loads, LoadInto, BeginAttempt, Numbered,
     NumbersAgree, AtBoundary, Ended
<1>15. CASE StillFaulty
  BY <1>15, BoardGrows DEF StillFaulty, Park, PauseOnFailure, Injected,
     Numbered, NumbersAgree, AtBoundary, Ended, Unended, Begun
<1>16. CASE RecoveryFails
  BY <1>16, BoardGrows DEF RecoveryFails, Park, Injected, LoadFailed, Numbered,
     NumbersAgree, AtBoundary, Ended, Unended, Begun
<1>17. CASE RecoveryFindsNoFile
  BY <1>17, BoardGrows DEF RecoveryFindsNoFile, Park, Numbered, NumbersAgree,
     AtBoundary, Ended, Unended, Begun
<1>18. CASE Persist
  BY <1>18, BoardGrows DEF Persist, Park, TurnReturns, Numbered, NumbersAgree,
     AtBoundary, Ended, Unended, Begun
<1>19. CASE PersistFails
  BY <1>19, BoardGrows DEF PersistFails, Park, PauseOnFailure, Injected,
     Numbered, NumbersAgree, AtBoundary, Ended, Unended, Begun
<1>20. CASE BackstopEndsTurn
  BY <1>20, BoardGrows DEF BackstopEndsTurn, Park, TurnReturns, Numbered,
     NumbersAgree, Unended, Begun, PlayedTurn, Turns
<1>21. CASE BackstopFails
  BY <1>21, BoardGrows DEF BackstopFails, Park, PauseOnFailure, Injected,
     Numbered, NumbersAgree, AtBoundary, Ended, Unended, Begun
<1>22. CASE Resume
  BY <1>22, BoardGrows DEF Resume, Injected, Numbered, NumbersAgree, AtBoundary,
     Ended, Unended, Begun, Departures, GameTurn, PlayTyped, SavesTyped, TypeOK,
     PlayedTurn, PendingSave, Turns
<1>23. ASSUME NEW t \in Turns, ResumeFrom(t) PROVE Numbered'
  <2>1. /\ pc' = "top" /\ turn' = t - 1 /\ board' = files[t] /\ Len(files[t]) + 1 = t
        /\ departures \subseteq departures'
        /\ UNCHANGED <<began, saveVars>>
        /\ \A r \in records' : \E q \in records : r.turn = q.turn /\ r.began = q.began
    BY <1>23 DEF ResumeFrom, Loads, GameTurn, LoadInto, RewoundTo, Injected,
       TypeOK, Attempts
  <2>2. Len(files[t]) \in Nat
    BY <1>23, BoardGrows DEF ResumeFrom, Loads, TypeOK, SavesTyped
  <2>3. Len(board') = turn'
    BY <2>1, <2>2 DEF Turns
  <2> QED  BY <2>1, <2>3 DEF Numbered, NumbersAgree, Unended, Begun
<1>24. ASSUME NEW t \in Turns, ResumeFromFails(t) PROVE Numbered'
  BY <1>24, BoardGrows DEF ResumeFromFails, LoadFailed, Injected, Rewindable,
     Numbered, NumbersAgree, AtBoundary, Ended, Unended
<1>25. ASSUME NEW t \in Turns, ResumeFromFindsNoFile(t) PROVE Numbered'
  BY <1>25, BoardGrows DEF ResumeFromFindsNoFile, Numbered, NumbersAgree,
     AtBoundary, Ended, Unended
<1>26. CASE ClientDies
  BY <1>26, BoardGrows DEF ClientDies, Injected, Numbered, NumbersAgree
<1>27. CASE ClientRelaunched
  BY <1>27, BoardGrows DEF ClientRelaunched, Numbered, NumbersAgree
<1>28. CASE SaveLands
  BY <1>28, BoardGrows DEF SaveLands, Written, Numbered, NumbersAgree,
     AtBoundary, Ended, Unended
<1>29. ASSUME NEW t \in Turns, FileLost(t) PROVE Numbered'
  BY <1>29, BoardGrows DEF FileLost, Injected, Numbered, NumbersAgree,
     AtBoundary, Ended, Unended
<1> QED
  BY <1>1, <1>2, <1>3, <1>4, <1>5, <1>6, <1>7, <1>8, <1>9, <1>10, <1>11, <1>12,
     <1>13, <1>14, <1>15, <1>16, <1>17, <1>18, <1>19, <1>20, <1>21, <1>22,
     <1>23, <1>24, <1>25, <1>26, <1>27, <1>28, <1>29
     DEF Next, PlayLoop, Operator, World

LEMMA LinedStep ==
  ASSUME TurnInv, Numbered, Lined, [Next]_vars
  PROVE  Lined'
<1> USE ConstantsOK DEF TurnInv, attemptVars, gameVars, saveVars, eventVars, faultVars
<1>1. CASE UNCHANGED vars
  BY <1>1 DEF vars, Lined, OneLine, EndBoard, AtBoundary, Ended, Unended, Authoritative
<1>2. CASE StopAtBoundary
  BY <1>2 DEF StopAtBoundary, Park, Lined, OneLine, AtBoundary, Ended, Unended,
     Begun, Authoritative
<1>3. CASE PauseAtBoundary
  BY <1>3 DEF PauseAtBoundary, Park, Lined, OneLine, AtBoundary, Ended, Unended,
     Begun, Authoritative
<1>4. CASE BeginTurn
  <2>1. /\ pc = "top" /\ pc' = "quicksave" /\ turn' = turn + 1 /\ turn \in Nat
        /\ UNCHANGED <<departures, client, board, files, saved, pending, records>>
    BY <1>4 DEF BeginTurn, TypeOK, PlayTyped
  <2>2. turn' - 1 = turn /\ turn' \notin 1 .. turn /\ 1 .. turn \subseteq 1 .. turn'
    BY <2>1
  <2> QED  BY <2>1, <2>2 DEF Lined, OneLine, AtBoundary, Ended, Unended, Begun,
     Authoritative
<1>5. CASE TakeQuicksave
  <2> SUFFICES ASSUME departures = {} PROVE OneLine'
    BY <1>5 DEF TakeQuicksave, Lined
  <2>1. OneLine
    BY DEF Lined
  <2>2. turn \notin DOMAIN files /\ turn \in Turns
    BY <1>5, <2>1 DEF TakeQuicksave, OneLine, TypeOK, SavesTyped, PlayedTurn
  <2>3. /\ pc = "quicksave" /\ client = "game" /\ pc' = "deciding" /\ began' = board
        /\ SaveGame(TRUE) /\ saved' = saved \cup {turn}
        /\ UNCHANGED <<turn, client, board, records>>
    BY <1>5, <2>2 DEF TakeQuicksave, VerifySave, RecordSavePoint, BeginAttempt
  <2>4. pending' = <<>> /\ files'[turn] = board
    BY <2>3 DEF SaveGame, Written
  <2>5. Reached(Authoritative, board, turn - 1)
    BY <2>1, <2>3 DEF OneLine
  <2>6. saved' \subseteq 1 .. turn /\ Authoritative' = Authoritative
    <3>1. turn \in 1 .. turn /\ saved \subseteq 1 .. turn
      BY <2>1, <2>2 DEF OneLine, Turns
    <3>2. records' = records /\ saved' = saved \cup {turn}
      BY <2>3
    <3> QED  BY <3>1, <3>2 DEF Authoritative
  <2>7. pc' = "deciding" /\ turn' = turn /\ board' = board /\ began' = board
    BY <2>3
  <2> QED  BY <2>1, <2>4, <2>5, <2>6, <2>7
           DEF OneLine, AtBoundary, Ended
<1>6. CASE QuicksaveFails
  BY <1>6 DEF QuicksaveFails, Park, PauseOnFailure, Injected, Lined, OneLine,
     AtBoundary, Ended, Unended, Begun, Authoritative
<1>7. CASE CompleteStep
  BY <1>7 DEF CompleteStep, Lined, OneLine, AtBoundary, Ended, Unended, Authoritative
<1>8. CASE AgentEndsTurn
  BY <1>8 DEF AgentEndsTurn, Injected, Lined, OneLine, EndBoard, AtBoundary,
     Unended, Begun, Authoritative, Departures
<1>9. CASE LoopEndedByAgent
  BY <1>9 DEF LoopEndedByAgent, Lined, OneLine, EndBoard, AtBoundary, Ended,
     Unended, Begun, Authoritative
<1>10. CASE LoopEndedOnNoProgress
  BY <1>10 DEF LoopEndedOnNoProgress, Lined, OneLine, AtBoundary, Ended,
     Unended, Begun, Authoritative
<1>11. CASE LoopRaises
  BY <1>11 DEF LoopRaises, Park, PauseOnFailure, Injected, Lined, OneLine,
     AtBoundary, Ended, Unended, Begun, Authoritative
<1>12. CASE ObservationFails
  <2>1. Authoritative' = Authoritative
    BY <1>12 DEF ObservationFails, Authoritative
  <2>2. /\ pc \in {"deciding", "ending"} /\ departures \subseteq departures'
        /\ pc' = "reloading" \/ (pc' = "parked" /\ lifecycle' = "failure")
        /\ UNCHANGED <<attemptVars, gameVars, saveVars>>
    BY <1>12, Paused DEF ObservationFails, Injected
  <2> QED  BY <2>1, <2>2 DEF Lined, OneLine, AtBoundary, Ended, Unended, Begun
<1>13. CASE ClientFaultDetected
  BY <1>13 DEF ClientFaultDetected, Lined, OneLine, Begun, Authoritative
<1>14. CASE Recover
  BY <1>14 DEF Recover, Recovering, Loads, LoadInto, BeginAttempt, Lined,
     OneLine, AtBoundary, Ended, Begun, Authoritative
<1>15. CASE StillFaulty
  BY <1>15 DEF StillFaulty, Park, PauseOnFailure, Injected, Lined, OneLine,
     AtBoundary, Ended, Unended, Begun, Authoritative
<1>16. CASE RecoveryFails
  BY <1>16 DEF RecoveryFails, Park, Injected, LoadFailed, Lined, OneLine,
     AtBoundary, Ended, Unended, Begun, Authoritative
<1>17. CASE RecoveryFindsNoFile
  BY <1>17 DEF RecoveryFindsNoFile, Park, Lined, OneLine, AtBoundary, Ended,
     Unended, Begun, Authoritative
<1>18. CASE Persist
  <2> SUFFICES ASSUME departures = {} PROVE OneLine'
    BY <1>18 DEF Persist, Lined
  <2> DEFINE rec == [turn |-> turn, index |-> attempt, authoritative |-> TRUE,
                     abandoned |-> FALSE, began |-> began]
  <2>1. OneLine /\ pc = "persist" /\ turn \in Turns /\ attempt \in Nat /\ began \in Boards
    BY <1>18 DEF Persist, Lined, TypeOK, PlayTyped, PlayedTurn
  <2>2. /\ Authoritative' = Authoritative \cup {rec}
        /\ UNCHANGED <<attemptVars, gameVars, saveVars>>
        /\ \/ outcome = "ended_by_agent" /\ pc' \in {"top", "parked"}
           \/ outcome # "ended_by_agent" /\ pc' = "backstop"
    BY <1>18 DEF Persist, TurnReturns, Park, Authoritative
  <2> HIDE DEF rec
  <2>3. rec.turn = turn /\ rec.index = attempt /\ rec.began = began
    BY DEF rec
  <2>4. \A b, n : Reached(Authoritative, b, n) => Reached(Authoritative', b, n)
    BY <2>2, StillReached
  <2>5. Reached(Authoritative', began, turn - 1)
    BY <2>1, <2>4 DEF OneLine, Begun
  <2>6. Reached(Authoritative', EndBoard, turn)
    <3>1. turn - 1 \in Nat /\ (turn - 1) + 1 = turn
      BY <2>1 DEF Turns
    <3>2. rec \in Authoritative'
      BY <2>2
    <3>3. Reached(Authoritative', Append(began, <<turn - 1 + 1, rec.index>>), turn - 1 + 1)
      BY <2>1, <2>3, <2>5, <3>1, <3>2, Onward
    <3> QED  BY <2>3, <3>1, <3>3 DEF EndBoard
  <2>7. \A r \in Authoritative' : Reached(Authoritative', r.began, r.turn - 1)
    BY <2>1, <2>2, <2>3, <2>4, <2>5 DEF OneLine
  <2> QED  BY <2>1, <2>2, <2>3, <2>5, <2>6, <2>7
           DEF OneLine, AtBoundary, Ended, Unended, Begun
<1>19. CASE PersistFails
  BY <1>19 DEF PersistFails, Park, PauseOnFailure, Injected, Lined, OneLine,
     AtBoundary, Ended, Unended, Begun, Authoritative
<1>20. CASE BackstopEndsTurn
  <2> SUFFICES ASSUME departures = {} PROVE OneLine'
    BY <1>20 DEF BackstopEndsTurn, Lined
  <2>1. /\ OneLine /\ turn \in Turns /\ attempt \in Nat /\ began \in Boards
        /\ pc = "backstop" /\ client = "game"
        /\ pc' \in {"top", "parked"} /\ board' = Append(board, <<turn, attempt>>)
        /\ turn' = turn /\ Authoritative' = Authoritative
        /\ UNCHANGED <<client, saveVars>>
    BY <1>20 DEF BackstopEndsTurn, TurnReturns, Park, Lined, TypeOK, PlayTyped,
       PlayedTurn, Authoritative
  <2>2. board = began /\ Reached(Authoritative, began, turn - 1)
    BY <2>1 DEF OneLine, Unended, Begun
  <2>3. PICK q \in Authoritative : q.turn = turn /\ q.index = attempt
    BY <2>1 DEF OneLine
  <2>4. Reached(Authoritative, board', turn)
    <3>1. turn - 1 \in Nat /\ (turn - 1) + 1 = turn
      BY <2>1 DEF Turns
    <3>2. Reached(Authoritative, Append(began, <<turn - 1 + 1, q.index>>), turn - 1 + 1)
      BY <2>1, <2>2, <2>3, <3>1, Onward
    <3> QED  BY <2>1, <2>2, <2>3, <3>1, <3>2
  <2> QED  BY <2>1, <2>4 DEF OneLine, Ended, Unended, Begun
<1>21. CASE BackstopFails
  BY <1>21 DEF BackstopFails, Park, PauseOnFailure, Injected, Lined, OneLine,
     AtBoundary, Ended, Unended, Begun, Authoritative
<1>22. CASE Resume
  BY <1>22 DEF Resume, Injected, Lined, OneLine, AtBoundary, Ended, Unended,
     Begun, Authoritative, Departures
<1>23. ASSUME NEW t \in Turns, ResumeFrom(t) PROVE Lined'
  BY <1>23 DEF ResumeFrom, Injected, Lined, Departures
<1>24. ASSUME NEW t \in Turns, ResumeFromFails(t) PROVE Lined'
  BY <1>24 DEF ResumeFromFails, LoadFailed, Injected, Rewindable, Lined,
     OneLine, AtBoundary, Ended, Unended, Authoritative
<1>25. ASSUME NEW t \in Turns, ResumeFromFindsNoFile(t) PROVE Lined'
  BY <1>25 DEF ResumeFromFindsNoFile, Lined, OneLine, EndBoard, AtBoundary,
     Ended, Unended, Authoritative
<1>26. CASE ClientDies
  BY <1>26 DEF ClientDies, Injected, Lined, OneLine, Authoritative
<1>27. CASE ClientRelaunched
  BY <1>27 DEF ClientRelaunched, Lined, OneLine, Authoritative
<1>28. CASE SaveLands
  BY <1>28 DEF SaveLands, Lined, OneLine
<1>29. ASSUME NEW t \in Turns, FileLost(t) PROVE Lined'
  BY <1>29 DEF FileLost, Injected, Lined, OneLine, EndBoard, AtBoundary, Ended,
     Unended, Authoritative
<1> QED
  BY <1>1, <1>2, <1>3, <1>4, <1>5, <1>6, <1>7, <1>8, <1>9, <1>10, <1>11, <1>12,
     <1>13, <1>14, <1>15, <1>16, <1>17, <1>18, <1>19, <1>20, <1>21, <1>22,
     <1>23, <1>24, <1>25, <1>26, <1>27, <1>28, <1>29
     DEF Next, PlayLoop, Operator, World

LEMMA ReplayStep ==
  ASSUME TurnInv, SaveIsStart, [Next]_vars
  PROVE  SaveIsStart'
<1> USE DEF TurnInv, attemptVars, gameVars, saveVars, eventVars, faultVars
<1>1. CASE UNCHANGED vars
  BY <1>1 DEF vars, SaveIsStart, Begun
<1>2. CASE StopAtBoundary
  BY <1>2 DEF StopAtBoundary, Park, SaveIsStart, Begun
<1>3. CASE PauseAtBoundary
  BY <1>3 DEF PauseAtBoundary, Park, SaveIsStart, Begun
<1>4. CASE BeginTurn
  BY <1>4 DEF BeginTurn, SaveIsStart, Begun
<1>5. CASE TakeQuicksave
  BY <1>5 DEF TakeQuicksave, SaveGame, BeginAttempt, Written, SaveIsStart
<1>6. CASE QuicksaveFails
  BY <1>6 DEF QuicksaveFails, Park, PauseOnFailure, SaveIsStart, Begun
<1>7. CASE CompleteStep
  BY <1>7 DEF CompleteStep, SaveIsStart
<1>8. CASE AgentEndsTurn
  BY <1>8 DEF AgentEndsTurn, SaveIsStart, Begun
<1>9. CASE LoopEndedByAgent
  BY <1>9 DEF LoopEndedByAgent, SaveIsStart, Begun
<1>10. CASE LoopEndedOnNoProgress
  BY <1>10 DEF LoopEndedOnNoProgress, SaveIsStart, Begun
<1>11. CASE LoopRaises
  BY <1>11 DEF LoopRaises, Park, PauseOnFailure, SaveIsStart, Begun
<1>12. CASE ObservationFails
  BY <1>12 DEF ObservationFails, SaveIsStart, Begun
<1>13. CASE ClientFaultDetected
  BY <1>13 DEF ClientFaultDetected, SaveIsStart, Begun
<1>14. CASE Recover
  BY <1>14 DEF Recover, Loads, BeginAttempt, SaveIsStart
<1>15. CASE StillFaulty
  BY <1>15 DEF StillFaulty, Park, PauseOnFailure, SaveIsStart, Begun
<1>16. CASE RecoveryFails
  BY <1>16 DEF RecoveryFails, Park, SaveIsStart, Begun
<1>17. CASE RecoveryFindsNoFile
  BY <1>17 DEF RecoveryFindsNoFile, Park, SaveIsStart, Begun
<1>18. CASE Persist
  BY <1>18 DEF Persist, Park, TurnReturns, SaveIsStart, Begun
<1>19. CASE PersistFails
  BY <1>19 DEF PersistFails, Park, PauseOnFailure, SaveIsStart, Begun
<1>20. CASE BackstopEndsTurn
  BY <1>20 DEF BackstopEndsTurn, Park, TurnReturns, SaveIsStart, Begun
<1>21. CASE BackstopFails
  BY <1>21 DEF BackstopFails, Park, PauseOnFailure, SaveIsStart, Begun
<1>22. CASE Resume
  BY <1>22 DEF Resume, SaveIsStart, Begun
<1>23. ASSUME NEW t \in Turns, ResumeFrom(t) PROVE SaveIsStart'
  BY <1>23 DEF ResumeFrom, SaveIsStart, Begun
<1>24. ASSUME NEW t \in Turns, ResumeFromFails(t) PROVE SaveIsStart'
  BY <1>24 DEF ResumeFromFails, SaveIsStart
<1>25. ASSUME NEW t \in Turns, ResumeFromFindsNoFile(t) PROVE SaveIsStart'
  BY <1>25 DEF ResumeFromFindsNoFile, SaveIsStart
<1>26. CASE ClientDies
  BY <1>26 DEF ClientDies, SaveIsStart
<1>27. CASE ClientRelaunched
  BY <1>27 DEF ClientRelaunched, SaveIsStart
<1>28. CASE SaveLands
  BY <1>28 DEF SaveLands, Written, SaveIsStart
<1>29. ASSUME NEW t \in Turns, FileLost(t) PROVE SaveIsStart'
  BY <1>29 DEF FileLost, SaveIsStart
<1> QED
  BY <1>1, <1>2, <1>3, <1>4, <1>5, <1>6, <1>7, <1>8, <1>9, <1>10, <1>11, <1>12,
     <1>13, <1>14, <1>15, <1>16, <1>17, <1>18, <1>19, <1>20, <1>21, <1>22,
     <1>23, <1>24, <1>25, <1>26, <1>27, <1>28, <1>29
     DEF Next, PlayLoop, Operator, World

-----------------------------------------------------------------------------
(* Through crashes of the client, lost saves, failed loads and replays the *)
(* record is one game played through once; through rewinds as well, every  *)
(* attempt is filed under the turn it was played at.                       *)
THEOREM RecordIsTheGameAlways == Spec => []RecordIsTheGame
<1>1. Init => TurnInv /\ Numbered /\ Lined
  BY TurnInit, NumberedInit, LinedInit
<1>2. TurnInv /\ Numbered /\ Lined /\ [Next]_vars => (TurnInv /\ Numbered /\ Lined)'
  <2>1. TurnInv /\ [Next]_vars => TurnInv'
    BY TypeStep, RecordStep DEF TurnInv
  <2> QED  BY <2>1, NumberedStep, LinedStep
<1>3. TurnInv /\ Numbered /\ Lined => RecordIsTheGame
  <2> SUFFICES ASSUME TurnInv, Numbered, Lined PROVE RecordIsTheGame
    OBVIOUS
  <2>1. RecordsChain
    BY DEF Lined, OneLine, Reached, RecordsChain
  <2>2. RecordNamesGameTurn
    BY DEF TurnInv, TypeOK, Attempts, Turns, Numbered, NumbersAgree,
       RecordNamesGameTurn, GameTurn
  <2> QED  BY <2>1, <2>2 DEF TurnInv, RecordIsTheGame
<1> QED  BY <1>1, <1>2, <1>3, PTL DEF Spec

(* A replayed attempt starts on the board its turn began on, on every line *)
(* of play, unless the save it loads was still owed.                       *)
THEOREM ReplaysStartRight == Spec => ReplayStartsWhereItBegan
<1>1. Init => TurnInv /\ SaveIsStart
  BY TurnInit DEF Init, SaveIsStart, Begun
<1>2. TurnInv /\ SaveIsStart /\ [Next]_vars => (TurnInv /\ SaveIsStart)'
  BY TypeStep, RecordStep, ReplayStep DEF TurnInv
<1>3. TurnInv /\ SaveIsStart /\ [Next]_vars =>
        [Recovering /\ pc' = "deciding" /\ turn \notin owed =>
           board' = began /\ began' = began]_vars
  <2> SUFFICES ASSUME TurnInv, SaveIsStart, Next, Recovering, pc' = "deciding", turn \notin owed
               PROVE  board' = began /\ began' = began
    BY DEF ReplayStartsWhereItBegan
  <2>1. Recover
    BY DEF Next, PlayLoop, Operator, World, Recovering, StopAtBoundary,
       PauseAtBoundary, BeginTurn, TakeQuicksave, QuicksaveFails, CompleteStep,
       AgentEndsTurn, LoopEndedByAgent, LoopEndedOnNoProgress, LoopRaises,
       ObservationFails, ClientFaultDetected, StillFaulty, RecoveryFails,
       RecoveryFindsNoFile, Persist, PersistFails, BackstopEndsTurn,
       BackstopFails, Resume, ResumeFrom, ResumeFromFails,
       ResumeFromFindsNoFile, ClientDies, ClientRelaunched, SaveLands, FileLost,
       Park, PauseOnFailure, PauseOnFailure
  <2> QED  BY <2>1 DEF Recover, Recovering, Loads, LoadInto, BeginAttempt,
     SaveIsStart, Begun
<1> QED  BY <1>1, <1>2, <1>3, PTL DEF Spec, ReplayStartsWhereItBegan
=============================================================================
