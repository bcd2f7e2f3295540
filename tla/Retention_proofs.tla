-------------------------- MODULE Retention_proofs ---------------------------
(***************************************************************************)
(* That what is kept of a run is kept as its record says, whoever branches,*)
(* abandons, archives and reaps beside the runner, with any number of      *)
(* operators and runs.                                                     *)
(*                                                                         *)
(* Two chains of facts meet.  A file is unlinked only for a save point     *)
(* made eligible, which an archival of its own run made so, and an         *)
(* archived run has ended.  And a run that has ended is not played: its    *)
(* loop is paused or over, so that no quicksave and no record is added to  *)
(* it.  The second holds only of a run that nobody resumed under, or after,*)
(* its abandonment, which is what playedOn remembers.                      *)
(***************************************************************************)
EXTENDS Retention, FiniteSetTheorems, WellFoundedInduction, TLAPS

At(o, places) == op[o].at \in places

(* The run of an abandonment, and the plan of a reap, under way. *)
Abandons(o, r) == At(o, {"superseding", "finishing"}) /\ op[o].run = r
Planned(o) == IF At(o, {"deleting", "recording"}) THEN op[o].plan ELSE {}

(* A branch being created has no row yet, and is created once. *)
Unborn ==
  /\ \A o \in Operators : At(o, {"loading", "creating"}) => row[op[o].child] = "absent"
  /\ \A o, q \in Operators :
       At(o, {"loading", "creating"}) /\ At(q, {"loading", "creating"})
       /\ op[o].child = op[q].child => o = q

(* The runner knows the runs that have a row. *)
Begotten ==
  \A r \in Runs : /\ row[r] = "absent" <=> loop[r] = "absent"
                  /\ loop[r] = "preparing" => row[r] = "preparing"

(* Every game is somewhere. *)
Placed ==
  /\ \A r \in Runs : loop[r] # "absent" => game[r] # Nothing
  /\ \A o \in Operators : At(o, {"creating"}) => op[o].board # Nothing

ArchivedEnded == \A r \in archived : row[r] = "ended"

Resting(r) == loop[r] \in {"paused", "ended"}

(* A run that is paused on record is paused. *)
PausedRests == \A r \in Runs : row[r] = "paused" => loop[r] = "paused"

(* A run that has ended is not played, nor one that is given up, or was. *)
EndedRests == \A r \in Runs \ playedOn : row[r] = "ended" => Resting(r)

AbandonedRests ==
  \A o \in Operators, r \in Runs :
    Abandons(o, r) =>
      /\ loop[r] \notin {"absent", "preparing"}
      /\ ~op[o].open => row[r] = "ended" /\ At(o, {"superseding"})
      /\ r \notin playedOn /\ op[o].open => loop[r] = "paused"

GivenRests == \A r \in given : r \notin playedOn => Resting(r)

Life ==
  /\ Unborn /\ Begotten /\ Placed /\ ArchivedEnded
  /\ PausedRests /\ EndedRests /\ AbandonedRests /\ GivenRests

(* Only an archived run's saves are eligible, planned or removed. *)
ArchivedOnly ==
  /\ \A p \in points : p.status # "retained" => p.run \in archived
  /\ \A o \in Operators : \A i \in Planned(o) : i.point.run \in archived
  /\ \A o \in Operators : At(o, {"recording"}) => op[o].item.point.run \in archived

(* A file found missing, or unlinked, stays missing. *)
StaysMissing ==
  /\ \A o \in Operators : \A i \in Planned(o) :
       ~i.exists /\ i.point.run \notin playedOn => file[i.point.run][i.point.turn] = Nothing
  /\ \A o \in Operators :
       At(o, {"recording"}) /\ op[o].item.point.run \notin playedOn =>
         file[op[o].item.point.run][op[o].item.point.turn] = Nothing

Files == ArchivedOnly /\ StaysMissing /\ SaveKept /\ RemovedIsGone

(* Every recorded turn has a save point, so an abandonment reaches it. *)
Covered ==
  /\ \A r \in Runs : \A t \in Authoritative(r) : PointsOf(r, t) # {}
  /\ \A r \in Runs : loop[r] = "turn" => cur[r] \in Turns /\ PointsOf(r, cur[r]) # {}

(* What is yet to be given up covers what is still authoritative. *)
GivenUp ==
  /\ \A o \in Operators : \A r \in Runs \ playedOn :
       Abandons(o, r) /\ At(o, {"superseding"}) => Authoritative(r) \subseteq op[o].left
  /\ \A r \in given : r \notin playedOn => Authoritative(r) = {}

RetentionInv ==
  TypeOK /\ IsFiniteSet(points) /\ Life /\ Files /\ Covered /\ GivenUp

-----------------------------------------------------------------------------

(* A record that a branch stands on is not touched by a step. *)
Kept ==
  \A c \in Runs : LET p == lineage[c].parent
                      t == lineage[c].turn
                  IN p # "none" /\ record[p][t] # Nothing => record'[p][t] = record[p][t]

-----------------------------------------------------------------------------
LEMMA LeastNat ==
  ASSUME NEW T, T \subseteq Nat, T # {}
  PROVE  \E x \in T : \A y \in T : x <= y
<1>1. PICK x \in T : \A y \in T : ~(<<y, x>> \in OpToRel(<, Nat))
  BY NatLessThanWellFounded, WFMin
<1>2. \A y \in T : x <= y
  <2> SUFFICES ASSUME NEW y \in T, y < x PROVE FALSE
    OBVIOUS
  <2>1. <<y, x>> \in OpToRel(<, Nat)
    BY DEF OpToRel
  <2> QED  BY <1>1, <2>1
<1> QED  BY <1>2

(* find_save_point finds one, when there is one. *)
LEMMA EarliestIsOne ==
  ASSUME points \subseteq SavePoint, NEW r, NEW t, PointsOf(r, t) # {}
  PROVE  Earliest(PointsOf(r, t)) \in PointsOf(r, t)
<1> DEFINE S == PointsOf(r, t)
           N == {p.n : p \in S}
<1>1. N \subseteq Nat /\ N # {}
  BY DEF PointsOf, SavePoint
<1>2. PICK n \in N : \A m \in N : n <= m
  BY <1>1, LeastNat
<1>3. PICK p \in S : p.n = n
  OBVIOUS
<1>4. \A q \in S : p.n <= q.n
  BY <1>2, <1>3
<1> QED  BY <1>4 DEF Earliest

(* What a command holds, by where it is. *)
LEMMA CommandKinds ==
  ASSUME CommandsTyped, NEW o \in Operators
  PROVE  /\ At(o, {"loading", "creating"}) => op[o] \in Branching
         /\ At(o, {"superseding", "finishing"}) => op[o] \in Abandoning
         /\ At(o, {"deleting"}) => op[o] \in [at : {"deleting"}, plan : SUBSET Items]
         /\ At(o, {"recording"}) =>
              op[o] \in [at : {"recording"}, plan : SUBSET Items, item : Items]
  BY DEF CommandsTyped, At, Idle, Branching, Abandoning, Reaping

LEMMA CommandSet ==
  ASSUME CommandsTyped, NEW o \in Operators,
         NEW x \in {Idle} \cup Branching \cup Abandoning \cup Reaping,
         op' = [op EXCEPT ![o] = x]
  PROVE  CommandsTyped'
  BY DEF CommandsTyped

LEMMA SupersededIs ==
  ASSUME PositionsTyped, NEW r \in Runs, NEW S, NEW p \in Runs, NEW t \in Turns
  PROVE  Superseded(r, S)[p][t] = IF p = r /\ t \in S THEN Nothing ELSE record[p][t]
  BY DEF PositionsTyped, Superseded

(* An archival changes the status of its run's retained points and no      *)
(* other; a removal recorded, that of one point.                           *)
LEMMA ArchivedPoints ==
  ASSUME points \subseteq SavePoint, NEW r \in Runs, points' = MadeEligible(r)
  PROVE  /\ \A p \in points' : \E q \in points :
               /\ p.run = q.run /\ p.turn = q.turn /\ p.n = q.n
               /\ p = q \/ (p.run = r /\ p.status = "eligible")
         /\ \A q \in points : \E p \in points' : p.run = q.run /\ p.turn = q.turn
<1>1. ASSUME NEW p \in points'
      PROVE  \E q \in points : /\ p.run = q.run /\ p.turn = q.turn /\ p.n = q.n
                               /\ p = q \/ (p.run = r /\ p.status = "eligible")
  <2>1. PICK q \in points : p = IF q.run = r /\ q.status = "retained"
                                  THEN [q EXCEPT !.status = "eligible"] ELSE q
    BY <1>1 DEF MadeEligible
  <2>2. q \in SavePoint
    OBVIOUS
  <2> QED  BY <2>1, <2>2 DEF SavePoint
<1>2. ASSUME NEW q \in points
      PROVE  \E p \in points' : p.run = q.run /\ p.turn = q.turn
  <2> DEFINE p == IF q.run = r /\ q.status = "retained"
                    THEN [q EXCEPT !.status = "eligible"] ELSE q
  <2>1. p \in points' /\ q \in SavePoint
    BY DEF MadeEligible
  <2>2. p.run = q.run /\ p.turn = q.turn
    BY <2>1 DEF SavePoint
  <2> QED  BY <2>1, <2>2
<1> QED  BY <1>1, <1>2

LEMMA RemovedPoints ==
  ASSUME points \subseteq SavePoint, NEW o \in Operators, RecordRemoval(o)
  PROVE  /\ \A p \in points' : \E q \in points :
               /\ p.run = q.run /\ p.turn = q.turn /\ p.n = q.n
               /\ \/ p = q
                  \/ /\ p.status = "removed"
                     /\ p.run = op[o].item.point.run
                     /\ p.turn = op[o].item.point.turn
         /\ \A q \in points : \E p \in points' : p.run = q.run /\ p.turn = q.turn
<1> DEFINE item == op[o].item
           same == [run |-> item.point.run, turn |-> item.point.turn, n |-> item.point.n]
           after(q) == IF [run |-> q.run, turn |-> q.turn, n |-> q.n] = same
                         THEN [q EXCEPT !.status = "removed"] ELSE q
<1>1. points' = {after(q) : q \in points}
  BY DEF RecordRemoval
<1>2. ASSUME NEW q \in points
      PROVE  /\ after(q).run = q.run /\ after(q).turn = q.turn /\ after(q).n = q.n
             /\ \/ after(q) = q
                \/ /\ after(q).status = "removed"
                   /\ q.run = item.point.run /\ q.turn = item.point.turn
  <2>1. q \in SavePoint
    OBVIOUS
  <2> DEFINE id == [run |-> q.run, turn |-> q.turn, n |-> q.n]
  <2>2. CASE id = same
    <3>1. id.run = same.run /\ id.turn = same.turn
      BY <2>2
    <3>2. q.run = item.point.run /\ q.turn = item.point.turn
      BY <3>1
    <3>3. after(q) = [q EXCEPT !.status = "removed"]
      BY <2>2
    <3> HIDE DEF after
    <3> QED  BY <2>1, <3>2, <3>3 DEF SavePoint
  <2>3. CASE id # same
    <3>1. after(q) = q
      BY <2>3
    <3> HIDE DEF after
    <3> QED  BY <3>1
  <2> QED  BY <2>2, <2>3
<1> HIDE DEF after
<1> QED  BY <1>1, <1>2

LEMMA InitInv == Init => RetentionInv
  BY RetentionConstants, FS_EmptySet DEF Init, RetentionInv, TypeOK,
     StagesTyped, PositionsTyped, BranchesTyped, CommandsTyped, Life, Unborn,
     Begotten, Placed, ArchivedEnded, PausedRests, EndedRests, AbandonedRests,
     GivenRests, Abandons, At, Files, ArchivedOnly, Planned, StaysMissing,
     SaveKept, RemovedIsGone, Covered, Authoritative, GivenUp, Idle, Boards,
     Nothing

LEMMA TypesStep ==
  ASSUME TypeOK, IsFiniteSet(points), Covered, [Next]_vars
  PROVE  (TypeOK /\ IsFiniteSet(points))'
<1> USE RetentionConstants DEF rowVars, keepVars, branchVars, Turns, Boards, Nothing, TypeOK
<1>1. CASE UNCHANGED vars
  BY <1>1 DEF vars, StagesTyped, PositionsTyped, BranchesTyped, CommandsTyped
<1>2. ASSUME NEW r \in Runs, BeginTurn(r)
      PROVE  (TypeOK /\ IsFiniteSet(points))'
  <2>1. StagesTyped' /\ PositionsTyped' /\ BranchesTyped' /\ CommandsTyped'
    BY <1>2 DEF BeginTurn, StagesTyped, CommandsTyped, Branching,
       PositionsTyped, BranchesTyped, NoLineage
  <2>2. (points \subseteq SavePoint /\ IsFiniteSet(points))'
    <3> DEFINE t == cur[r] + 1
               new == [run |-> r, turn |-> t, status |-> "retained",
                       n |-> Cardinality(PointsOf(r, t))]
    <3>1. t \in Turns /\ points' = points \cup {new}
      BY <1>2 DEF BeginTurn
    <3>2. PointsOf(r, t) \in SUBSET points
      BY DEF PointsOf
    <3>3. Cardinality(PointsOf(r, t)) \in Nat
      BY <3>2, FS_Subset, FS_CardinalityType
    <3>4. new \in SavePoint
      BY <3>1, <3>3 DEF SavePoint
    <3> QED  BY <3>1, <3>4, FS_AddElement
  <2> QED  BY <2>1, <2>2
<1>3. ASSUME NEW r \in Runs, PersistTurn(r)
      PROVE  (TypeOK /\ IsFiniteSet(points))'
  <2>1. StagesTyped' /\ BranchesTyped' /\ CommandsTyped'
        /\ (points \subseteq SavePoint /\ IsFiniteSet(points))'
    BY <1>3 DEF PersistTurn, StagesTyped, CommandsTyped, BranchesTyped
  <2>2. PositionsTyped'
    <3>1. boards' \in Boards
      BY <1>3 DEF PersistTurn, Move, PositionsTyped
    <3>2. game' \in [Runs -> Boards \cup {Nothing}]
      BY <1>3, <3>1 DEF PersistTurn, Move, PositionsTyped
    <3>3. record' \in [Runs -> [Turns -> Boards \cup {Nothing}]]
      <4> DEFINE old == record[r]
      <4>1. game[r] \in Boards \cup {Nothing}
        BY DEF PositionsTyped
      <4>2. old \in [Turns -> Boards \cup {Nothing}]
        BY DEF PositionsTyped
      <4>3. [old EXCEPT ![cur[r]] = game[r]] \in [Turns -> Boards \cup {Nothing}]
        BY <4>1, <4>2
      <4>4. record' = [record EXCEPT ![r] = [old EXCEPT ![cur[r]] = game[r]]]
        BY <1>3 DEF PersistTurn
      <4> QED  BY <4>3, <4>4 DEF PositionsTyped
    <3> QED  BY <1>3, <3>1, <3>2, <3>3 DEF PersistTurn, PositionsTyped
  <2> QED  BY <2>1, <2>2
<1>4. ASSUME NEW r \in Runs, FailTurn(r)
      PROVE  (TypeOK /\ IsFiniteSet(points))'
  <2>1. StagesTyped' /\ BranchesTyped' /\ CommandsTyped'
        /\ (points \subseteq SavePoint /\ IsFiniteSet(points))'
    BY <1>4 DEF FailTurn, Move, StoreAccepts, StagesTyped, CommandsTyped,
       Branching, Abandoning, Items, Reaping, Idle, BranchesTyped, NoLineage,
       PositionsTyped, SavePoint
  <2>2. PositionsTyped'
    BY <1>4 DEF FailTurn, Move, PositionsTyped
  <2> QED  BY <2>1, <2>2
<1>5. ASSUME NEW r \in Runs, NEW state \in {"paused", "ended"}, LandAtBoundary(r, state)
      PROVE  (TypeOK /\ IsFiniteSet(points))'
  <2>1. StagesTyped' /\ PositionsTyped' /\ BranchesTyped'
    BY <1>5 DEF LandAtBoundary, StoreAccepts, StagesTyped, CommandsTyped,
       Branching, Abandoning, Items, Reaping, Idle, PositionsTyped,
       BranchesTyped, NoLineage
  <2>2. CommandsTyped' /\ (points \subseteq SavePoint /\ IsFiniteSet(points))'
    BY <1>5 DEF LandAtBoundary, CommandsTyped
  <2> QED  BY <2>1, <2>2
<1>6. ASSUME NEW r \in Runs, Resume(r)
      PROVE  (TypeOK /\ IsFiniteSet(points))'
  BY <1>6 DEF Resume, PlaysOn, StagesTyped, CommandsTyped, PositionsTyped, BranchesTyped
<1>7. ASSUME NEW r \in Runs, NEW t \in Turns, Rewind(r, t)
      PROVE  (TypeOK /\ IsFiniteSet(points))'
  BY <1>7 DEF Rewind, PlaysOn, BeingAbandoned, StagesTyped, CommandsTyped,
     Branching, Items, Reaping, Idle, PositionsTyped, BranchesTyped, NoLineage
<1>8. ASSUME NEW r \in Runs, SupersedeReplayed(r)
      PROVE  (TypeOK /\ IsFiniteSet(points))'
  BY <1>8 DEF SupersedeReplayed, Superseded, StagesTyped, CommandsTyped,
     PositionsTyped, BranchesTyped
<1>9. ASSUME NEW r \in Runs, VerifyBranch(r)
      PROVE  (TypeOK /\ IsFiniteSet(points))'
  BY <1>9 DEF VerifyBranch, StagesTyped, CommandsTyped, Branching, Abandoning,
     Items, Reaping, Idle, PositionsTyped, BranchesTyped, NoLineage, SavePoint
<1>10. ASSUME NEW r \in Runs, ArchiveRun(r)
      PROVE  (TypeOK /\ IsFiniteSet(points))'
  <2>1. StagesTyped' /\ PositionsTyped' /\ BranchesTyped' /\ CommandsTyped'
    BY <1>10 DEF ArchiveRun, StagesTyped, CommandsTyped, PositionsTyped, BranchesTyped
  <2>2. (points \subseteq SavePoint /\ IsFiniteSet(points))'
    <3> DEFINE f == [p \in points |-> IF p.run = r /\ p.status = "retained"
                                      THEN [p EXCEPT !.status = "eligible"] ELSE p]
    <3>1. points' = {f[p] : p \in points}
      BY <1>10 DEF ArchiveRun, MadeEligible
    <3>2. \A p \in points : f[p] \in SavePoint
      BY DEF SavePoint
    <3>3. DOMAIN f = points /\ f = [p \in points |-> f[p]]
      OBVIOUS
    <3> HIDE DEF f
    <3>4. f \in Surjection(points, points')
      BY <3>1, <3>3 DEF Surjection
    <3> QED  BY <3>1, <3>2, <3>4, FS_Surjection
  <2> QED  BY <2>1, <2>2
<1>11. ASSUME NEW o \in Operators, NEW p \in Runs, NEW t \in Turns, NEW c \in Runs,
              CheckBranch(o, p, t, c)
      PROVE  (TypeOK /\ IsFiniteSet(points))'
  <2>1. StagesTyped' /\ PositionsTyped' /\ BranchesTyped'
        /\ (points \subseteq SavePoint /\ IsFiniteSet(points))'
    BY <1>11 DEF CheckBranch, StagesTyped, PositionsTyped, BranchesTyped
  <2>2. CommandsTyped'
    <3> DEFINE x == [at |-> "loading", parent |-> p, turn |-> t, child |-> c,
                     point |-> Earliest(PointsOf(p, t)).n, board |-> Nothing]
    <3>1. PointsOf(p, t) # {} /\ op' = [op EXCEPT ![o] = x]
      BY <1>11 DEF CheckBranch, Available
    <3>2. Earliest(PointsOf(p, t)) \in SavePoint
      <4>1. Earliest(PointsOf(p, t)) \in PointsOf(p, t)
        BY <3>1, EarliestIsOne
      <4> QED  BY <4>1 DEF PointsOf
    <3>3. x \in Branching
      BY <3>2 DEF Branching, SavePoint
    <3> QED  BY <3>1, <3>3, CommandSet
  <2> QED  BY <2>1, <2>2
<1>12. ASSUME NEW o \in Operators, LoadBranch(o)
      PROVE  (TypeOK /\ IsFiniteSet(points))'
  <2>1. StagesTyped' /\ PositionsTyped' /\ BranchesTyped'
        /\ (points \subseteq SavePoint /\ IsFiniteSet(points))'
    BY <1>12 DEF LoadBranch, StagesTyped, PositionsTyped, BranchesTyped
  <2>2. CommandsTyped'
    <3> DEFINE board == file[op[o].parent][op[o].turn]
               x == IF board = Nothing THEN Idle
                    ELSE [op[o] EXCEPT !.at = "creating", !.board = board]
    <3>1. op[o] \in Branching
      BY <1>12, CommandKinds DEF LoadBranch, At
    <3>2. board \in Boards \cup {Nothing}
      BY <3>1 DEF Branching, PositionsTyped
    <3>3. x \in {Idle} \cup Branching
      BY <3>1, <3>2 DEF Branching
    <3>4. op' = [op EXCEPT ![o] = x]
      BY <1>12 DEF LoadBranch, CommandsTyped
    <3> QED  BY <3>3, <3>4, CommandSet
  <2> QED  BY <2>1, <2>2
<1>13. ASSUME NEW o \in Operators, CreateBranch(o)
      PROVE  (TypeOK /\ IsFiniteSet(points))'
  <2>1. CommandsTyped' /\ (points \subseteq SavePoint /\ IsFiniteSet(points))'
    BY <1>13 DEF CreateBranch, CommandsTyped
  <2>2. StagesTyped'
    <3>1. op[o] \in Branching
      BY <1>13, CommandKinds DEF CreateBranch, At
    <3>2. op[o].child \in Runs /\ op[o].turn \in Turns
      BY <3>1 DEF Branching
    <3> QED  BY <1>13, <3>2 DEF CreateBranch, BranchStart, StagesTyped
  <2>3. PositionsTyped'
    <3>1. op[o] \in Branching
      BY <1>13, CommandKinds DEF CreateBranch, At
    <3>2. op[o].child \in Runs /\ op[o].board \in Boards \cup {Nothing}
      BY <3>1 DEF Branching
    <3> QED  BY <1>13, <3>2 DEF CreateBranch, PositionsTyped
  <2>4. BranchesTyped'
    <3>1. op[o] \in Branching
      BY <1>13, CommandKinds DEF CreateBranch, At
    <3> DEFINE new == [parent |-> op[o].parent, turn |-> op[o].turn,
                       point |-> op[o].point, board |-> op[o].board]
    <3>2. new \in Lineages
      BY <3>1 DEF Branching, Lineages
    <3>3. lineage' = [lineage EXCEPT ![op[o].child] = new]
          /\ UNCHANGED <<archived, given, playedOn>>
      BY <1>13 DEF CreateBranch
    <3> QED  BY <3>2, <3>3 DEF BranchesTyped
  <2> QED  BY <2>1, <2>2, <2>3, <2>4
<1>14. ASSUME NEW o \in Operators, NEW r \in Runs, Abandon(o, r)
      PROVE  (TypeOK /\ IsFiniteSet(points))'
  BY <1>14 DEF Abandon, OwnTurns, StagesTyped, CommandsTyped, Abandoning,
     PositionsTyped, BranchesTyped, SavePoint
<1>15. ASSUME NEW o \in Operators, SupersedeNext(o)
      PROVE  (TypeOK /\ IsFiniteSet(points))'
  <2>1. StagesTyped' /\ PositionsTyped' /\ BranchesTyped'
        /\ (points \subseteq SavePoint /\ IsFiniteSet(points))'
    BY <1>15 DEF SupersedeNext, Superseded, StagesTyped, CommandsTyped,
       Branching, PositionsTyped, BranchesTyped, NoLineage, SavePoint
  <2>2. CommandsTyped'
    <3> DEFINE t == Lowest(op[o].left)
               x == [op[o] EXCEPT !.left = op[o].left \ {t}]
    <3>1. op[o] \in Abandoning
      BY <1>15, CommandKinds DEF SupersedeNext, At
    <3>2. x \in Abandoning
      BY <3>1 DEF Abandoning
    <3>3. op' = [op EXCEPT ![o] = Idle] \/ op' = [op EXCEPT ![o] = x]
      BY <1>15 DEF SupersedeNext, CommandsTyped
    <3> QED  BY <3>2, <3>3, CommandSet
  <2> QED  BY <2>1, <2>2
<1>16. ASSUME NEW o \in Operators, RecordAbandonment(o)
      PROVE  (TypeOK /\ IsFiniteSet(points))'
  <2>1. StagesTyped' /\ PositionsTyped'
        /\ (points \subseteq SavePoint /\ IsFiniteSet(points))'
    BY <1>16 DEF RecordAbandonment, StagesTyped, PositionsTyped
  <2>2. BranchesTyped'
    <3>1. op[o] \in Abandoning
      BY <1>16, CommandKinds DEF RecordAbandonment, At
    <3>2. op[o].run \in Runs
      BY <3>1 DEF Abandoning
    <3> QED  BY <1>16, <3>2 DEF RecordAbandonment, BranchesTyped
  <2>3. CommandsTyped'
    <3> DEFINE x == [op[o] EXCEPT !.at = "finishing"]
    <3>1. op[o] \in Abandoning
      BY <1>16, CommandKinds DEF RecordAbandonment, At
    <3>2. x \in Abandoning
      BY <3>1 DEF Abandoning
    <3>3. op' = [op EXCEPT ![o] = Idle] \/ op' = [op EXCEPT ![o] = x]
      BY <1>16 DEF RecordAbandonment, CommandsTyped
    <3> QED  BY <3>2, <3>3, CommandSet
  <2> QED  BY <2>1, <2>2, <2>3
<1>17. ASSUME NEW o \in Operators, FinishAbandoned(o)
      PROVE  (TypeOK /\ IsFiniteSet(points))'
  BY <1>17 DEF FinishAbandoned, StagesTyped, CommandsTyped, PositionsTyped,
     BranchesTyped
<1>18. ASSUME NEW o \in Operators, PlanReap(o)
      PROVE  (TypeOK /\ IsFiniteSet(points))'
  <2>1. StagesTyped' /\ PositionsTyped' /\ BranchesTyped'
        /\ (points \subseteq SavePoint /\ IsFiniteSet(points))'
    BY <1>18 DEF PlanReap, StagesTyped, PositionsTyped, BranchesTyped
  <2>2. CommandsTyped'
    <3> DEFINE x == [at |-> "deleting", plan |-> Plan]
    <3>1. ASSUME NEW p \in points
          PROVE  [point |-> p, exists |-> file[p.run][p.turn] # Nothing] \in Items
      <4> DEFINE e == file[p.run][p.turn] # Nothing
      <4>1. e \in BOOLEAN
        OBVIOUS
      <4> HIDE DEF e
      <4>2. [point |-> p, exists |-> e] \in Items
        BY <4>1 DEF Items
      <4> QED  BY <4>2 DEF e
    <3>2. x \in Reaping
      BY <3>1 DEF Reaping, Plan
    <3>3. op' = [op EXCEPT ![o] = x]
      BY <1>18 DEF PlanReap
    <3> QED  BY <3>2, <3>3, CommandSet
  <2> QED  BY <2>1, <2>2
<1>19. ASSUME NEW o \in Operators, DeleteFile(o)
      PROVE  (TypeOK /\ IsFiniteSet(points))'
  <2>1. StagesTyped' /\ BranchesTyped'
        /\ (points \subseteq SavePoint /\ IsFiniteSet(points))'
    BY <1>19 DEF DeleteFile, StagesTyped, BranchesTyped
  <2>2. PositionsTyped'
    <3>1. op[o] \in [at : {"deleting"}, plan : SUBSET Items]
      BY <1>19, CommandKinds DEF DeleteFile, At
    <3>2. PICK item \in op[o].plan : file' = IF item.exists
             THEN Unlinked(item.point.run, item.point.turn) ELSE file
      BY <1>19 DEF DeleteFile
    <3>3. item.point.run \in Runs /\ item.point.turn \in Turns
      BY <3>1 DEF Items, SavePoint
    <3> QED  BY <1>19, <3>2, <3>3 DEF DeleteFile, Unlinked, PositionsTyped
  <2>3. CommandsTyped'
    <3>1. op[o] \in [at : {"deleting"}, plan : SUBSET Items]
      BY <1>19, CommandKinds DEF DeleteFile, At
    <3>2. PICK item \in op[o].plan :
             \/ op' = [op EXCEPT ![o] = Idle]
             \/ op' = [op EXCEPT ![o] =
                         [at |-> "recording", plan |-> op[o].plan, item |-> item]]
      BY <1>19 DEF DeleteFile
    <3>3. [at |-> "recording", plan |-> op[o].plan, item |-> item] \in Reaping
      BY <3>1 DEF Reaping
    <3> QED  BY <3>2, <3>3, CommandSet
  <2> QED  BY <2>1, <2>2, <2>3
<1>20. ASSUME NEW o \in Operators, RecordRemoval(o)
      PROVE  (TypeOK /\ IsFiniteSet(points))'
  <2>1. StagesTyped' /\ PositionsTyped' /\ BranchesTyped'
    BY <1>20 DEF RecordRemoval, StagesTyped, PositionsTyped, BranchesTyped
  <2>2. CommandsTyped'
    <3> DEFINE rest == op[o].plan \ {op[o].item}
               x == IF rest = {} THEN Idle ELSE [at |-> "deleting", plan |-> rest]
    <3>1. op[o] \in [at : {"recording"}, plan : SUBSET Items, item : Items]
      BY <1>20, CommandKinds DEF RecordRemoval, At
    <3>2. x \in {Idle} \cup Reaping
      BY <3>1 DEF Reaping
    <3>3. op' = [op EXCEPT ![o] = x]
      BY <1>20 DEF RecordRemoval
    <3> QED  BY <3>2, <3>3, CommandSet
  <2>3. (points \subseteq SavePoint /\ IsFiniteSet(points))'
    <3> DEFINE f == [p \in points |-> IF [run |-> p.run, turn |-> p.turn, n |-> p.n]
                                         = [run |-> op[o].item.point.run,
                                            turn |-> op[o].item.point.turn,
                                            n |-> op[o].item.point.n]
                                      THEN [p EXCEPT !.status = "removed"] ELSE p]
    <3>1. points' = {f[p] : p \in points}
      BY <1>20 DEF RecordRemoval
    <3>2. \A p \in points : f[p] \in SavePoint
      BY DEF SavePoint
    <3>3. DOMAIN f = points /\ f = [p \in points |-> f[p]]
      OBVIOUS
    <3> HIDE DEF f
    <3>4. f \in Surjection(points, points')
      BY <3>1, <3>3 DEF Surjection
    <3> QED  BY <3>1, <3>2, <3>4, FS_Surjection
  <2> QED  BY <2>1, <2>2, <2>3
<1>21. ASSUME NEW o \in Operators, OperatorDies(o)
      PROVE  (TypeOK /\ IsFiniteSet(points))'
  BY <1>21 DEF OperatorDies, StagesTyped, CommandsTyped, PositionsTyped, BranchesTyped
<1> QED
  BY <1>1, <1>2, <1>3, <1>4, <1>5, <1>6, <1>7, <1>8, <1>9, <1>10, <1>11, <1>12,
     <1>13, <1>14, <1>15, <1>16, <1>17, <1>18, <1>19, <1>20, <1>21
     DEF Next, RunnerStep, OperatorStep

LEMMA LifeStep ==
  ASSUME TypeOK, Life, [Next]_vars
  PROVE  Life'
<1> USE RetentionConstants DEF Life, Files, rowVars, keepVars, branchVars, TypeOK
<1>1. CASE UNCHANGED vars
  BY <1>1 DEF vars, Unborn, Begotten, Placed, ArchivedEnded, PausedRests,
     EndedRests, AbandonedRests, GivenRests, Resting, Abandons, At
<1>2. ASSUME NEW r \in Runs, BeginTurn(r)
      PROVE  Life'
  BY <1>2 DEF BeginTurn, Unborn, Begotten, At, Placed, ArchivedEnded,
     PausedRests, EndedRests, AbandonedRests, Abandons, Resting, GivenRests
<1>3. ASSUME NEW r \in Runs, PersistTurn(r)
      PROVE  Life'
  <2>1. Unborn' /\ Begotten' /\ ArchivedEnded' /\ PausedRests'
        /\ EndedRests' /\ AbandonedRests' /\ GivenRests'
    BY <1>3 DEF PersistTurn, Unborn, Begotten, At, ArchivedEnded, PausedRests,
       EndedRests, AbandonedRests, Abandons, Resting, GivenRests
  <2>2. Placed'
    <3>1. boards' # Nothing
      BY <1>3 DEF PersistTurn, Move, PositionsTyped, Boards, Nothing
    <3> QED  BY <1>3, <3>1 DEF PersistTurn, Move, Placed, At
  <2> QED  BY <2>1, <2>2
<1>4. ASSUME NEW r \in Runs, FailTurn(r)
      PROVE  Life'
  <2>1. Unborn' /\ Begotten' /\ ArchivedEnded' /\ PausedRests'
        /\ EndedRests' /\ AbandonedRests' /\ GivenRests'
    BY <1>4 DEF FailTurn, StoreAccepts, Unborn, Begotten, At, StagesTyped,
       BranchesTyped, CommandsTyped, Branching, Abandoning, Reaping, Idle,
       ArchivedEnded, PausedRests, EndedRests, AbandonedRests, Abandons,
       Resting, GivenRests
  <2>2. Placed'
    <3>1. boards' # Nothing
      BY <1>4 DEF FailTurn, Move, PositionsTyped, Boards, Nothing
    <3> QED  BY <1>4, <3>1 DEF FailTurn, Move, Placed, At, StagesTyped
  <2> QED  BY <2>1, <2>2
<1>5. ASSUME NEW r \in Runs, NEW state \in {"paused", "ended"}, LandAtBoundary(r, state)
      PROVE  Life'
  <2>1. Unborn' /\ Begotten' /\ ArchivedEnded' /\ PausedRests'
        /\ EndedRests' /\ AbandonedRests' /\ GivenRests'
    BY <1>5 DEF LandAtBoundary, StoreAccepts, Unborn, Begotten, At, StagesTyped,
       BranchesTyped, CommandsTyped, Branching, Abandoning, Reaping, Idle,
       ArchivedEnded, PausedRests, EndedRests, AbandonedRests, Abandons,
       Resting, GivenRests
  <2>2. Placed'
    BY <1>5 DEF LandAtBoundary, Placed, At, StagesTyped
  <2> QED  BY <2>1, <2>2
<1>6. ASSUME NEW r \in Runs, Resume(r)
      PROVE  Life'
  BY <1>6 DEF Resume, StoreAccepts, PlaysOn, BeingAbandoned, Unborn, Begotten,
     At, StagesTyped, Placed, ArchivedEnded, PausedRests, EndedRests,
     AbandonedRests, Abandons, Resting, GivenRests
<1>7. ASSUME NEW r \in Runs, NEW t \in Turns, Rewind(r, t)
      PROVE  Life'
  BY <1>7 DEF Rewind, StoreAccepts, PlaysOn, BeingAbandoned, Unborn, Begotten,
     At, StagesTyped, Placed, ArchivedEnded, PausedRests, EndedRests,
     AbandonedRests, Abandons, Resting, GivenRests
<1>8. ASSUME NEW r \in Runs, SupersedeReplayed(r)
      PROVE  Life'
  BY <1>8 DEF SupersedeReplayed, Unborn, Begotten, At, Placed, ArchivedEnded,
     PausedRests, EndedRests, AbandonedRests, Abandons, Resting, GivenRests
<1>9. ASSUME NEW r \in Runs, VerifyBranch(r)
      PROVE  Life'
  <2>1. Unborn' /\ Begotten' /\ ArchivedEnded' /\ PausedRests'
        /\ EndedRests' /\ AbandonedRests' /\ GivenRests'
    BY <1>9 DEF VerifyBranch, Unborn, Begotten, At, StagesTyped, BranchesTyped,
       CommandsTyped, Branching, Abandoning, Reaping, Idle, ArchivedEnded,
       PausedRests, EndedRests, AbandonedRests, Abandons, Resting, GivenRests
  <2>2. Placed'
    BY <1>9 DEF VerifyBranch, Placed, At, StagesTyped
  <2> QED  BY <2>1, <2>2
<1>10. ASSUME NEW r \in Runs, ArchiveRun(r)
      PROVE  Life'
  BY <1>10 DEF ArchiveRun, Unborn, Begotten, At, Placed, ArchivedEnded,
     PausedRests, EndedRests, AbandonedRests, Abandons, Resting, GivenRests
<1>11. ASSUME NEW o \in Operators, NEW p \in Runs, NEW t \in Turns, NEW c \in Runs,
              CheckBranch(o, p, t, c)
      PROVE  Life'
  BY <1>11 DEF CheckBranch, Unborn, Begotten, At, Placed, ArchivedEnded,
     PausedRests, EndedRests, AbandonedRests, Abandons, Resting, GivenRests
<1>12. ASSUME NEW o \in Operators, LoadBranch(o)
      PROVE  Life'
  BY <1>12 DEF LoadBranch, Unborn, Begotten, At, StagesTyped, BranchesTyped,
     CommandsTyped, Branching, Abandoning, Items, Reaping, Idle, Placed,
     PositionsTyped, ArchivedEnded, PausedRests, EndedRests, AbandonedRests,
     Abandons, Resting, GivenRests
<1>13. ASSUME NEW o \in Operators, CreateBranch(o)
      PROVE  Life'
  BY <1>13 DEF CreateBranch, Unborn, Begotten, At, StagesTyped, CommandsTyped,
     Idle, Placed, PositionsTyped, ArchivedEnded, PausedRests, EndedRests,
     AbandonedRests, Abandons, Resting, GivenRests
<1>14. ASSUME NEW o \in Operators, NEW r \in Runs, Abandon(o, r)
      PROVE  Life'
  <2>1. Unborn' /\ Begotten' /\ Placed' /\ ArchivedEnded' /\ PausedRests'
        /\ EndedRests' /\ GivenRests'
    BY <1>14 DEF Abandon, Unborn, Begotten, At, Placed, ArchivedEnded,
       PausedRests, EndedRests, Resting, GivenRests
  <2>2. AbandonedRests'
    <3> DEFINE e == row[r] = "paused"
    <3>1. e \in BOOLEAN
      OBVIOUS
    <3>2. op' = [op EXCEPT ![o] = [at |-> "superseding", run |-> r,
                                   left |-> OwnTurns(r), open |-> e]]
      BY <1>14 DEF Abandon
    <3>3. /\ loop[r] \notin {"absent", "preparing"}
          /\ ~e => row[r] = "ended"
          /\ e => loop[r] = "paused"
      BY <1>14 DEF Abandon, Begotten, PausedRests
    <3> HIDE DEF e
    <3> QED  BY <1>14, <3>1, <3>2, <3>3 DEF Abandon, AbandonedRests, Abandons, At
  <2> QED  BY <2>1, <2>2
<1>15. ASSUME NEW o \in Operators, SupersedeNext(o)
      PROVE  Life'
  BY <1>15 DEF SupersedeNext, Superseded, Unborn, Begotten, At, StagesTyped,
     BranchesTyped, CommandsTyped, Branching, Abandoning, Items, Reaping, Idle,
     Placed, PositionsTyped, ArchivedEnded, PausedRests, EndedRests,
     AbandonedRests, Abandons, Resting, GivenRests
<1>16. ASSUME NEW o \in Operators, RecordAbandonment(o)
      PROVE  Life'
  <2>1. Placed' /\ ArchivedEnded' /\ PausedRests' /\ EndedRests' /\ AbandonedRests'
    BY <1>16 DEF RecordAbandonment, StoreAccepts, Placed, At, Idle,
       ArchivedEnded, PausedRests, EndedRests, AbandonedRests, Abandons, Resting
  <2>2. Unborn'
    <3>1. op[o].run \in Runs
      BY <1>16, CommandKinds DEF RecordAbandonment, At, Abandoning
    <3>2. row[op[o].run] # "absent" /\ loop[op[o].run] \notin {"absent", "preparing"}
      BY <1>16, <3>1 DEF RecordAbandonment, AbandonedRests, Abandons, At, Begotten
    <3> QED  BY <1>16, <3>1, <3>2 DEF RecordAbandonment, Unborn, At, Idle
  <2>3. Begotten'
    <3>1. op[o].run \in Runs
      BY <1>16, CommandKinds DEF RecordAbandonment, At, Abandoning
    <3>2. row[op[o].run] # "absent" /\ loop[op[o].run] \notin {"absent", "preparing"}
      BY <1>16, <3>1 DEF RecordAbandonment, AbandonedRests, Abandons, At, Begotten
    <3> QED  BY <1>16, <3>1, <3>2 DEF RecordAbandonment, Begotten
  <2>4. GivenRests'
    <3> DEFINE r == op[o].run
    <3>1. r \in Runs /\ Abandons(o, r)
      BY <1>16, CommandKinds DEF RecordAbandonment, At, Abandons, Abandoning
    <3>2. r \notin playedOn => Resting(r)
      BY <3>1 DEF AbandonedRests, EndedRests, Resting
    <3>3. given' = given \cup {r} /\ loop' = loop /\ playedOn' = playedOn
      BY <1>16 DEF RecordAbandonment
    <3> QED  BY <3>1, <3>2, <3>3 DEF GivenRests, Resting
  <2> QED  BY <2>1, <2>2, <2>3, <2>4
<1>17. ASSUME NEW o \in Operators, FinishAbandoned(o)
      PROVE  Life'
  <2>1. Placed' /\ ArchivedEnded' /\ PausedRests' /\ EndedRests'
    BY <1>17, SMTT(15) DEF FinishAbandoned, Placed, Begotten, At, StagesTyped,
       PositionsTyped, CommandsTyped, Branching, Abandoning, Items, Reaping,
       Idle, ArchivedEnded, Unborn, BranchesTyped, PausedRests, EndedRests,
       AbandonedRests, Abandons, Resting
  <2>2. AbandonedRests' /\ GivenRests'
    BY <1>17 DEF FinishAbandoned, AbandonedRests, Abandons, Resting, At, Idle,
       GivenRests
  <2>3. Unborn'
    <3>1. op[o].run \in Runs
      BY <1>17, CommandKinds DEF FinishAbandoned, At, Abandoning
    <3>2. row[op[o].run] # "absent" /\ loop[op[o].run] \notin {"absent", "preparing"}
      BY <1>17, <3>1 DEF FinishAbandoned, AbandonedRests, Abandons, At, Begotten
    <3> QED  BY <1>17, <3>1, <3>2 DEF FinishAbandoned, Unborn, At, Idle
  <2>4. Begotten'
    <3>1. op[o].run \in Runs
      BY <1>17, CommandKinds DEF FinishAbandoned, At, Abandoning
    <3>2. row[op[o].run] # "absent" /\ loop[op[o].run] \notin {"absent", "preparing"}
      BY <1>17, <3>1 DEF FinishAbandoned, AbandonedRests, Abandons, At, Begotten
    <3> QED  BY <1>17, <3>1, <3>2 DEF FinishAbandoned, Begotten, StagesTyped
  <2> QED  BY <2>1, <2>2, <2>3, <2>4
<1>18. ASSUME NEW o \in Operators, PlanReap(o)
      PROVE  Life'
  BY <1>18 DEF PlanReap, Unborn, Begotten, At, Placed, ArchivedEnded,
     PausedRests, EndedRests, AbandonedRests, Abandons, Resting, GivenRests
<1>19. ASSUME NEW o \in Operators, DeleteFile(o)
      PROVE  Life'
  BY <1>19 DEF DeleteFile, Unlinked, Unborn, Begotten, At, StagesTyped,
     BranchesTyped, CommandsTyped, Branching, Abandoning, Items, Reaping, Idle,
     Placed, PositionsTyped, ArchivedEnded, PausedRests, EndedRests,
     AbandonedRests, Abandons, Resting, GivenRests
<1>20. ASSUME NEW o \in Operators, RecordRemoval(o)
      PROVE  Life'
  BY <1>20 DEF RecordRemoval, Unborn, Begotten, At, BranchesTyped,
     CommandsTyped, Abandoning, Idle, Placed, PositionsTyped, ArchivedEnded,
     PausedRests, EndedRests, AbandonedRests, Abandons, Resting, GivenRests
<1>21. ASSUME NEW o \in Operators, OperatorDies(o)
      PROVE  Life'
  BY <1>21 DEF OperatorDies, Unborn, Begotten, At, Idle, Placed, ArchivedEnded,
     PausedRests, EndedRests, AbandonedRests, Abandons, Resting, GivenRests
<1> QED
  BY <1>1, <1>2, <1>3, <1>4, <1>5, <1>6, <1>7, <1>8, <1>9, <1>10, <1>11, <1>12,
     <1>13, <1>14, <1>15, <1>16, <1>17, <1>18, <1>19, <1>20, <1>21
     DEF Next, RunnerStep, OperatorStep

LEMMA FilesStep ==
  ASSUME TypeOK, TypeOK', Life, Files, [Next]_vars
  PROVE  Files'
<1> USE RetentionConstants DEF Life, Files, rowVars, keepVars, branchVars, TypeOK
<1>1. CASE UNCHANGED vars
  BY <1>1 DEF vars, ArchivedOnly, StaysMissing, SaveKept, RemovedIsGone, Planned, At
<1>2. ASSUME NEW r \in Runs, BeginTurn(r)
      PROVE  Files'
  <2>1. ArchivedOnly' /\ StaysMissing' /\ RemovedIsGone'
    BY <1>2 DEF BeginTurn, ArchivedOnly, Planned, At, StagesTyped,
       PositionsTyped, BranchesTyped, CommandsTyped, SavePoint, Branching,
       Abandoning, Items, Reaping, Idle, StaysMissing, ArchivedEnded,
       EndedRests, Resting, RemovedIsGone
  <2>2. SaveKept'
    BY <1>2 DEF BeginTurn, SaveKept, Placed, PositionsTyped
  <2> QED  BY <2>1, <2>2
<1>3. ASSUME NEW r \in Runs, PersistTurn(r)
      PROVE  Files'
  BY <1>3 DEF PersistTurn, Move, ArchivedOnly, Planned, At, StagesTyped,
     PositionsTyped, BranchesTyped, CommandsTyped, SavePoint, Branching,
     Abandoning, Items, Reaping, Idle, StaysMissing, ArchivedEnded, EndedRests,
     Resting, SaveKept, Placed, RemovedIsGone
<1>4. ASSUME NEW r \in Runs, FailTurn(r)
      PROVE  Files'
  BY <1>4 DEF FailTurn, Move, StoreAccepts, ArchivedOnly, Planned, At,
     StagesTyped, PositionsTyped, BranchesTyped, CommandsTyped, SavePoint,
     Branching, Abandoning, Items, Reaping, Idle, StaysMissing, ArchivedEnded,
     EndedRests, Resting, SaveKept, Placed, RemovedIsGone
<1>5. ASSUME NEW r \in Runs, NEW state \in {"paused", "ended"}, LandAtBoundary(r, state)
      PROVE  Files'
  BY <1>5 DEF LandAtBoundary, StoreAccepts, ArchivedOnly, Planned, At,
     StagesTyped, PositionsTyped, BranchesTyped, CommandsTyped, SavePoint,
     Branching, Abandoning, Items, Reaping, Idle, StaysMissing, ArchivedEnded,
     EndedRests, Resting, SaveKept, Placed, RemovedIsGone
<1>6. ASSUME NEW r \in Runs, Resume(r)
      PROVE  Files'
  BY <1>6 DEF Resume, StoreAccepts, PlaysOn, BeingAbandoned, ArchivedOnly,
     Planned, At, StagesTyped, PositionsTyped, BranchesTyped, CommandsTyped,
     SavePoint, Branching, Abandoning, Items, Reaping, Idle, StaysMissing,
     ArchivedEnded, EndedRests, Resting, SaveKept, Placed, RemovedIsGone
<1>7. ASSUME NEW r \in Runs, NEW t \in Turns, Rewind(r, t)
      PROVE  Files'
  BY <1>7 DEF Rewind, StoreAccepts, PlaysOn, BeingAbandoned, ArchivedOnly,
     Planned, At, StagesTyped, PositionsTyped, BranchesTyped, CommandsTyped,
     SavePoint, Branching, Abandoning, Items, Reaping, Idle, StaysMissing,
     ArchivedEnded, EndedRests, Resting, SaveKept, Placed, RemovedIsGone
<1>8. ASSUME NEW r \in Runs, SupersedeReplayed(r)
      PROVE  Files'
  BY <1>8 DEF SupersedeReplayed, Superseded, ArchivedOnly, Planned, At,
     StagesTyped, PositionsTyped, BranchesTyped, CommandsTyped, SavePoint,
     Branching, Abandoning, Items, Reaping, Idle, StaysMissing, ArchivedEnded,
     EndedRests, Resting, SaveKept, Placed, RemovedIsGone
<1>9. ASSUME NEW r \in Runs, VerifyBranch(r)
      PROVE  Files'
  BY <1>9 DEF VerifyBranch, ArchivedOnly, Planned, At, StagesTyped,
     PositionsTyped, BranchesTyped, CommandsTyped, SavePoint, Branching,
     Abandoning, Items, Reaping, Idle, StaysMissing, ArchivedEnded, EndedRests,
     Resting, SaveKept, Placed, RemovedIsGone
<1>10. ASSUME NEW r \in Runs, ArchiveRun(r)
      PROVE  Files'
  <2>1. StaysMissing'
    BY <1>10 DEF ArchiveRun, MadeEligible, StaysMissing, ArchivedOnly,
       ArchivedEnded, EndedRests, Resting, Planned, At, StagesTyped,
       PositionsTyped, BranchesTyped, CommandsTyped, SavePoint, Branching,
       Abandoning, Items, Reaping, Idle
  <2>2. ArchivedOnly'
    <3>1. points' = MadeEligible(r) /\ archived' = archived \cup {r} /\ op' = op
      BY <1>10 DEF ArchiveRun
    <3> QED  BY <3>1, ArchivedPoints DEF ArchivedOnly, Planned, At
  <2>3. SaveKept'
    <3>1. points' = MadeEligible(r) /\ archived' = archived \cup {r} /\ file' = file
      BY <1>10 DEF ArchiveRun
    <3> QED  BY <3>1, ArchivedPoints DEF SaveKept
  <2>4. RemovedIsGone'
    <3>1. points' = MadeEligible(r) /\ playedOn' = playedOn /\ file' = file
      BY <1>10 DEF ArchiveRun
    <3> QED  BY <3>1, ArchivedPoints DEF RemovedIsGone
  <2> QED  BY <2>1, <2>2, <2>3, <2>4
<1>11. ASSUME NEW o \in Operators, NEW p \in Runs, NEW t \in Turns, NEW c \in Runs,
              CheckBranch(o, p, t, c)
      PROVE  Files'
  <2>1. ArchivedOnly' /\ SaveKept' /\ RemovedIsGone'
    BY <1>11 DEF CheckBranch, ArchivedOnly, Planned, At, StagesTyped,
       PositionsTyped, BranchesTyped, CommandsTyped, SavePoint, Branching,
       Abandoning, Items, Reaping, Idle, SaveKept, Placed, RemovedIsGone,
       StaysMissing, ArchivedEnded, EndedRests, Resting
  <2>2. StaysMissing'
    BY <1>11 DEF CheckBranch, StaysMissing, ArchivedOnly, ArchivedEnded,
       EndedRests, Resting, Planned, At, StagesTyped, PositionsTyped,
       BranchesTyped, CommandsTyped, SavePoint, Branching, Abandoning, Items,
       Reaping, Idle
  <2> QED  BY <2>1, <2>2
<1>12. ASSUME NEW o \in Operators, LoadBranch(o)
      PROVE  Files'
  <2>1. ArchivedOnly' /\ SaveKept' /\ RemovedIsGone'
    BY <1>12 DEF LoadBranch, ArchivedOnly, Planned, At, StagesTyped,
       PositionsTyped, BranchesTyped, CommandsTyped, SavePoint, Branching,
       Abandoning, Items, Reaping, Idle, SaveKept, Placed, RemovedIsGone,
       StaysMissing, ArchivedEnded, EndedRests, Resting
  <2>2. StaysMissing'
    <3> DEFINE x == [op[o] EXCEPT !.at = "creating",
                                  !.board = file[op[o].parent][op[o].turn]]
    <3>1. op[o] \in Branching
      BY <1>12, CommandKinds DEF LoadBranch, At
    <3>2. x.at = "creating"
      BY <3>1 DEF Branching
    <3>3. op' = [op EXCEPT ![o] = Idle] \/ op' = [op EXCEPT ![o] = x]
      BY <1>12 DEF LoadBranch, CommandsTyped
    <3>4. file' = file /\ playedOn' = playedOn
      BY <1>12 DEF LoadBranch
    <3> HIDE DEF x
    <3> QED  BY <3>2, <3>3, <3>4 DEF StaysMissing, Planned, At, CommandsTyped, Idle
  <2> QED  BY <2>1, <2>2
<1>13. ASSUME NEW o \in Operators, CreateBranch(o)
      PROVE  Files'
  <2>1. ArchivedOnly' /\ SaveKept' /\ RemovedIsGone'
    BY <1>13 DEF CreateBranch, BranchStart, ArchivedOnly, Planned, At,
       StagesTyped, PositionsTyped, BranchesTyped, CommandsTyped, SavePoint,
       Branching, Abandoning, Items, Reaping, Idle, SaveKept, Placed,
       RemovedIsGone, StaysMissing, ArchivedEnded, EndedRests, Resting
  <2>2. StaysMissing'
    BY <1>13 DEF CreateBranch, BranchStart, StaysMissing, ArchivedOnly,
       ArchivedEnded, EndedRests, Resting, Planned, At, StagesTyped,
       PositionsTyped, BranchesTyped, CommandsTyped, SavePoint, Branching,
       Abandoning, Items, Reaping, Idle
  <2> QED  BY <2>1, <2>2
<1>14. ASSUME NEW o \in Operators, NEW r \in Runs, Abandon(o, r)
      PROVE  Files'
  <2>1. ArchivedOnly' /\ StaysMissing' /\ SaveKept'
    BY <1>14 DEF Abandon, OwnTurns, ArchivedOnly, Planned, At, StagesTyped,
       PositionsTyped, BranchesTyped, CommandsTyped, SavePoint, Branching,
       Abandoning, Items, Reaping, Idle, StaysMissing, ArchivedEnded,
       EndedRests, Resting, SaveKept, Placed
  <2>2. RemovedIsGone'
    BY <1>14 DEF Abandon, OwnTurns, RemovedIsGone, ArchivedOnly, StaysMissing,
       ArchivedEnded, EndedRests, Resting, Planned, At, StagesTyped,
       PositionsTyped, BranchesTyped, CommandsTyped, SavePoint, Branching,
       Abandoning, Items, Reaping, Idle
  <2> QED  BY <2>1, <2>2
<1>15. ASSUME NEW o \in Operators, SupersedeNext(o)
      PROVE  Files'
  <2>1. ArchivedOnly' /\ SaveKept' /\ RemovedIsGone'
    BY <1>15 DEF SupersedeNext, Superseded, ArchivedOnly, Planned, At,
       StagesTyped, PositionsTyped, BranchesTyped, CommandsTyped, SavePoint,
       Branching, Abandoning, Items, Reaping, Idle, SaveKept, Placed,
       RemovedIsGone, StaysMissing, ArchivedEnded, EndedRests, Resting
  <2>2. StaysMissing'
    <3>1. /\ file' = file /\ playedOn' = playedOn
          /\ \E x : op' = [op EXCEPT ![o] = x] /\ x.at \notin {"deleting", "recording"}
      BY <1>15 DEF SupersedeNext, CommandsTyped, Idle, Branching, Abandoning, Reaping
    <3> QED  BY <3>1 DEF StaysMissing, Planned, At, CommandsTyped
  <2> QED  BY <2>1, <2>2
<1>16. ASSUME NEW o \in Operators, RecordAbandonment(o)
      PROVE  Files'
  <2>1. ArchivedOnly' /\ StaysMissing' /\ RemovedIsGone'
    <3>0. /\ points' = points /\ file' = file /\ archived' = archived /\ playedOn' = playedOn
          /\ op[o] \in Abandoning
          /\ \/ op' = [op EXCEPT ![o] = [op[o] EXCEPT !.at = "finishing"]]
             \/ op' = [op EXCEPT ![o] = Idle]
      BY <1>16, CommandKinds DEF RecordAbandonment, At, Abandons, keepVars
    <3>1. \E x : op' = [op EXCEPT ![o] = x] /\ x.at \notin {"deleting", "recording"}
      <4>1. [op[o] EXCEPT !.at = "finishing"].at = "finishing" /\ Idle.at \notin {"deleting", "recording"}
        BY <3>0 DEF Abandoning, Idle
      <4> QED  BY <3>0, <4>1
    <3>2. \A q \in Operators :
             At(q, {"deleting", "recording"})' =>
                op'[q] = op[q] /\ At(q, {"deleting", "recording"})
      BY <3>1 DEF At, CommandsTyped
    <3>3. \A q \in Operators : Planned(q)' \in {{}, Planned(q)}
      BY <3>2 DEF Planned
    <3> QED  BY <3>0, <3>2, <3>3 DEF ArchivedOnly, StaysMissing, RemovedIsGone, At
  <2>2. SaveKept'
    BY <1>16 DEF RecordAbandonment, SaveKept
  <2> QED  BY <2>1, <2>2
<1>17. ASSUME NEW o \in Operators, FinishAbandoned(o)
      PROVE  Files'
  BY <1>17 DEF FinishAbandoned, ArchivedOnly, Planned, At, StagesTyped,
     PositionsTyped, BranchesTyped, CommandsTyped, SavePoint, Branching,
     Abandoning, Items, Reaping, Idle, StaysMissing, ArchivedEnded, EndedRests,
     Resting, SaveKept, Placed, RemovedIsGone
<1>18. ASSUME NEW o \in Operators, PlanReap(o)
      PROVE  Files'
  <2>1. SaveKept'
    BY <1>18 DEF PlanReap, Plan, SaveKept, ArchivedOnly, Placed, Planned, At,
       StagesTyped, PositionsTyped, BranchesTyped, CommandsTyped, SavePoint,
       Branching, Abandoning, Items, Reaping, Idle
  <2>2. RemovedIsGone'
    BY <1>18 DEF PlanReap, Plan, RemovedIsGone, ArchivedOnly, StaysMissing,
       ArchivedEnded, EndedRests, Resting, Planned, At, StagesTyped,
       PositionsTyped, BranchesTyped, CommandsTyped, SavePoint, Branching,
       Abandoning, Items, Reaping, Idle
  <2>3. ArchivedOnly'
    <3>1. \A i \in Plan : i.point \in points /\ i.point.status = "eligible"
      BY DEF Plan
    <3>2. /\ points' = points /\ archived' = archived
          /\ op' = [op EXCEPT ![o] = [at |-> "deleting", plan |-> Plan]]
      BY <1>18 DEF PlanReap
    <3> HIDE DEF Plan
    <3> QED  BY <3>1, <3>2 DEF ArchivedOnly, Planned, At
  <2>4. StaysMissing'
    <3>1. \A i \in Plan : ~i.exists => file[i.point.run][i.point.turn] = Nothing
      <4> SUFFICES ASSUME NEW p \in points,
                          ~[point |-> p, exists |-> file[p.run][p.turn] # Nothing].exists
                   PROVE  file[p.run][p.turn] = Nothing
        BY DEF Plan
      <4> QED  OBVIOUS
    <3>2. /\ file' = file /\ playedOn' = playedOn
          /\ op' = [op EXCEPT ![o] = [at |-> "deleting", plan |-> Plan]]
      BY <1>18 DEF PlanReap
    <3> HIDE DEF Plan
    <3> QED  BY <3>1, <3>2 DEF StaysMissing, Planned, At, CommandsTyped
  <2> QED  BY <2>1, <2>2, <2>3, <2>4
<1>19. ASSUME NEW o \in Operators, DeleteFile(o)
      PROVE  Files'
  <2>1. ArchivedOnly' /\ SaveKept' /\ RemovedIsGone'
    BY <1>19 DEF DeleteFile, Unlinked, ArchivedOnly, Planned, At, StagesTyped,
       PositionsTyped, BranchesTyped, CommandsTyped, SavePoint, Branching,
       Abandoning, Items, Reaping, Idle, SaveKept, Placed, RemovedIsGone,
       StaysMissing, ArchivedEnded, EndedRests, Resting
  <2>2. StaysMissing'
    <3>1. op[o] \in [at : {"deleting"}, plan : SUBSET Items]
      BY <1>19, CommandKinds DEF DeleteFile, At
    <3>2. PICK item \in op[o].plan :
            /\ op' = [op EXCEPT ![o] =
                        IF item.exists /\ file[item.point.run][item.point.turn] = Nothing
                          THEN Idle
                          ELSE [at |-> "recording", plan |-> op[o].plan, item |-> item]]
            /\ file' = IF item.exists
                         THEN Unlinked(item.point.run, item.point.turn) ELSE file
      BY <1>19 DEF DeleteFile
    <3>3. item.point.run \in Runs /\ item.point.turn \in Turns
      BY <3>1 DEF Items, SavePoint
    <3>4. \A r \in Runs, t \in Turns : file[r][t] = Nothing => file'[r][t] = Nothing
      BY <3>2, <3>3 DEF Unlinked, PositionsTyped
    <3>5. item.point.run \notin playedOn =>
            file'[item.point.run][item.point.turn] = Nothing
      BY <1>19, <3>2, <3>3 DEF DeleteFile, Unlinked, PositionsTyped,
         StaysMissing, Planned, At
    <3>6. \A q \in Operators :
            Planned(q)' \subseteq Planned(q) /\ Planned(q) \subseteq Items
      BY <3>1, <3>2, CommandKinds DEF Planned, At, Idle
    <3>7. \A i \in Items : i.point.run \in Runs /\ i.point.turn \in Turns
      BY DEF Items, SavePoint
    <3>8. \A q \in Operators : \A i \in Planned(q)' :
            ~i.exists /\ i.point.run \notin playedOn =>
              file'[i.point.run][i.point.turn] = Nothing
      BY <3>4, <3>6, <3>7 DEF StaysMissing
    <3>9. ASSUME NEW q \in Operators, At(q, {"recording"})',
                 op'[q].item.point.run \notin playedOn
          PROVE  file'[op'[q].item.point.run][op'[q].item.point.turn] = Nothing
      <4>1. CASE q = o
        BY <3>2, <3>5, <3>9, <4>1 DEF At, CommandsTyped, Idle
      <4>2. CASE q # o
        <5>1. op'[q] = op[q] /\ At(q, {"recording"})
          BY <3>2, <3>9, <4>2 DEF At, CommandsTyped
        <5>2. op[q].item \in Items
          BY <5>1, CommandKinds
        <5> QED  BY <3>4, <3>7, <3>9, <5>1, <5>2 DEF StaysMissing
      <4> QED  BY <4>1, <4>2
    <3>10. playedOn' = playedOn
      BY <1>19 DEF DeleteFile
    <3> QED  BY <3>8, <3>9, <3>10 DEF StaysMissing
  <2> QED  BY <2>1, <2>2
<1>20. ASSUME NEW o \in Operators, RecordRemoval(o)
      PROVE  Files'
  <2>1. StaysMissing'
    BY <1>20 DEF RecordRemoval, StaysMissing, ArchivedOnly, ArchivedEnded,
       EndedRests, Resting, Planned, At, StagesTyped, PositionsTyped,
       BranchesTyped, CommandsTyped, SavePoint, Branching, Abandoning, Items,
       Reaping, Idle
  <2>2. ArchivedOnly'
    <3> DEFINE rest == op[o].plan \ {op[o].item}
    <3>1. /\ archived' = archived /\ At(o, {"recording"})
          /\ \/ op' = [op EXCEPT ![o] = Idle]
             \/ op' = [op EXCEPT ![o] = [at |-> "deleting", plan |-> rest]]
      BY <1>20 DEF RecordRemoval, At
    <3>2. \A i \in rest : i.point.run \in archived
      BY <3>1 DEF ArchivedOnly, Planned, At
    <3>3. \A p \in points' : p.status # "retained" => p.run \in archived
      BY <1>20, <3>1, RemovedPoints DEF ArchivedOnly, At
    <3> QED  BY <3>1, <3>2, <3>3 DEF ArchivedOnly, Planned, At, CommandsTyped, Idle
  <2>3. SaveKept'
    <3>1. file' = file /\ archived' = archived
      BY <1>20 DEF RecordRemoval
    <3> QED  BY <1>20, <3>1, RemovedPoints DEF SaveKept
  <2>4. RemovedIsGone'
    <3>1. file' = file /\ playedOn' = playedOn /\ At(o, {"recording"})
      BY <1>20 DEF RecordRemoval, At
    <3> QED  BY <1>20, <3>1, RemovedPoints DEF RemovedIsGone, StaysMissing, At
  <2> QED  BY <2>1, <2>2, <2>3, <2>4
<1>21. ASSUME NEW o \in Operators, OperatorDies(o)
      PROVE  Files'
  BY <1>21 DEF OperatorDies, ArchivedOnly, Planned, At, StagesTyped,
     PositionsTyped, BranchesTyped, CommandsTyped, SavePoint, Branching,
     Abandoning, Items, Reaping, Idle, StaysMissing, ArchivedEnded, EndedRests,
     Resting, SaveKept, Placed, RemovedIsGone
<1> QED
  BY <1>1, <1>2, <1>3, <1>4, <1>5, <1>6, <1>7, <1>8, <1>9, <1>10, <1>11, <1>12,
     <1>13, <1>14, <1>15, <1>16, <1>17, <1>18, <1>19, <1>20, <1>21
     DEF Next, RunnerStep, OperatorStep

LEMMA RecordsStep ==
  ASSUME TypeOK, Life, Covered, GivenUp, [Next]_vars
  PROVE  (Covered /\ GivenUp)'
<1> USE RetentionConstants DEF Life, Files, rowVars, keepVars, branchVars, TypeOK
<1>1. CASE UNCHANGED vars
  BY <1>1 DEF vars, Covered, GivenUp, PointsOf, Authoritative, Abandons, At
<1>2. ASSUME NEW r \in Runs, BeginTurn(r)
      PROVE  (Covered /\ GivenUp)'
  <2>1. GivenUp'
    BY <1>2 DEF BeginTurn, GivenUp, Authoritative, Abandons, At
  <2>2. Covered'
    <3>0. PICK t \in Turns : t = cur[r] + 1
      BY <1>2 DEF BeginTurn
    <3>1. PICK n :
            /\ points' = points \cup
                 {[run |-> r, turn |-> t, status |-> "retained", n |-> n]}
            /\ record' = record
            /\ cur' = [cur EXCEPT ![r] = t] /\ loop' = [loop EXCEPT ![r] = "turn"]
      BY <1>2, <3>0 DEF BeginTurn
    <3>2. \A q \in Runs, s \in Turns : PointsOf(q, s) # {} => PointsOf(q, s)' # {}
      BY <3>1 DEF PointsOf
    <3>3. PointsOf(r, t)' # {}
      <4> DEFINE new == [run |-> r, turn |-> t, status |-> "retained", n |-> n]
      <4>1. new \in points' /\ new.run = r /\ new.turn = t
        BY <3>1
      <4> HIDE DEF new
      <4> QED  BY <4>1 DEF PointsOf
    <3>4. \A q \in Runs : \A s \in Authoritative(q)' : PointsOf(q, s)' # {}
      BY <3>1, <3>2 DEF Covered, Authoritative
    <3>5. cur'[r] = t /\ \A q \in Runs : q # r => cur'[q] = cur[q] /\ loop'[q] = loop[q]
      BY <3>1 DEF StagesTyped
    <3>6. \A q \in Runs : loop'[q] = "turn" =>
            (cur[q] \in Turns /\ PointsOf(q, cur[q]) # {})'
      <4> SUFFICES ASSUME NEW q \in Runs, loop'[q] = "turn", NEW s, s = cur'[q]
                   PROVE  s \in Turns /\ PointsOf(q, s)' # {}
        BY DEF PointsOf
      <4>1. CASE q = r
        BY <3>3, <3>5, <4>1
      <4>2. CASE q # r
        BY <3>2, <3>5, <4>2 DEF Covered
      <4> QED  BY <4>1, <4>2
    <3> QED  BY <3>4, <3>6 DEF Covered
  <2> QED  BY <2>1, <2>2
<1>3. ASSUME NEW r \in Runs, PersistTurn(r)
      PROVE  (Covered /\ GivenUp)'
  <2>1. Covered'
    BY <1>3 DEF PersistTurn, Covered, PointsOf, Authoritative
  <2>2. GivenUp'
    <3>1. /\ loop[r] = "turn" /\ record' = [record EXCEPT ![r][cur[r]] = game[r]]
          /\ given' = given /\ playedOn' = playedOn /\ op' = op
      BY <1>3 DEF PersistTurn
    <3>2. \A q \in Runs : q # r => Authoritative(q)' = Authoritative(q)
      BY <3>1 DEF Authoritative, PositionsTyped
    <3>3. r \notin playedOn => r \notin given /\ \A o \in Operators : ~Abandons(o, r)
      BY <3>1 DEF AbandonedRests, EndedRests, GivenRests, Resting
    <3> QED  BY <3>1, <3>2, <3>3 DEF GivenUp, Abandons, At, BranchesTyped
  <2> QED  BY <2>1, <2>2
<1>4. ASSUME NEW r \in Runs, FailTurn(r)
      PROVE  (Covered /\ GivenUp)'
  BY <1>4 DEF FailTurn, Covered, PointsOf, Authoritative, StagesTyped, At,
     GivenUp, Abandons
<1>5. ASSUME NEW r \in Runs, NEW state \in {"paused", "ended"}, LandAtBoundary(r, state)
      PROVE  (Covered /\ GivenUp)'
  BY <1>5 DEF LandAtBoundary, Covered, PointsOf, Authoritative, StagesTyped, At,
     GivenUp, Abandons
<1>6. ASSUME NEW r \in Runs, Resume(r)
      PROVE  (Covered /\ GivenUp)'
  BY <1>6 DEF Resume, PlaysOn, Covered, PointsOf, Authoritative, At, GivenUp, Abandons
<1>7. ASSUME NEW r \in Runs, NEW t \in Turns, Rewind(r, t)
      PROVE  (Covered /\ GivenUp)'
  BY <1>7 DEF Rewind, PlaysOn, Covered, PointsOf, Authoritative, At, GivenUp, Abandons
<1>8. ASSUME NEW r \in Runs, SupersedeReplayed(r)
      PROVE  (Covered /\ GivenUp)'
  BY <1>8 DEF SupersedeReplayed, Superseded, Covered, PointsOf, Authoritative,
     At, GivenUp, Abandons
<1>9. ASSUME NEW r \in Runs, VerifyBranch(r)
      PROVE  (Covered /\ GivenUp)'
  BY <1>9 DEF VerifyBranch, Covered, PointsOf, Authoritative, StagesTyped, At,
     GivenUp, Abandons
<1>10. ASSUME NEW r \in Runs, ArchiveRun(r)
      PROVE  (Covered /\ GivenUp)'
  <2>1. GivenUp'
    BY <1>10 DEF ArchiveRun, GivenUp, Authoritative, Abandons, At
  <2>2. Covered'
    <3>1. /\ points' = MadeEligible(r)
          /\ record' = record /\ loop' = loop /\ cur' = cur
      BY <1>10 DEF ArchiveRun
    <3>2. \A q, t : PointsOf(q, t) # {} => PointsOf(q, t)' # {}
      BY <3>1, ArchivedPoints DEF PointsOf
    <3>3. \A q \in Runs : \A t \in Authoritative(q)' : PointsOf(q, t)' # {}
      BY <3>1, <3>2 DEF Covered, Authoritative
    <3>4. \A q \in Runs : loop'[q] = "turn" =>
            (cur[q] \in Turns /\ PointsOf(q, cur[q]) # {})'
      <4> SUFFICES ASSUME NEW q \in Runs, loop[q] = "turn", NEW s, s = cur[q]
                   PROVE  s \in Turns /\ PointsOf(q, s)' # {}
        BY <3>1 DEF PointsOf
      <4> QED  BY <3>2 DEF Covered
    <3> QED  BY <3>3, <3>4 DEF Covered
  <2> QED  BY <2>1, <2>2
<1>11. ASSUME NEW o \in Operators, NEW p \in Runs, NEW t \in Turns, NEW c \in Runs,
              CheckBranch(o, p, t, c)
      PROVE  (Covered /\ GivenUp)'
  BY <1>11 DEF CheckBranch, Covered, PointsOf, Authoritative, At, GivenUp, Abandons
<1>12. ASSUME NEW o \in Operators, LoadBranch(o)
      PROVE  (Covered /\ GivenUp)'
  BY <1>12 DEF LoadBranch, Covered, PointsOf, Authoritative, At, GivenUp, Abandons, Idle
<1>13. ASSUME NEW o \in Operators, CreateBranch(o)
      PROVE  (Covered /\ GivenUp)'
  BY <1>13 DEF CreateBranch, Covered, PointsOf, Authoritative, StagesTyped,
     SavePoint, At, GivenUp, Abandons, Items, Reaping, Idle
<1>14. ASSUME NEW o \in Operators, NEW r \in Runs, Abandon(o, r)
      PROVE  (Covered /\ GivenUp)'
  BY <1>14 DEF Abandon, OwnTurns, Covered, PointsOf, Authoritative, At, GivenUp,
     Abandons
<1>15. ASSUME NEW o \in Operators, SupersedeNext(o)
      PROVE  (Covered /\ GivenUp)'
  BY <1>15 DEF SupersedeNext, Superseded, Covered, PointsOf, Authoritative,
     StagesTyped, PositionsTyped, SavePoint, At, GivenUp, EndedRests, Resting,
     AbandonedRests, GivenRests, Abandons, BranchesTyped, CommandsTyped,
     Branching, Abandoning, Items, Reaping, Idle
<1>16. ASSUME NEW o \in Operators, RecordAbandonment(o)
      PROVE  (Covered /\ GivenUp)'
  <2>1. Covered'
    BY <1>16 DEF RecordAbandonment, Covered, PointsOf, Authoritative
  <2>2. GivenUp'
    <3> DEFINE r == op[o].run
               x == [op[o] EXCEPT !.at = "finishing"]
    <3>1. op[o] \in Abandoning /\ At(o, {"superseding"}) /\ op[o].left = {}
      BY <1>16, CommandKinds DEF RecordAbandonment, At
    <3>2. r \in Runs /\ Abandons(o, r) /\ x.at = "finishing"
      BY <3>1 DEF Abandoning, Abandons, At
    <3>3. r \notin playedOn => Authoritative(r) = {}
      BY <3>1, <3>2 DEF GivenUp
    <3>4. /\ given' = given \cup {r} /\ record' = record /\ playedOn' = playedOn
          /\ op' = [op EXCEPT ![o] = Idle] \/ op' = [op EXCEPT ![o] = x]
      BY <1>16 DEF RecordAbandonment, CommandsTyped
    <3>5. \A q \in Runs : Authoritative(q)' = Authoritative(q)
      BY <3>4 DEF Authoritative
    <3> HIDE DEF x, r
    <3>6. \A q \in given' : q \notin playedOn' => Authoritative(q)' = {}
      BY <3>2, <3>3, <3>4, <3>5 DEF GivenUp, BranchesTyped
    <3>7. \A q \in Operators : At(q, {"superseding"})' => op'[q] = op[q]
      BY <3>2, <3>4 DEF At, CommandsTyped, Idle
    <3>8. \A q \in Operators : \A s \in Runs \ playedOn' :
            (Abandons(q, s) /\ At(q, {"superseding"}) =>
               Authoritative(s) \subseteq op[q].left)'
      BY <3>4, <3>5, <3>7 DEF GivenUp, Abandons, At
    <3> QED  BY <3>6, <3>8 DEF GivenUp
  <2> QED  BY <2>1, <2>2
<1>17. ASSUME NEW o \in Operators, FinishAbandoned(o)
      PROVE  (Covered /\ GivenUp)'
  BY <1>17 DEF FinishAbandoned, Covered, PointsOf, Authoritative, At, GivenUp,
     Abandons, Idle
<1>18. ASSUME NEW o \in Operators, PlanReap(o)
      PROVE  (Covered /\ GivenUp)'
  BY <1>18 DEF PlanReap, Covered, PointsOf, Authoritative, At, GivenUp, Abandons
<1>19. ASSUME NEW o \in Operators, DeleteFile(o)
      PROVE  (Covered /\ GivenUp)'
  BY <1>19 DEF DeleteFile, Unlinked, Covered, PointsOf, Authoritative,
     StagesTyped, PositionsTyped, SavePoint, At, GivenUp, EndedRests, Resting,
     AbandonedRests, GivenRests, Abandons, BranchesTyped, CommandsTyped,
     Branching, Abandoning, Items, Reaping, Idle
<1>20. ASSUME NEW o \in Operators, RecordRemoval(o)
      PROVE  (Covered /\ GivenUp)'
  <2>1. Covered'
    <3>1. record' = record /\ loop' = loop /\ cur' = cur
      BY <1>20 DEF RecordRemoval
    <3>2. \A q, t : PointsOf(q, t) # {} => PointsOf(q, t)' # {}
      BY <1>20, RemovedPoints DEF PointsOf
    <3> QED  BY <3>1, <3>2 DEF Covered, Authoritative
  <2>2. GivenUp'
    <3>1. record' = record /\ given' = given /\ playedOn' = playedOn
      BY <1>20 DEF RecordRemoval
    <3>2. \/ op' = [op EXCEPT ![o] = Idle]
          \/ op' = [op EXCEPT ![o] = [at |-> "deleting",
                                      plan |-> op[o].plan \ {op[o].item}]]
      BY <1>20 DEF RecordRemoval
    <3> QED  BY <3>1, <3>2 DEF GivenUp, Authoritative, Abandons, At, CommandsTyped, Idle
  <2> QED  BY <2>1, <2>2
<1>21. ASSUME NEW o \in Operators, OperatorDies(o)
      PROVE  (Covered /\ GivenUp)'
  BY <1>21 DEF OperatorDies, Covered, PointsOf, Authoritative, At, GivenUp,
     Abandons, Idle
<1> QED
  BY <1>1, <1>2, <1>3, <1>4, <1>5, <1>6, <1>7, <1>8, <1>9, <1>10, <1>11, <1>12,
     <1>13, <1>14, <1>15, <1>16, <1>17, <1>18, <1>19, <1>20, <1>21
     DEF Next, RunnerStep, OperatorStep

LEMMA LineageStep ==
  ASSUME TypeOK, [Next]_vars
  PROVE  Kept
<1> USE RetentionConstants DEF Life, Files, rowVars, keepVars, branchVars, TypeOK
<1>1. CASE UNCHANGED vars
  BY <1>1 DEF vars, Kept
<1>2. ASSUME NEW r \in Runs, BeginTurn(r)
      PROVE  Kept
  BY <1>2 DEF BeginTurn, Kept
<1>3. ASSUME NEW r \in Runs, PersistTurn(r)
      PROVE  Kept
  BY <1>3 DEF PersistTurn, Kept
<1>4. ASSUME NEW r \in Runs, FailTurn(r)
      PROVE  Kept
  BY <1>4 DEF FailTurn, Kept
<1>5. ASSUME NEW r \in Runs, NEW state \in {"paused", "ended"}, LandAtBoundary(r, state)
      PROVE  Kept
  BY <1>5 DEF LandAtBoundary, Kept
<1>6. ASSUME NEW r \in Runs, Resume(r)
      PROVE  Kept
  BY <1>6 DEF Resume, Kept
<1>7. ASSUME NEW r \in Runs, NEW t \in Turns, Rewind(r, t)
      PROVE  Kept
  BY <1>7 DEF Rewind, Kept
<1>8. ASSUME NEW r \in Runs, SupersedeReplayed(r)
      PROVE  Kept
  <2> SUFFICES ASSUME NEW c \in Runs, lineage[c].parent # "none",
                      record[lineage[c].parent][lineage[c].turn] # Nothing
               PROVE  record'[lineage[c].parent][lineage[c].turn]
                        = record[lineage[c].parent][lineage[c].turn]
    BY DEF Kept
  <2> DEFINE p == lineage[c].parent
             t == lineage[c].turn
  <2>1. p \in Runs /\ t \in Turns
    BY DEF BranchesTyped, Lineages, NoLineage
  <2>2. Protected(p, t)
    BY DEF Protected
  <2>3. PICK free : /\ record' = Superseded(r, free)
                    /\ \A s \in free : s \in Turns /\ ~Protected(r, s)
    BY <1>8, SMTT(30) DEF SupersedeReplayed, Authoritative, Turns
  <2> QED  BY <2>1, <2>2, <2>3, SupersededIs
<1>9. ASSUME NEW r \in Runs, VerifyBranch(r)
      PROVE  Kept
  BY <1>9 DEF VerifyBranch, Kept
<1>10. ASSUME NEW r \in Runs, ArchiveRun(r)
      PROVE  Kept
  BY <1>10 DEF ArchiveRun, Kept
<1>11. ASSUME NEW o \in Operators, NEW p \in Runs, NEW t \in Turns, NEW c \in Runs,
              CheckBranch(o, p, t, c)
      PROVE  Kept
  BY <1>11 DEF CheckBranch, Kept
<1>12. ASSUME NEW o \in Operators, LoadBranch(o)
      PROVE  Kept
  BY <1>12 DEF LoadBranch, Kept
<1>13. ASSUME NEW o \in Operators, CreateBranch(o)
      PROVE  Kept
  BY <1>13 DEF CreateBranch, Kept
<1>14. ASSUME NEW o \in Operators, NEW r \in Runs, Abandon(o, r)
      PROVE  Kept
  BY <1>14 DEF Abandon, Kept
<1>15. ASSUME NEW o \in Operators, SupersedeNext(o)
      PROVE  Kept
  <2> SUFFICES ASSUME NEW c \in Runs, lineage[c].parent # "none",
                      record[lineage[c].parent][lineage[c].turn] # Nothing
               PROVE  record'[lineage[c].parent][lineage[c].turn]
                        = record[lineage[c].parent][lineage[c].turn]
    BY DEF Kept
  <2> DEFINE p == lineage[c].parent
             t == lineage[c].turn
  <2>1. p \in Runs /\ t \in Turns
    BY DEF BranchesTyped, Lineages, NoLineage
  <2>2. Protected(p, t)
    BY DEF Protected
  <2>3. \/ record' = record
        \/ /\ record' = Superseded(op[o].run, {Lowest(op[o].left)})
           /\ ~(/\ record[op[o].run][Lowest(op[o].left)] # Nothing
                /\ Protected(op[o].run, Lowest(op[o].left)))
    BY <1>15 DEF SupersedeNext
  <2>4. op[o].run \in Runs
    BY <1>15, CommandKinds DEF SupersedeNext, At, Abandoning
  <2> QED  BY <2>1, <2>2, <2>3, <2>4, SupersededIs
<1>16. ASSUME NEW o \in Operators, RecordAbandonment(o)
      PROVE  Kept
  BY <1>16 DEF RecordAbandonment, Kept
<1>17. ASSUME NEW o \in Operators, FinishAbandoned(o)
      PROVE  Kept
  BY <1>17 DEF FinishAbandoned, Kept
<1>18. ASSUME NEW o \in Operators, PlanReap(o)
      PROVE  Kept
  BY <1>18 DEF PlanReap, Kept
<1>19. ASSUME NEW o \in Operators, DeleteFile(o)
      PROVE  Kept
  BY <1>19 DEF DeleteFile, Kept
<1>20. ASSUME NEW o \in Operators, RecordRemoval(o)
      PROVE  Kept
  BY <1>20 DEF RecordRemoval, Kept
<1>21. ASSUME NEW o \in Operators, OperatorDies(o)
      PROVE  Kept
  BY <1>21 DEF OperatorDies, Kept
<1> QED
  BY <1>1, <1>2, <1>3, <1>4, <1>5, <1>6, <1>7, <1>8, <1>9, <1>10, <1>11, <1>12,
     <1>13, <1>14, <1>15, <1>16, <1>17, <1>18, <1>19, <1>20, <1>21
     DEF Next, RunnerStep, OperatorStep

(* Every step, of the runner or of a command line, preserves it. *)
THEOREM InvPreserved == RetentionInv /\ [Next]_vars => RetentionInv'
<1> SUFFICES ASSUME RetentionInv, [Next]_vars PROVE RetentionInv'
  OBVIOUS
<1>1. (TypeOK /\ IsFiniteSet(points))'
  BY TypesStep DEF RetentionInv
<1>2. Life'
  BY LifeStep DEF RetentionInv
<1>3. Files'
  BY <1>1, FilesStep DEF RetentionInv
<1>4. (Covered /\ GivenUp)'
  BY RecordsStep DEF RetentionInv
<1> QED  BY <1>1, <1>2, <1>3, <1>4 DEF RetentionInv

(* So it holds of every reachable state. *)
THEOREM Invariant == Spec => []RetentionInv
  BY InitInv, InvPreserved, PTL DEF Spec

(* Whoever reaps, archives or replays: a save point not given up has its   *)
(* file, and one recorded as removed has none.                             *)
THEOREM SavesKept == Spec => []SavesAccounted
<1>1. RetentionInv => SavesAccounted
  BY DEF RetentionInv, Files, SavesAccounted
<1> QED  BY <1>1, Invariant, PTL

(* A branch given up and ended has nothing authoritative left. *)
THEOREM GivenUpIsEmpty == Spec => []AbandonedIsEmpty
<1>1. RetentionInv => AbandonedIsEmpty
  BY DEF RetentionInv, GivenUp, AbandonedIsEmpty
<1> QED  BY <1>1, Invariant, PTL

(* Once a branch stands on a parent's recorded turn, that record stays. *)
THEOREM BranchPointsStay == Spec => LineageKept
<1>1. RetentionInv /\ [Next]_vars => [Kept]_vars
  BY LineageStep DEF RetentionInv
<1>2. [Kept]_vars => [\A c \in Runs :
       LET p == lineage[c].parent
           t == lineage[c].turn
       IN p # "none" /\ record[p][t] # Nothing => record'[p][t] = record[p][t]]_vars
  BY DEF Kept
<1> QED  BY <1>1, <1>2, Invariant, PTL DEF Spec, LineageKept
=============================================================================
