------------------------------ MODULE Retention ------------------------------
(***************************************************************************)
(* What is kept of a run and who may take it away: saves/branching.py      *)
(* (branch, abandon), saves/archival.py, saves/reaper.py and the store     *)
(* transactions they use, beside the runner's quicksaves and rewinds.      *)
(*                                                                         *)
(* Branching runs in a harness process; abandoning, archiving and reaping  *)
(* in command-line processes with connections of their own.  One store     *)
(* transaction, or one file operation, is one step.  A game position is a  *)
(* number: every line of play gets a fresh one.                            *)
(***************************************************************************)
EXTENDS Naturals, FiniteSets

CONSTANTS
  Runs,        \* run identities
  Root,        \* the run that is being played at the start
  Operators,   \* threads of control that issue the commands below
  MaxTurn,     \* bound on turn numbers
  MaxBoards,   \* bound on the positions the games reach
  MaxDeaths    \* bound on the commands that die half way

ASSUME RetentionConstants ==
  /\ Root \in Runs /\ "none" \notin Runs
  /\ MaxTurn \in Nat \ {0} /\ MaxBoards \in Nat \ {0} /\ MaxDeaths \in Nat

Turns == 1 .. MaxTurn
Boards == 1 .. MaxBoards
Nothing == 0    \* no authoritative record, or no file

VARIABLES
  row,      \* per run, its stored lifecycle
  loop,     \* per run, where the runner's memory of it stands
  cur,      \* per run, the last turn begun
  game,     \* per run, the position of its game
  record,   \* per run and turn, the position the authoritative attempt began on
  file,     \* per run and turn, the position in the save file of that name
  points,   \* the SavePoint records; n counts the earlier ones of that turn
  archived, \* the runs with an archived_at
  lineage,  \* per run, parent_run_id, parent_turn and branch_created's detail
  op,       \* per operator, the command in progress
  given,    \* the runs with a branch_abandoned event
  boards, deaths, \* positions used, commands that died
  playedOn  \* history: runs resumed or rewound after an abandonment began

rowVars == <<row, loop, cur>>
keepVars == <<record, file, points>>
branchVars == <<archived, lineage, given>>
vars == <<rowVars, keepVars, branchVars, game, op, boards, deaths, playedOn>>

NoLineage == [parent |-> "none", turn |-> 0, point |-> 0, board |-> 0]
Idle == [at |-> "idle"]

Init ==
  /\ row = [r \in Runs |-> IF r = Root THEN "playing" ELSE "absent"]
  /\ loop = [r \in Runs |-> IF r = Root THEN "boundary" ELSE "absent"]
  /\ cur = [r \in Runs |-> 0]
  /\ game = [r \in Runs |-> IF r = Root THEN 1 ELSE Nothing]
  /\ record = [r \in Runs |-> [t \in Turns |-> Nothing]]
  /\ file = record
  /\ points = {}
  /\ archived = {} /\ given = {} /\ playedOn = {}
  /\ lineage = [r \in Runs |-> NoLineage]
  /\ op = [o \in Operators |-> Idle]
  /\ boards = 1 /\ deaths = 0

-----------------------------------------------------------------------------
(* Helpers *)

(* update_run refuses what would take a resolved row out of its end. *)
StoreAccepts(r) == row[r] # "ended"

PointsOf(r, t) == {p \in points : p.run = r /\ p.turn = t}
Earliest(S) == CHOOSE p \in S : \A q \in S : p.n <= q.n

(* find_save_point: the first record listed for the run and turn.          *)
(* require_available_save_point refuses it when it is recorded as removed. *)
Available(r, t) ==
  /\ PointsOf(r, t) # {}
  /\ Earliest(PointsOf(r, t)).status # "removed"

(* mark_turn_superseded refuses a turn some child names as its parent's.   *)
Protected_WhileItLives(r, t) ==
  \E c \in Runs : /\ lineage[c].parent = r /\ lineage[c].turn = t
                  /\ row[c] # "ended"
Protected(r, t) ==
  \E c \in Runs : lineage[c].parent = r /\ lineage[c].turn = t

Authoritative(r) == {t \in Turns : record[r][t] # Nothing}

Superseded(r, S) ==
  [record EXCEPT ![r] = [t \in Turns |-> IF t \in S THEN Nothing ELSE @[t]]]

BeingAbandoned(r) ==
  \E o \in Operators : op[o].at \in {"superseding", "finishing"} /\ op[o].run = r

(* A run resumed or rewound while it is being given up, or after. *)
PlaysOn(r) ==
  playedOn' = IF BeingAbandoned(r) \/ r \in given THEN playedOn \cup {r} ELSE playedOn

-----------------------------------------------------------------------------
(* The runner: turns, pauses and rewinds of a run *)

(* _take_quicksave: the file of that name is written over, and a record    *)
(* is added for it.                                                        *)
BeginTurn(r) ==
  LET t == cur[r] + 1
  IN /\ loop[r] = "boundary" /\ t \in Turns
     /\ file' = [file EXCEPT ![r][t] = game[r]]
     /\ points' = points \cup {[run |-> r, turn |-> t, status |-> "retained",
                                n |-> Cardinality(PointsOf(r, t))]}
     /\ cur' = [cur EXCEPT ![r] = t]
     /\ loop' = [loop EXCEPT ![r] = "turn"]
     /\ UNCHANGED <<row, record, branchVars, game, op, boards, deaths, playedOn>>

(* The game moves on, whether or not the attempt is stored. *)
Move(r) ==
  /\ boards < MaxBoards
  /\ boards' = boards + 1
  /\ game' = [game EXCEPT ![r] = boards']

(* A turn is persisted as the authoritative attempt (its slot is free:     *)
(* TurnCycle's PersistNeverRefused) and advanced.                          *)
PersistTurn(r) ==
  /\ loop[r] = "turn" /\ record[r][cur[r]] = Nothing
  /\ record' = [record EXCEPT ![r][cur[r]] = game[r]]
  /\ Move(r)
  /\ loop' = [loop EXCEPT ![r] = "boundary"]
  /\ UNCHANGED <<row, cur, file, points, branchVars, op, deaths, playedOn>>

(* A turn that fails is not recorded; _pause_on_failure pauses the run.    *)
FailTurn(r) ==
  /\ loop[r] = "turn"
  /\ Move(r)
  /\ IF StoreAccepts(r)
       THEN /\ row' = [row EXCEPT ![r] = "paused"]
            /\ loop' = [loop EXCEPT ![r] = "paused"]
       ELSE /\ loop' = [loop EXCEPT ![r] = "ended"]
            /\ UNCHANGED row
  /\ UNCHANGED <<cur, keepVars, branchVars, op, deaths, playedOn>>

(* A pause or a stop lands at a boundary.  When the row has ended under    *)
(* the loop, the store refuses it and the runner takes over the row.       *)
LandAtBoundary(r, state) ==
  /\ loop[r] = "boundary"
  /\ IF StoreAccepts(r)
       THEN /\ row' = [row EXCEPT ![r] = state]
            /\ loop' = [loop EXCEPT ![r] = state]
       ELSE /\ loop' = [loop EXCEPT ![r] = "ended"]
            /\ UNCHANGED row
  /\ UNCHANGED <<cur, keepVars, branchVars, game, op, boards, deaths, playedOn>>

(* request_resume: judged on the runner's memory, written to the row.      *)
Resume(r) ==
  /\ loop[r] = "paused" /\ StoreAccepts(r)
  /\ row' = [row EXCEPT ![r] = "playing"]
  /\ loop' = [loop EXCEPT ![r] = "boundary"]
  /\ PlaysOn(r)
  /\ UNCHANGED <<cur, keepVars, branchVars, game, op, boards, deaths>>

(* resume_from, to the end of the load. *)
Rewind(r, t) ==
  /\ loop[r] = "paused" /\ StoreAccepts(r)
  /\ Available(r, t) /\ file[r][t] # Nothing
  /\ game' = [game EXCEPT ![r] = file[r][t]]
  /\ row' = [row EXCEPT ![r] = "playing"]
  /\ loop' = [loop EXCEPT ![r] = "rewinding"]
  /\ cur' = [cur EXCEPT ![r] = t - 1]
  /\ PlaysOn(r)
  /\ UNCHANGED <<keepVars, branchVars, op, boards, deaths>>

(* _supersede_replayed_turns goes up from the turn rewound to; at a turn   *)
(* a branch stands on the store refuses and the run is left there.         *)
SupersedeReplayed(r) ==
  LET after == {t \in Authoritative(r) : t > cur[r]}
      free == {t \in after : \A s \in after : s <= t => ~Protected(r, s)}
  IN /\ loop[r] = "rewinding"
     /\ record' = Superseded(r, free)
     /\ loop' = [loop EXCEPT ![r] = IF free = after THEN "boundary" ELSE "stranded"]
     /\ UNCHANGED <<row, cur, file, points, branchVars, game, op, boards, deaths, playedOn>>

-----------------------------------------------------------------------------
(* create_branch *)

(* The parent's save point is looked up ...                                *)
CheckBranch(o, p, t, c) ==
  /\ op[o] = Idle
  /\ row[p] # "absent" /\ Available(p, t)
  /\ row[c] = "absent"
  /\ \A q \in Operators : op[q].at \in {"loading", "creating"} => op[q].child # c
  /\ op' = [op EXCEPT ![o] =
              [at |-> "loading", parent |-> p, turn |-> t, child |-> c,
               point |-> Earliest(PointsOf(p, t)).n, board |-> Nothing]]
  /\ UNCHANGED <<rowVars, keepVars, branchVars, game, boards, deaths, playedOn>>

(* ... its file is loaded, which is refused when there is none ...         *)
LoadBranch(o) ==
  /\ op[o].at = "loading"
  /\ LET board == file[op[o].parent][op[o].turn]
     IN op' = [op EXCEPT ![o] = IF board = Nothing THEN Idle
                                ELSE [@ EXCEPT !.at = "creating", !.board = board]]
  /\ UNCHANGED <<rowVars, keepVars, branchVars, game, boards, deaths, playedOn>>

(* A branch replays the turn it starts from: _begin counts from before it. *)
BranchStart(t) == t - 1

(* ... and the child's row and its branch_created event are written.       *)
CreateBranch(o) ==
  /\ op[o].at = "creating"
  /\ LET c == op[o].child
     IN /\ row' = [row EXCEPT ![c] = "preparing"]
        /\ loop' = [loop EXCEPT ![c] = "preparing"]
        /\ cur' = [cur EXCEPT ![c] = BranchStart(op[o].turn)]
        /\ game' = [game EXCEPT ![c] = op[o].board]
        /\ lineage' = [lineage EXCEPT ![c] =
             [parent |-> op[o].parent, turn |-> op[o].turn,
              point |-> op[o].point, board |-> op[o].board]]
  /\ op' = [op EXCEPT ![o] = Idle]
  /\ UNCHANGED <<keepVars, archived, given, boards, deaths, playedOn>>

(* The loaded setup is verified: the branch is played, or it has failed.   *)
VerifyBranch(c) ==
  /\ loop[c] = "preparing"
  /\ \/ /\ row' = [row EXCEPT ![c] = "playing"]
        /\ loop' = [loop EXCEPT ![c] = "boundary"]
     \/ /\ row' = [row EXCEPT ![c] = "ended"]
        /\ loop' = [loop EXCEPT ![c] = "ended"]
  /\ UNCHANGED <<cur, keepVars, branchVars, game, op, boards, deaths, playedOn>>

-----------------------------------------------------------------------------
(* abandon_branch_run *)

(* The turns to give up: those with a save point of the branch's own.      *)
OwnTurns_ButTheLast(r) ==
  {p.turn : p \in {q \in points : q.run = r /\ q.turn < cur[r]}}
OwnTurns(r) == {p.turn : p \in {q \in points : q.run = r}}

Abandon(o, r) ==
  /\ op[o] = Idle
  /\ lineage[r].parent # "none"
  /\ row[r] \in {"paused", "ended"}
  /\ op' = [op EXCEPT ![o] =
              [at |-> "superseding", run |-> r, left |-> OwnTurns(r),
               open |-> row[r] = "paused"]]
  /\ UNCHANGED <<rowVars, keepVars, branchVars, game, boards, deaths, playedOn>>

(* sorted: the turns of the plan in their order. *)
Lowest(turns) == CHOOSE t \in turns : \A s \in turns : t <= s

(* abandon_branch takes the turns one by one; the store's refusal of one   *)
(* ends the command, with the turns before it given up and no event.       *)
SupersedeNext(o) ==
  /\ op[o].at = "superseding" /\ op[o].left # {}
  /\ LET r == op[o].run
         t == Lowest(op[o].left)
         refused == record[r][t] # Nothing /\ Protected(r, t)
     IN /\ op' = [op EXCEPT ![o] = IF refused THEN Idle
                                   ELSE [@ EXCEPT !.left = op[o].left \ {t}]]
        /\ record' = IF refused THEN record ELSE Superseded(r, {t})
  /\ UNCHANGED <<rowVars, file, points, branchVars, game, boards, deaths, playedOn>>

(* branch_abandoned; a branch found paused is then put through playing ... *)
RecordAbandonment(o) ==
  /\ op[o].at = "superseding" /\ op[o].left = {}
  /\ LET r == op[o].run
         goesOn == op[o].open /\ StoreAccepts(r)
     IN /\ given' = given \cup {r}
        /\ row' = IF goesOn THEN [row EXCEPT ![r] = "playing"] ELSE row
        /\ op' = [op EXCEPT ![o] = IF goesOn THEN [@ EXCEPT !.at = "finishing"]
                                   ELSE Idle]
  /\ UNCHANGED <<loop, cur, keepVars, archived, lineage, game, boards, deaths, playedOn>>

(* ... to finished. *)
FinishAbandoned(o) ==
  /\ op[o].at = "finishing"
  /\ row' = [row EXCEPT ![op[o].run] = "ended"]
  /\ op' = [op EXCEPT ![o] = Idle]
  /\ UNCHANGED <<loop, cur, keepVars, branchVars, game, boards, deaths, playedOn>>

-----------------------------------------------------------------------------
(* archive_run and reap *)

(* One transaction: only a terminal run, and its own retained saves.       *)
MadeEligible_OfEveryRun(r) ==
  {[p EXCEPT !.status = IF @ = "retained" THEN "eligible" ELSE @] : p \in points}
MadeEligible(r) ==
  {IF p.run = r /\ p.status = "retained" THEN [p EXCEPT !.status = "eligible"]
   ELSE p : p \in points}

ArchiveRun(r) ==
  /\ row[r] = "ended" /\ r \notin archived
  /\ archived' = archived \cup {r}
  /\ points' = MadeEligible(r)
  /\ UNCHANGED <<rowVars, record, file, lineage, given, game, op, boards, deaths, playedOn>>

(* plan_reap: every eligible save point, and whether its file exists now.  *)
Plan == {[point |-> p, exists |-> file[p.run][p.turn] # Nothing] :
           p \in {q \in points : q.status = "eligible"}}

PlanReap(o) ==
  /\ op[o] = Idle /\ Plan # {}
  /\ op' = [op EXCEPT ![o] = [at |-> "deleting", plan |-> Plan]]
  /\ UNCHANGED <<rowVars, keepVars, branchVars, game, boards, deaths, playedOn>>

(* The plan is in the order of runs and turns.                             *)
Foremost(item, plan) ==
  \A i \in plan : i.point.run = item.point.run =>
    \/ item.point.turn < i.point.turn
    \/ item.point.turn = i.point.turn /\ item.point.n <= i.point.n

(* Path.unlink *)
Unlinked(r, t) == [file EXCEPT ![r][t] = Nothing]

(* A file the plan saw is unlinked; if it has gone since, unlink raises    *)
(* and the command ends there.                                             *)
DeleteFile(o) ==
  /\ op[o].at = "deleting"
  /\ \E item \in op[o].plan :
       LET r == item.point.run
           t == item.point.turn
       IN /\ Foremost(item, op[o].plan)
          /\ op' = [op EXCEPT ![o] =
                      IF item.exists /\ file[r][t] = Nothing THEN Idle
                      ELSE [at |-> "recording", plan |-> op[o].plan, item |-> item]]
          /\ file' = IF item.exists THEN Unlinked(r, t) ELSE file
  /\ UNCHANGED <<rowVars, record, points, branchVars, game, boards, deaths, playedOn>>

(* write_save_point: the record survives the file, as removed.             *)
RecordRemoval(o) ==
  /\ op[o].at = "recording"
  /\ LET item == op[o].item
         rest == op[o].plan \ {item}
         same == [run |-> item.point.run, turn |-> item.point.turn, n |-> item.point.n]
     IN /\ points' = {IF [run |-> p.run, turn |-> p.turn, n |-> p.n] = same
                        THEN [p EXCEPT !.status = "removed"] ELSE p : p \in points}
        /\ op' = [op EXCEPT ![o] = IF rest = {} THEN Idle
                                   ELSE [at |-> "deleting", plan |-> rest]]
  /\ UNCHANGED <<rowVars, record, file, branchVars, game, boards, deaths, playedOn>>

(* A command's process ends half way. *)
OperatorDies(o) ==
  /\ op[o] # Idle /\ deaths < MaxDeaths
  /\ deaths' = deaths + 1
  /\ op' = [op EXCEPT ![o] = Idle]
  /\ UNCHANGED <<rowVars, keepVars, branchVars, game, boards, playedOn>>

-----------------------------------------------------------------------------
RunnerStep(r) ==
  \/ BeginTurn(r)
  \/ PersistTurn(r)
  \/ FailTurn(r)
  \/ \E state \in {"paused", "ended"} : LandAtBoundary(r, state)
  \/ Resume(r)
  \/ \E t \in Turns : Rewind(r, t)
  \/ SupersedeReplayed(r)
  \/ VerifyBranch(r)
  \/ ArchiveRun(r)

OperatorStep(o) ==
  \/ \E p, c \in Runs, t \in Turns : CheckBranch(o, p, t, c)
  \/ LoadBranch(o)
  \/ CreateBranch(o)
  \/ \E r \in Runs : Abandon(o, r)
  \/ SupersedeNext(o)
  \/ RecordAbandonment(o)
  \/ FinishAbandoned(o)
  \/ PlanReap(o)
  \/ DeleteFile(o)
  \/ RecordRemoval(o)
  \/ OperatorDies(o)

Next ==
  \/ \E r \in Runs : RunnerStep(r)
  \/ \E o \in Operators : OperatorStep(o)

Spec == Init /\ [][Next]_vars

-----------------------------------------------------------------------------
(* Properties *)

SavePoint == [run : Runs, turn : Turns, n : Nat,
              status : {"retained", "eligible", "removed"}]

(* The command of an operator, by how far it has come. *)
Branching == [at : {"loading", "creating"}, parent : Runs, turn : Turns, child : Runs,
              point : Nat, board : Boards \cup {Nothing}]
Abandoning == [at : {"superseding", "finishing"}, run : Runs, left : SUBSET Turns,
               open : BOOLEAN]
Items == [point : SavePoint, exists : BOOLEAN]
Reaping == [at : {"deleting"}, plan : SUBSET Items] \cup
           [at : {"recording"}, plan : SUBSET Items, item : Items]

StagesTyped ==
  /\ row \in [Runs -> {"absent", "preparing", "playing", "paused", "ended"}]
  /\ loop \in [Runs -> {"absent", "preparing", "boundary", "turn", "paused",
                        "rewinding", "stranded", "ended"}]
  /\ cur \in [Runs -> 0 .. MaxTurn]

PositionsTyped ==
  /\ game \in [Runs -> Boards \cup {Nothing}]
  /\ record \in [Runs -> [Turns -> Boards \cup {Nothing}]]
  /\ file \in [Runs -> [Turns -> Boards \cup {Nothing}]]
  /\ boards \in Boards /\ deaths \in 0 .. MaxDeaths

Lineages == [parent : Runs, turn : Turns, point : Nat, board : Boards \cup {Nothing}]

BranchesTyped ==
  /\ archived \subseteq Runs /\ given \subseteq Runs /\ playedOn \subseteq Runs
  /\ lineage \in [Runs -> {NoLineage} \cup Lineages]

CommandsTyped ==
  op \in [Operators -> {Idle} \cup Branching \cup Abandoning \cup Reaping]

TypeOK ==
  StagesTyped /\ PositionsTyped /\ BranchesTyped /\ CommandsTyped
  /\ points \subseteq SavePoint

(* Whatever is archived and reaped elsewhere, a run that is not archived   *)
(* has a file for every save point on its record (spec.md FR-036; archive_ *)
(* run makes its own run's saves eligible and the reaper asks no more).    *)
SaveKept ==
  \A p \in points : p.run \notin archived => file[p.run][p.turn] # Nothing

(* A record says removed only once the file has gone, wherever the reaper  *)
(* stops (reap deletes before it records), unless the run was played on    *)
(* under an abandonment.                                                   *)
RemovedIsGone ==
  \A p \in points : p.status = "removed" /\ p.run \notin playedOn =>
    file[p.run][p.turn] = Nothing

(* Once a branch stands on a parent's recorded turn, no rewind and no      *)
(* abandonment of the parent replaces that record (data-model.md I12;      *)
(* mark_turn_superseded's refusal).                                        *)
LineageKept ==
  [][\A c \in Runs :
       LET p == lineage[c].parent
           t == lineage[c].turn
       IN p # "none" /\ record[p][t] # Nothing => record'[p][t] = record[p][t]]_vars

(* A branch given up and ended has nothing authoritative left, unless it   *)
(* was played on (abandon_branch_run: nothing authoritative remains to     *)
(* trend on; every turn the branch attempted has a save point).            *)
AbandonedIsEmpty ==
  \A r \in given : row[r] = "ended" /\ r \notin playedOn => Authoritative(r) = {}

(* Two branches that name one save point began from one position           *)
(* (data-model.md section 5, FR-034).                                      *)
OneSaveOnePosition ==
  \A a, b \in Runs :
    /\ lineage[a].parent # "none"
    /\ lineage[a].parent = lineage[b].parent
    /\ lineage[a].turn = lineage[b].turn
    /\ lineage[a].point = lineage[b].point
    => lineage[a].board = lineage[b].board

(* Save points and files tell the same story, whoever reaps, archives or   *)
(* replays: a point not given up has its file, one recorded as removed has *)
(* none, and the states are well typed.                                    *)
SavesAccounted == TypeOK /\ SaveKept /\ RemovedIsGone
=============================================================================
