------------------------------- MODULE Claims -------------------------------
(***************************************************************************)
(* run/composition.py's preparation of a run and run/identity_lock.py:     *)
(* harness processes that attach runs to game clients, the tuner's single  *)
(* connection slot, and the lock files that claim a run identity and a     *)
(* client for one run.                                                     *)
(*                                                                         *)
(* A harness process is one event loop: RunIdentityLock.acquire has no     *)
(* await in it, so only another process interleaves with its file          *)
(* operations, and nothing keeps that process out.  A start is driven one  *)
(* at a time per harness.                                                  *)
(***************************************************************************)
EXTENDS Naturals, FiniteSets

CONSTANTS
  Harnesses,   \* harness processes sharing one lock directory
  Clients,     \* game clients, by PID (a PID is not used again)
  Runs,        \* run identities; each start makes a fresh one
  Troubles     \* which of AllTroubles happen

AllTroubles ==
  {"mismatch",    \* preparation records a mismatch and fails the run
   "raise",       \* preparation raises once the claim is made
   "disconnect",  \* a client's tuner connection drops
   "exit",        \* a client process ends
   "crash"}       \* a harness process ends

ASSUME ClaimConstants ==
  /\ Troubles \subseteq AllTroubles
  /\ {"absent", "torn", "none", "free"} \cap (Clients \cup Runs) = {}

VARIABLES
  up,       \* the clients whose process is alive (psutil.pid_exists)
  slot,     \* per client, the run whose NexusClient is connected, or "free"
  files,    \* per run, its lock file: the PID in it, "torn", or "absent"
  row,      \* per run, its stored lifecycle
  client,   \* per run, the client it attached to
  ctx,      \* per harness, run_contexts' keys
  prep,     \* per harness, the start in progress
  dropped,  \* history: per run, what took it, or its claim, from its harness
  raced     \* history: the runs whose acquire another one ran beside

vars == <<up, slot, files, row, client, ctx, prep, dropped, raced>>

Idle == [pc |-> "idle", run |-> "none", unread |-> {}, broken |-> "none", clash |-> FALSE]

Rows == {"absent", "preparing", "playing", "ended"}

Init ==
  /\ up = Clients
  /\ slot = [c \in Clients |-> "free"]
  /\ files = [r \in Runs |-> "absent"]
  /\ row = [r \in Runs |-> "absent"]
  /\ client = [r \in Runs |-> "none"]
  /\ ctx = [h \in Harnesses |-> {}]
  /\ prep = [h \in Harnesses |-> Idle]
  /\ dropped = [r \in Runs |-> "no"]
  /\ raced = {}

Connected(r) == client[r] # "none" /\ slot[client[r]] = r

(* Closing the clients of some runs frees the slots they hold. *)
Closed(S) == [c \in Clients |-> IF slot[c] \in S THEN "free" ELSE slot[c]]

Fresh(r) == client[r] = "none"

(* RunIdentityLock.release: the file is unlinked, if there is one. *)
Released_Not(S) == files
Released(S) == [q \in Runs |-> IF q \in S THEN "absent" ELSE files[q]]

At(h, pc) == prep[h].pc = pc
Goto(h, pc) == prep' = [prep EXCEPT ![h].pc = pc]
Leave(h) == prep' = [prep EXCEPT ![h] = Idle]

Drop(S, why) == dropped' = [r \in Runs |-> IF r \in S THEN why ELSE dropped[r]]

-----------------------------------------------------------------------------
(* start: _release_terminal_run_clients drops every context whose run has  *)
(* ended or whose client is disconnected, with its claim; then the tuner   *)
(* is asked for its one connection, which a held slot refuses.             *)
Start(h, c, r) ==
  LET ended == {q \in ctx[h] : row[q] = "ended" \/ ~Connected(q)}
      slots == Closed(ended)
  IN /\ At(h, "idle")
     /\ Fresh(r)
     /\ ctx' = [ctx EXCEPT ![h] = @ \ ended]
     /\ files' = Released(ended)
     /\ IF c \in up /\ slots[c] = "free"
          THEN /\ slot' = [slots EXCEPT ![c] = r]
               /\ client' = [client EXCEPT ![r] = c]
               /\ prep' = [prep EXCEPT ![h] =
                             [Idle EXCEPT !.pc = "connected", !.run = r]]
          ELSE slot' = slots /\ UNCHANGED <<client, prep>>
     /\ UNCHANGED <<up, row, dropped, raced>>

(* Step 7: the Run record is written, before the claim is asked for. *)
CreateRow(h) ==
  /\ At(h, "connected")
  /\ row' = [row EXCEPT ![prep[h].run] = "preparing"]
  /\ Goto(h, "created")
  /\ UNCHANGED <<up, slot, files, client, ctx, dropped, raced>>

Acquiring == {h \in Harnesses : prep[h].pc \in {"reading", "writing"}}

(* acquire: _active_locks lists the directory ... *)
ListLocks(h) ==
  /\ At(h, "created")
  /\ prep' = [prep EXCEPT ![h].pc = "reading",
                          ![h].unread = {q \in Runs : files[q] # "absent"}]
  /\ raced' = IF Acquiring = {} THEN raced
              ELSE raced \cup {prep[k].run : k \in Acquiring \cup {h}}
  /\ UNCHANGED <<up, slot, files, row, client, ctx, dropped>>

(* A lock file is active while the client it names is alive. *)
Active_WhileConnected(q) == files[q] \in up /\ slot[files[q]] # "free"
Active(q) == files[q] \in up

(* Either half of the claim can be taken already. *)
Conflicts_SameRun(q, mine) == q = mine
Conflicts(q, mine) == q = mine \/ files[q] = client[mine]

(* ... and reads one file after another.  A malformed file, a file that    *)
(* has not been filled yet and one whose recorded process is gone ...      *)
ReadLock(h, q) ==
  /\ At(h, "reading")
  /\ prep[h].broken = "none"
  /\ q \in prep[h].unread
  /\ prep' = [prep EXCEPT ![h].unread = @ \ {q},
                          ![h].broken = IF Active(q) THEN "none" ELSE q,
                          ![h].clash = @ \/ (Active(q) /\ Conflicts(q, prep[h].run))]
  /\ Drop(IF files[q] = "torn" THEN {q} ELSE {}, "misread")
  /\ UNCHANGED <<up, slot, files, row, client, ctx, raced>>

(* ... are unlinked, whatever they hold by then.                           *)
UnlinkLock(h) ==
  /\ At(h, "reading")
  /\ prep[h].broken # "none"
  /\ files' = Released({prep[h].broken})
  /\ prep' = [prep EXCEPT ![h].broken = "none"]
  /\ UNCHANGED <<up, slot, row, client, ctx, dropped, raced>>

Scanned(h) == prep[h].unread = {} /\ prep[h].broken = "none"

(* RunIdentityLockError leaves through _prepare_run, which closes the      *)
(* client and re-raises.                                                   *)
Refuse(h) ==
  /\ At(h, "reading")
  /\ Scanned(h)
  /\ prep[h].clash
  /\ slot' = Closed({prep[h].run})
  /\ Leave(h)
  /\ UNCHANGED <<up, files, row, client, ctx, dropped, raced>>

(* Path.write_text: the file is created empty ... *)
OpenLock(h) ==
  /\ At(h, "reading")
  /\ Scanned(h)
  /\ ~prep[h].clash
  /\ files' = [files EXCEPT ![prep[h].run] = "torn"]
  /\ Goto(h, "writing")
  /\ UNCHANGED <<up, slot, row, client, ctx, dropped, raced>>

LockContent(r) == client[r]

(* ... and filled; a file unlinked in between stays unlinked. *)
FillLock(h) ==
  LET r == prep[h].run
  IN /\ At(h, "writing")
     /\ files' = IF files[r] = "torn" THEN [files EXCEPT ![r] = LockContent(r)] ELSE files
     /\ Goto(h, "claimed")
     /\ UNCHANGED <<up, slot, row, client, ctx, dropped, raced>>

(* Step 8 verified: the run plays and its context is registered. *)
Verified(h) ==
  LET r == prep[h].run
  IN /\ At(h, "claimed")
     /\ row' = [row EXCEPT ![r] = "playing"]
     /\ ctx' = [ctx EXCEPT ![h] = @ \cup {r}]
     /\ Leave(h)
     /\ UNCHANGED <<up, slot, files, client, dropped, raced>>

(* _fail_preparation *)
FailPreparation(h) ==
  LET r == prep[h].run
  IN /\ "mismatch" \in Troubles
     /\ At(h, "claimed")
     /\ row' = [row EXCEPT ![r] = "ended"]
     /\ files' = Released({r})
     /\ slot' = Closed({r})
     /\ Leave(h)
     /\ UNCHANGED <<up, client, ctx, dropped, raced>>

(* turn_timer_preflight, the settings snapshot or the row's update raises: *)
(* _prepare_run closes the client and re-raises.                           *)
PreparationRaises(h) ==
  /\ "raise" \in Troubles
  /\ At(h, "claimed")
  /\ slot' = Closed({prep[h].run})
  /\ Drop({prep[h].run}, "raise")
  /\ Leave(h)
  /\ UNCHANGED <<up, files, row, client, ctx, raced>>

-----------------------------------------------------------------------------
(* evaluate_stop_facts, as the stop condition resolves: the context, the   *)
(* claim and the client are given up and the run finishes.                 *)
StopResolves(h, r) ==
  /\ r \in ctx[h] /\ row[r] = "playing"
  /\ row' = [row EXCEPT ![r] = "ended"]
  /\ ctx' = [ctx EXCEPT ![h] = @ \ {r}]
  /\ files' = Released({r})
  /\ slot' = Closed({r})
  /\ UNCHANGED <<up, client, prep, dropped, raced>>

(* An operator stop, or the recovery engine, ends the run on record only.  *)
EndsOnRecord(h, r) ==
  /\ r \in ctx[h] /\ row[r] = "playing"
  /\ row' = [row EXCEPT ![r] = "ended"]
  /\ UNCHANGED <<up, slot, files, client, ctx, prep, dropped, raced>>

(* LuaSaveLoader reconnects the run's own client. *)
Reconnect(h, r) ==
  /\ r \in ctx[h] /\ row[r] = "playing"
  /\ client[r] \in up /\ slot[client[r]] = "free"
  /\ slot' = [slot EXCEPT ![client[r]] = r]
  /\ UNCHANGED <<up, files, row, client, ctx, prep, dropped, raced>>

Disconnect(c) ==
  /\ "disconnect" \in Troubles
  /\ slot[c] # "free"
  /\ slot' = [slot EXCEPT ![c] = "free"]
  /\ UNCHANGED <<up, files, row, client, ctx, prep, dropped, raced>>

ClientExits(c) ==
  /\ "exit" \in Troubles
  /\ c \in up
  /\ up' = up \ {c}
  /\ slot' = [slot EXCEPT ![c] = "free"]
  /\ UNCHANGED <<files, row, client, ctx, prep, dropped, raced>>

(* The contexts and the start in progress were memory; files and rows stay. *)
HarnessCrashes(h) ==
  /\ "crash" \in Troubles
  /\ slot' = Closed(ctx[h] \cup {prep[h].run})
  /\ ctx' = [ctx EXCEPT ![h] = {}]
  /\ Drop(ctx[h] \cup {prep[h].run}, "crash")
  /\ Leave(h)
  /\ UNCHANGED <<up, files, row, client, raced>>

-----------------------------------------------------------------------------
Acquire(h) ==
  \/ ListLocks(h)
  \/ \E q \in Runs : ReadLock(h, q)
  \/ UnlinkLock(h)
  \/ Refuse(h)
  \/ OpenLock(h)
  \/ FillLock(h)

Prepare(h) ==
  \/ \E c \in Clients, r \in Runs : Start(h, c, r)
  \/ CreateRow(h)
  \/ Acquire(h)
  \/ Verified(h)
  \/ FailPreparation(h)
  \/ PreparationRaises(h)

Play(h, r) ==
  \/ StopResolves(h, r)
  \/ EndsOnRecord(h, r)
  \/ Reconnect(h, r)

Next ==
  \/ \E h \in Harnesses : Prepare(h) \/ HarnessCrashes(h)
  \/ \E h \in Harnesses, r \in Runs : Play(h, r)
  \/ \E c \in Clients : Disconnect(c) \/ ClientExits(c)

Spec == Init /\ [][Next]_vars

-----------------------------------------------------------------------------
(* Properties *)

Preparations ==
  [pc : {"idle", "connected", "created", "reading", "writing", "claimed"},
   run : Runs \cup {"none"}, unread : SUBSET Runs, broken : Runs \cup {"none"},
   clash : BOOLEAN]

TypeOK ==
  /\ up \subseteq Clients
  /\ slot \in [Clients -> Runs \cup {"free"}]
  /\ files \in [Runs -> Clients \cup {"absent", "torn"}]
  /\ row \in [Runs -> Rows]
  /\ client \in [Runs -> Clients \cup {"none"}]
  /\ ctx \in [Harnesses -> SUBSET Runs]
  /\ prep \in [Harnesses -> Preparations]
  /\ dropped \in [Runs -> {"no", "raise", "crash", "misread"}]
  /\ raced \subseteq Runs

Playing == {r \in Runs : row[r] = "playing" /\ \E h \in Harnesses : r \in ctx[h]}

InPreparation == {prep[h].run : h \in Harnesses} \ {"none"}

(* At most one run is active per client, across every harness that shares  *)
(* the machine (spec.md FR-006): the slot alone does not see to it, because *)
(* a run whose connection dropped is still active.  Two runs are on one    *)
(* client only if the acquire of one of them ran beside another one.       *)
OneRunPerClient ==
  \A r, q \in Playing \ raced :
    client[r] = client[q] /\ client[r] \in up => r = q

(* A run being played on a live client keeps its claim until it ends,      *)
(* whatever the other processes scan and unlink in the meantime: only one  *)
(* that read the file between its creation and its content takes it away.  *)
ClaimHeld ==
  \A r \in Playing :
    client[r] \in up => files[r] = client[r] \/ dropped[r] = "misread"

Orphans == {r \in Runs : /\ files[r] \in up
                         /\ r \notin InPreparation
                         /\ \A h \in Harnesses : r \notin ctx[h]}

(* A claim on a live client is some run's that is being prepared or is in  *)
(* a context, wherever the run ended, failed or was refused: only a crash, *)
(* and a preparation that raises, leave one behind.                        *)
NoOrphanClaim == \A r \in Orphans : dropped[r] \in {"raise", "crash"}

=============================================================================
