---------------------------- MODULE Claims_proofs ----------------------------
(***************************************************************************)
(* What the lock directory guarantees, for any number of harnesses,        *)
(* clients and starts, through disconnections, clients that exit,          *)
(* preparations that raise, harnesses that crash and processes that scan   *)
(* the directory at the same time.                                         *)
(*                                                                         *)
(* The claim of a run is safe once it is written: whoever cleans the       *)
(* directory leaves alone the file that names a live client.  What a scan  *)
(* found broken it still unlinks later, so the proof follows the file it   *)
(* is about to unlink: a run that plays on a live client is not that run,  *)
(* unless the scan read its file before it was filled.  That two runs keep *)
(* off one client is about the scan: a run that holds a claim on the       *)
(* client being claimed is, until the scan has read its file, among the    *)
(* files still to be read; once it has been read, there is a clash.  Two   *)
(* processes scanning at once both find nothing, and raced remembers them. *)
(***************************************************************************)
EXTENDS Claims, TLAPS

(* The runs whose claim must be on file: registered, or about to be. *)
Claimed(h) == ctx[h] \cup (IF At(h, "claimed") THEN {prep[h].run} ELSE {})
Claimants == UNION {Claimed(h) : h \in Harnesses}

(* A start in progress has a run and a client; a harness at rest has none. *)
Attached ==
  \A h \in Harnesses :
    /\ At(h, "idle") <=> prep[h].run = "none"
    /\ \A r \in ctx[h] \cup {prep[h].run} : r \in Runs => client[r] \in Clients

(* A run is one harness's, and is either being prepared or registered. *)
OneHarness ==
  \A h, k \in Harnesses :
    /\ h # k => ctx[h] \cap ctx[k] = {}
    /\ prep[h].run \notin ctx[k]
    /\ h # k /\ prep[h].run = prep[k].run => prep[h].run = "none"

(* A run has no lock file before its own acquire writes one. *)
Unwritten ==
  /\ \A r \in Runs : client[r] = "none" => files[r] = "absent"
  /\ \A h \in Harnesses :
       prep[h].pc \in {"connected", "created", "reading"} =>
         files[prep[h].run] = "absent"

Misread(r) == dropped[r] = "misread"
LiveClaim(r) == client[r] \in up => files[r] = client[r] \/ Misread(r)

(* The claim of a claimant is on file, and complete, while its client lives. *)
Held == \A r \in Claimants : files[r] # "torn" /\ LiveClaim(r)

Writing(r) == \E h \in Harnesses : At(h, "writing") /\ prep[h].run = r

(* Nothing touches the file between its creation and its content, unless a *)
(* scan has read it.                                                       *)
WritingTorn == \A r \in Runs : Writing(r) => files[r] = "torn" \/ Misread(r)

(* A run whose file is not created yet is in nobody's scan. *)
Early(r) ==
  \/ client[r] = "none"
  \/ \E h \in Harnesses : /\ prep[h].pc \in {"connected", "created", "reading"}
                           /\ prep[h].run = r
Unseen ==
  \A r \in Runs : Early(r) =>
    /\ ~Misread(r)
    /\ \A h \in Harnesses : r \notin prep[h].unread /\ r # prep[h].broken

(* What is about to be unlinked was read before it was filled, or its      *)
(* client is gone.                                                         *)
Doomed ==
  \A h \in Harnesses, r \in Runs : prep[h].broken = r =>
    /\ r \in Claimants => client[r] \notin up \/ Misread(r)
    /\ Writing(r) => Misread(r)

(* Two scans at once are remembered, and so is a misread file's run. *)
OneScan ==
  \A h, k \in Acquiring : h # k => prep[h].run \in raced /\ prep[k].run \in raced
MisreadRaced ==
  \A r \in Runs : Misread(r) /\ (r \in Claimants \/ Writing(r)) => r \in raced

(* A claimant of the client being claimed is yet to be read, or clashes. *)
Rivals(r) == {q \in Claimants \ raced : client[q] = client[r] /\ client[q] \in up}
ScanCovers ==
  \A h \in Harnesses : prep[h].run \notin raced =>
    /\ At(h, "reading") /\ ~prep[h].clash => Rivals(prep[h].run) \subseteq prep[h].unread
    /\ At(h, "writing") => Rivals(prep[h].run) = {}

Exclusive ==
  \A r, q \in Claimants \ raced : client[r] = client[q] /\ client[r] \in up => r = q

(* The runs and who drives them; the files; the scans. *)
Base == TypeOK /\ Attached /\ OneHarness /\ Unwritten /\ NoOrphanClaim
Kept == Held /\ WritingTorn /\ Unseen /\ Doomed
Safe == OneScan /\ MisreadRaced /\ ScanCovers /\ Exclusive

-----------------------------------------------------------------------------
LEMMA BaseInit == Init => Base
  BY ClaimConstants DEF Init, Base, TypeOK, Attached, OneHarness, Unwritten,
     NoOrphanClaim, Orphans, Idle, At, Rows, Preparations

LEMMA TypeStep ==
  ASSUME TypeOK, Attached, [Next]_vars
  PROVE  TypeOK'
<1>1. CASE UNCHANGED vars
  BY <1>1 DEF vars, TypeOK
<1>2. ASSUME NEW h \in Harnesses, NEW c \in Clients, NEW r \in Runs, Start(h, c, r)
      PROVE  TypeOK'
  <2> DEFINE ended == {q \in ctx[h] : row[q] = "ended" \/ ~Connected(q)}
             slots == Closed(ended)
             took == [Idle EXCEPT !.pc = "connected", !.run = r]
  <2> HIDE DEF ended
  <2>1. ended \subseteq ctx[h]
    BY DEF ended
  <2>2. slots \in [Clients -> Runs \cup {"free"}]
    BY DEF Closed, TypeOK
  <2>3. /\ At(h, "idle") /\ client[r] = "none"
        /\ ctx' = [ctx EXCEPT ![h] = @ \ ended]
        /\ files' = Released(ended)
        /\ row' = row /\ up' = up /\ dropped' = dropped /\ raced' = raced
    BY <1>2 DEF Start, Fresh, ended
  <2>4. \/ slot' = slots /\ client' = client /\ prep' = prep
        \/ /\ slot' = [slots EXCEPT ![c] = r] /\ client' = [client EXCEPT ![r] = c]
           /\ prep' = [prep EXCEPT ![h] = took]
    BY <1>2 DEF Start, ended
  <2>5. /\ took.pc = "connected" /\ took.run = r
        /\ took \in Preparations
    BY DEF Idle, Preparations
  <2> HIDE DEF took, slots
  <2>6. /\ ctx' \in [Harnesses -> SUBSET Runs]
        /\ files' \in [Runs -> Clients \cup {"absent", "torn"}]
        /\ UNCHANGED <<up, row, dropped, raced>>
    BY <2>1, <2>3 DEF TypeOK, Released
  <2>7. CASE slot' = slots /\ client' = client /\ prep' = prep
    BY <2>2, <2>6, <2>7 DEF TypeOK
  <2>8. CASE /\ slot' = [slots EXCEPT ![c] = r] /\ client' = [client EXCEPT ![r] = c]
             /\ prep' = [prep EXCEPT ![h] = took]
    <3>1. prep' \in [Harnesses -> Preparations]
      BY <2>5, <2>8 DEF TypeOK
    <3>2. slot' \in [Clients -> Runs \cup {"free"}] /\ client' \in [Runs -> Clients \cup {"none"}]
      BY <2>2, <2>8 DEF TypeOK
    <3> QED  BY <2>6, <3>1, <3>2 DEF TypeOK
  <2> QED  BY <2>4, <2>7, <2>8
<1>3. ASSUME NEW h \in Harnesses, CreateRow(h)
      PROVE  TypeOK'
  <2>1. prep' \in [Harnesses -> Preparations]
    <3>1. prep[h] \in Preparations
      BY DEF TypeOK
    <3>2. [prep[h] EXCEPT !.pc = "created"] \in Preparations
      BY <3>1 DEF Preparations
    <3> QED  BY <1>3, <3>2 DEF CreateRow, Goto, TypeOK
  <2>2. row' \in [Runs -> Rows] /\ UNCHANGED <<up, slot, files, client, ctx, dropped, raced>>
    BY <1>3 DEF CreateRow, TypeOK, Rows
  <2> QED  BY <2>1, <2>2 DEF TypeOK
<1>4. ASSUME NEW h \in Harnesses, ListLocks(h)
      PROVE  TypeOK'
  <2>1. prep' \in [Harnesses -> Preparations]
    <3> DEFINE p == [prep[h] EXCEPT !.pc = "reading",
                                   !.unread = {q \in Runs : files[q] # "absent"},
                                   !.clash = prep[h].clash]
    <3>1. prep[h] \in Preparations
      BY DEF TypeOK
    <3>2. {q \in Runs : files[q] # "absent"} \in SUBSET Runs /\ prep[h].clash \in BOOLEAN
      BY <3>1 DEF Preparations, Active, Conflicts
    <3>3. p \in Preparations
      BY <3>1, <3>2 DEF Preparations
    <3>4. prep' = [prep EXCEPT ![h] = p]
      BY <3>1, <1>4 DEF ListLocks, At, Preparations, TypeOK
    <3> HIDE DEF p
    <3> QED  BY <3>3, <3>4 DEF TypeOK
  <2>2. UNCHANGED <<up, slot, files, row, client, ctx, dropped>> /\ raced' \subseteq Runs
    BY <1>4 DEF ListLocks, Acquiring, Attached, At, TypeOK, Preparations
  <2> QED  BY <2>1, <2>2 DEF TypeOK
<1>5. ASSUME NEW h \in Harnesses, NEW q \in Runs, ReadLock(h, q)
      PROVE  TypeOK'
  <2>1. prep' \in [Harnesses -> Preparations]
    <3> DEFINE b == IF Active(q) THEN "none" ELSE q
               c == prep[h].clash \/ (Active(q) /\ Conflicts(q, prep[h].run))
               p == [prep[h] EXCEPT !.unread = prep[h].unread \ {q}, !.broken = b, !.clash = c]
    <3>1. prep[h] \in Preparations
      BY DEF TypeOK
    <3>2. b \in Runs \cup {"none"} /\ c \in BOOLEAN
      BY <3>1 DEF Preparations, Active, Conflicts
    <3>4. prep' = [prep EXCEPT ![h] = p]
      BY <3>1, <1>5 DEF ReadLock, Preparations, TypeOK
    <3> HIDE DEF b, c
    <3>3. p \in Preparations
      BY <3>1, <3>2 DEF Preparations
    <3> HIDE DEF p
    <3> QED  BY <3>3, <3>4 DEF TypeOK
  <2>2. /\ dropped' \in [Runs -> {"no", "raise", "crash", "misread"}]
        /\ UNCHANGED <<up, slot, files, row, client, ctx, raced>>
    BY <1>5 DEF ReadLock, Drop, TypeOK
  <2> QED  BY <2>1, <2>2 DEF TypeOK
<1>18. ASSUME NEW h \in Harnesses, UnlinkLock(h)
       PROVE  TypeOK'
  <2>1. prep' \in [Harnesses -> Preparations]
    <3>1. [prep[h] EXCEPT !.broken = "none"] \in Preparations
      BY DEF TypeOK, Preparations
    <3> QED  BY <1>18, <3>1 DEF UnlinkLock, TypeOK
  <2>2. files' \in [Runs -> Clients \cup {"absent", "torn"}]
        /\ UNCHANGED <<up, slot, row, client, ctx, dropped, raced>>
    BY <1>18 DEF UnlinkLock, Released, TypeOK
  <2> QED  BY <2>1, <2>2 DEF TypeOK
<1>6. ASSUME NEW h \in Harnesses, Refuse(h)
      PROVE  TypeOK'
  BY <1>6 DEF Refuse, Closed, Leave, Preparations, TypeOK, Idle
<1>7. ASSUME NEW h \in Harnesses, OpenLock(h)
      PROVE  TypeOK'
  <2>1. [prep[h] EXCEPT !.pc = "writing"] \in Preparations /\ prep[h].run \in Runs
    BY <1>7 DEF OpenLock, TypeOK, Preparations, Attached, At
  <2>2. prep' \in [Harnesses -> Preparations]
    BY <1>7, <2>1 DEF OpenLock, Goto, TypeOK
  <2>3. files' \in [Runs -> Clients \cup {"absent", "torn"}]
        /\ UNCHANGED <<up, slot, row, client, ctx, dropped, raced>>
    BY <1>7, <2>1 DEF OpenLock, TypeOK
  <2> QED  BY <2>2, <2>3 DEF TypeOK
<1>8. ASSUME NEW h \in Harnesses, FillLock(h)
      PROVE  TypeOK'
  <2>1. [prep[h] EXCEPT !.pc = "claimed"] \in Preparations /\ client[prep[h].run] \in Clients
    BY <1>8 DEF FillLock, TypeOK, Preparations, Attached, At
  <2>2. prep' \in [Harnesses -> Preparations]
    BY <1>8, <2>1 DEF FillLock, Goto, TypeOK
  <2>3. files' \in [Runs -> Clients \cup {"absent", "torn"}]
        /\ UNCHANGED <<up, slot, row, client, ctx, dropped, raced>>
    BY <1>8, <2>1 DEF FillLock, LockContent, TypeOK
  <2> QED  BY <2>2, <2>3 DEF TypeOK
<1>9. ASSUME NEW h \in Harnesses, Verified(h)
      PROVE  TypeOK'
  BY <1>9 DEF Verified, Leave, Preparations, TypeOK, Rows, Attached, At, Idle
<1>10. ASSUME NEW h \in Harnesses, FailPreparation(h)
      PROVE  TypeOK'
  BY <1>10 DEF FailPreparation, Leave, Released, Closed, Preparations, TypeOK,
     Rows, Attached, Idle
<1>11. ASSUME NEW h \in Harnesses, PreparationRaises(h)
      PROVE  TypeOK'
  BY <1>11 DEF PreparationRaises, Leave, Drop, Closed, Preparations, TypeOK, Idle
<1>12. ASSUME NEW h \in Harnesses, HarnessCrashes(h)
      PROVE  TypeOK'
  BY <1>12 DEF HarnessCrashes, Leave, Drop, Closed, Preparations, TypeOK, Idle
<1>13. ASSUME NEW h \in Harnesses, NEW r \in Runs, StopResolves(h, r)
      PROVE  TypeOK'
  BY <1>13 DEF StopResolves, Released, Closed, TypeOK, Rows
<1>14. ASSUME NEW h \in Harnesses, NEW r \in Runs, EndsOnRecord(h, r)
      PROVE  TypeOK'
  BY <1>14 DEF EndsOnRecord, TypeOK, Rows
<1>15. ASSUME NEW h \in Harnesses, NEW r \in Runs, Reconnect(h, r)
      PROVE  TypeOK'
  BY <1>15 DEF Reconnect, TypeOK
<1>16. ASSUME NEW c \in Clients, Disconnect(c)
      PROVE  TypeOK'
  BY <1>16 DEF Disconnect, TypeOK
<1>17. ASSUME NEW c \in Clients, ClientExits(c)
      PROVE  TypeOK'
  BY <1>17 DEF ClientExits, TypeOK
<1> QED
  BY <1>1, <1>2, <1>3, <1>4, <1>5, <1>6, <1>7, <1>8, <1>9, <1>10, <1>11, <1>12,
     <1>13, <1>14, <1>15, <1>16, <1>17, <1>18
     DEF Next, Prepare, Acquire, Play

(* What a start does to the claims: it gives up contexts of its own        *)
(* harness, with their files, and may attach a fresh run.                  *)
StartEffect(h, r) ==
  /\ At(h, "idle") /\ client[r] = "none"
  /\ row' = row /\ up' = up /\ dropped' = dropped /\ raced' = raced
  /\ \A q \in Runs : /\ files'[q] = files[q] \/ files'[q] = "absent"
                     /\ q \notin ctx[h] => files'[q] = files[q]
  /\ \A q \in ctx[h] : q \notin ctx'[h] => files'[q] = "absent"
  /\ \A q \in ctx'[h] : files'[q] = files[q]
  /\ \A k \in Harnesses : ctx'[k] \subseteq ctx[k] /\ (k # h => ctx'[k] = ctx[k])
  /\ \A q \in Runs : q # r => client'[q] = client[q]
  /\ \A k \in Harnesses : k # h => prep'[k] = prep[k]
  /\ \/ prep'[h] = prep[h] /\ client' = client
     \/ /\ prep'[h].pc = "connected" /\ prep'[h].run = r /\ client'[r] \in Clients
        /\ prep'[h].unread = {} /\ prep'[h].broken = "none"

LEMMA StartFrame ==
  ASSUME TypeOK, NEW h \in Harnesses, NEW c \in Clients, NEW r \in Runs, Start(h, c, r)
  PROVE  StartEffect(h, r)
<1> DEFINE ended == {q \in ctx[h] : row[q] = "ended" \/ ~Connected(q)}
           slots == Closed(ended)
           took == [Idle EXCEPT !.pc = "connected", !.run = r]
<1> HIDE DEF ended
<1>1. ended \subseteq ctx[h]
  BY DEF ended
<1>2. slots \in [Clients -> Runs \cup {"free"}]
  BY DEF Closed, TypeOK
<1>3. /\ At(h, "idle") /\ client[r] = "none"
      /\ ctx' = [ctx EXCEPT ![h] = @ \ ended]
      /\ files' = Released(ended)
      /\ row' = row /\ up' = up /\ dropped' = dropped /\ raced' = raced
  BY Start(h, c, r) DEF Start, Fresh, ended
<1>4. \/ slot' = slots /\ client' = client /\ prep' = prep
      \/ /\ slot' = [slots EXCEPT ![c] = r] /\ client' = [client EXCEPT ![r] = c]
         /\ prep' = [prep EXCEPT ![h] = took]
  BY Start(h, c, r) DEF Start, ended
<1>5. /\ took.pc = "connected" /\ took.run = r
      /\ took.unread = {} /\ took.broken = "none" /\ took \in Preparations
  BY DEF Idle, Preparations
<1> HIDE DEF took, slots
<1>6. /\ \A q \in Runs : /\ files'[q] = files[q] \/ files'[q] = "absent"
                         /\ q \notin ctx[h] => files'[q] = files[q]
      /\ \A q \in ctx[h] : q \notin ctx'[h] => files'[q] = "absent"
      /\ \A q \in ctx'[h] : files'[q] = files[q]
      /\ \A k \in Harnesses : ctx'[k] \subseteq ctx[k] /\ (k # h => ctx'[k] = ctx[k])
  BY <1>1, <1>3 DEF Released, TypeOK
<1>7. \A q \in Runs : q # r => client'[q] = client[q]
  BY <1>4 DEF TypeOK
<1>8. /\ \A k \in Harnesses : k # h => prep'[k] = prep[k]
      /\ \/ prep'[h] = prep[h] /\ client' = client
         \/ /\ prep'[h].pc = "connected" /\ prep'[h].run = r /\ client'[r] \in Clients
            /\ prep'[h].unread = {} /\ prep'[h].broken = "none"
  BY <1>4, <1>5 DEF TypeOK
<1> QED  BY <1>3, <1>6, <1>7, <1>8 DEF StartEffect

(* What the steps of a scan leave alone. *)
ScanEffect(h) ==
  /\ prep'[h].run = prep[h].run /\ prep'[h].pc = "reading"
  /\ prep[h].pc \in {"created", "reading"}
  /\ \A k \in Harnesses : k # h => prep'[k] = prep[k]
  /\ UNCHANGED <<up, client, ctx, slot, row>>

LEMMA ListFrame ==
  ASSUME TypeOK, NEW h \in Harnesses, ListLocks(h)
  PROVE  /\ ScanEffect(h)
         /\ prep'[h].unread = {q \in Runs : files[q] # "absent"}
         /\ prep'[h].broken = prep[h].broken /\ prep'[h].clash = prep[h].clash
<1> DEFINE U == {q \in Runs : files[q] # "absent"}
           p == [prep[h] EXCEPT !.pc = "reading", !.unread = U]
<1>1. prep[h].pc = "created" /\ UNCHANGED <<up, client, ctx, slot, row>>
  BY DEF ListLocks, At
<1>2. prep' = [prep EXCEPT ![h] = p]
  BY DEF ListLocks
<1> HIDE DEF U
<1>3. /\ p.pc = "reading" /\ p.run = prep[h].run /\ p.unread = U
      /\ p.broken = prep[h].broken /\ p.clash = prep[h].clash
  BY DEF TypeOK, Preparations
<1> HIDE DEF p
<1> QED  BY <1>1, <1>2, <1>3 DEF ScanEffect, TypeOK, U

LEMMA ReadFrame ==
  ASSUME TypeOK, NEW h \in Harnesses, NEW q \in Runs, ReadLock(h, q)
  PROVE  /\ ScanEffect(h) /\ prep[h].pc = "reading"
         /\ prep'[h].unread = prep[h].unread \ {q}
         /\ prep'[h].broken = IF Active(q) THEN "none" ELSE q
         /\ prep'[h].clash = (prep[h].clash \/ (Active(q) /\ Conflicts(q, prep[h].run)))
<1> DEFINE b == IF Active(q) THEN "none" ELSE q
           c == prep[h].clash \/ (Active(q) /\ Conflicts(q, prep[h].run))
           p == [prep[h] EXCEPT !.unread = prep[h].unread \ {q}, !.broken = b, !.clash = c]
<1>1. prep[h].pc = "reading" /\ UNCHANGED <<up, client, ctx, slot, row>>
  BY DEF ReadLock, At
<1>2. prep' = [prep EXCEPT ![h] = p]
  BY DEF ReadLock, TypeOK, Preparations
<1> HIDE DEF b, c
<1>3. /\ p.pc = prep[h].pc /\ p.run = prep[h].run /\ p.unread = prep[h].unread \ {q}
      /\ p.broken = b /\ p.clash = c
  BY DEF TypeOK, Preparations
<1> HIDE DEF p
<1> QED  BY <1>1, <1>2, <1>3 DEF ScanEffect, TypeOK, b, c

LEMMA UnlinkFrame ==
  ASSUME TypeOK, NEW h \in Harnesses, UnlinkLock(h)
  PROVE  /\ ScanEffect(h) /\ prep[h].pc = "reading"
         /\ prep'[h].unread = prep[h].unread /\ prep'[h].broken = "none"
         /\ prep'[h].clash = prep[h].clash
<1> DEFINE p == [prep[h] EXCEPT !.broken = "none"]
<1>1. prep[h].pc = "reading" /\ UNCHANGED <<up, client, ctx, slot, row>>
  BY DEF UnlinkLock, At
<1>2. prep' = [prep EXCEPT ![h] = p]
  BY DEF UnlinkLock
<1>3. /\ p.pc = prep[h].pc /\ p.run = prep[h].run /\ p.unread = prep[h].unread
      /\ p.broken = "none" /\ p.clash = prep[h].clash
  BY DEF TypeOK, Preparations
<1> HIDE DEF p
<1> QED  BY <1>1, <1>2, <1>3 DEF ScanEffect, TypeOK

LEMMA BaseStep ==
  ASSUME Base, [Next]_vars
  PROVE  Base'
<1> USE ClaimConstants DEF Base
<1>0. TypeOK'
  BY TypeStep
<1>1. CASE UNCHANGED vars
  BY <1>0, <1>1 DEF vars, Attached, OneHarness, Unwritten, NoOrphanClaim,
     Orphans, InPreparation, At
<1>2. ASSUME NEW h \in Harnesses, NEW c \in Clients, NEW r \in Runs, Start(h, c, r)
      PROVE  Base'
  <2>0. StartEffect(h, r)
    BY <1>2, StartFrame
  <2>1. \A k \in Harnesses : r \notin ctx[k] /\ r # prep[k].run
    BY <2>0 DEF StartEffect, Attached
  <2>2. Attached'
    BY <2>0, <2>1 DEF StartEffect, TypeOK, Attached, At
  <2>3. OneHarness'
    BY <2>0, <2>1 DEF StartEffect, TypeOK, OneHarness
  <2>4. Unwritten'
    <3>1. \A q \in Runs : client'[q] = "none" => files'[q] = "absent"
      BY <2>0 DEF StartEffect, Unwritten
    <3>2. prep'[h].pc = "connected" => files'[prep'[h].run] = "absent"
      BY <2>0 DEF StartEffect, Unwritten, At
    <3>3. \A k \in Harnesses : prep[k].pc \in {"connected", "created", "reading"} =>
                               files'[prep[k].run] = "absent"
      BY <2>0 DEF StartEffect, Unwritten, Attached, TypeOK, Preparations, At
    <3> QED  BY <2>0, <3>1, <3>2, <3>3 DEF StartEffect, Unwritten, At
  <2>5. NoOrphanClaim'
    <3> SUFFICES ASSUME NEW q \in Orphans' PROVE dropped'[q] \in {"raise", "crash"}
      BY DEF NoOrphanClaim
    <3>1. q \in Runs /\ files'[q] \in up /\ files'[q] # "absent"
      BY <2>0 DEF StartEffect, Orphans, TypeOK
    <3>2. files[q] = files'[q] /\ \A k \in Harnesses : q \notin ctx'[k]
      BY <2>0, <3>1 DEF StartEffect, Orphans
    <3>4. \A k \in Harnesses : q \notin ctx[k]
      BY <2>0, <3>1, <3>2 DEF StartEffect
    <3>3. q \notin InPreparation
      BY <2>0, <3>1 DEF StartEffect, Orphans, InPreparation, Attached
    <3> QED  BY <2>0, <3>1, <3>2, <3>3, <3>4 DEF StartEffect, NoOrphanClaim, Orphans
  <2> QED  BY <1>0, <2>2, <2>3, <2>4, <2>5
<1>3. ASSUME NEW h \in Harnesses, CreateRow(h)
      PROVE  Base'
  <2>1. Attached' /\ OneHarness'
    BY <1>3 DEF CreateRow, Goto, Attached, OneHarness, At
  <2>2. Unwritten'
    BY <1>3 DEF CreateRow, Goto, Unwritten, At
  <2>3. NoOrphanClaim'
    BY <1>3 DEF CreateRow, Goto, NoOrphanClaim, Orphans, InPreparation
  <2> QED  BY <1>0, <2>1, <2>2, <2>3
<1>4. ASSUME NEW h \in Harnesses, ListLocks(h)
      PROVE  Base'
  <2>0. ScanEffect(h)
    BY <1>4, ListFrame
  <2>1. /\ \A k \in Harnesses : prep'[k].run = prep[k].run
        /\ files' = files /\ dropped' = dropped
    BY <1>4, <2>0 DEF ScanEffect, ListLocks
  <2>2. Attached' /\ OneHarness'
    BY <1>4, <2>0, <2>1 DEF ScanEffect, Attached, OneHarness, At
  <2>3. Unwritten'
    BY <1>4, <2>0, <2>1 DEF ScanEffect, Unwritten
  <2>4. NoOrphanClaim'
    BY <1>4, <2>0, <2>1 DEF ScanEffect, NoOrphanClaim, Orphans, InPreparation
  <2> QED  BY <1>0, <2>2, <2>3, <2>4
<1>5. ASSUME NEW h \in Harnesses, NEW q \in Runs, ReadLock(h, q)
      PROVE  Base'
  <2>0. ScanEffect(h)
    BY <1>5, ReadFrame
  <2>1. /\ \A k \in Harnesses : prep'[k].run = prep[k].run
        /\ files' = files
        /\ \A r \in Runs : dropped'[r] = dropped[r] \/ files[r] = "torn"
    BY <1>5, <2>0 DEF ScanEffect, ReadLock, Drop, TypeOK
  <2>2. Attached' /\ OneHarness'
    BY <2>0, <2>1 DEF ScanEffect, Attached, OneHarness, At
  <2>3. Unwritten'
    BY <2>0, <2>1 DEF ScanEffect, Unwritten
  <2>4. NoOrphanClaim'
    BY <2>0, <2>1 DEF ScanEffect, NoOrphanClaim, Orphans, InPreparation, TypeOK
  <2> QED  BY <1>0, <2>2, <2>3, <2>4
<1>18. ASSUME NEW h \in Harnesses, UnlinkLock(h)
       PROVE  Base'
  <2>0. ScanEffect(h)
    BY <1>18, UnlinkFrame
  <2>1. /\ \A k \in Harnesses : prep'[k].run = prep[k].run
        /\ dropped' = dropped
        /\ \A r \in Runs : files'[r] = files[r] \/ files'[r] = "absent"
    BY <1>18, <2>0 DEF ScanEffect, UnlinkLock, Released, TypeOK
  <2>2. Attached' /\ OneHarness'
    BY <2>0, <2>1 DEF ScanEffect, Attached, OneHarness, At
  <2>3. Unwritten'
    BY <2>0, <2>1 DEF ScanEffect, Unwritten, Attached, TypeOK, Preparations, At
  <2>4. NoOrphanClaim'
    BY <2>0, <2>1 DEF ScanEffect, NoOrphanClaim, Orphans, InPreparation, TypeOK
  <2> QED  BY <1>0, <2>2, <2>3, <2>4
<1>6. ASSUME NEW h \in Harnesses, Refuse(h)
      PROVE  Base'
  <2>1. Attached' /\ OneHarness'
    BY <1>6 DEF Refuse, Leave, TypeOK, Attached, OneHarness, At, Idle
  <2>2. Unwritten'
    BY <1>6 DEF Refuse, Leave, Unwritten, Idle
  <2>3. NoOrphanClaim'
    BY <1>6 DEF Refuse, Closed, Leave, TypeOK, Unwritten, NoOrphanClaim,
       Orphans, InPreparation, At
  <2> QED  BY <1>0, <2>1, <2>2, <2>3
<1>7. ASSUME NEW h \in Harnesses, OpenLock(h)
      PROVE  Base'
  <2>1. Attached' /\ OneHarness'
    BY <1>7 DEF OpenLock, Goto, Attached, OneHarness, At
  <2>2. Unwritten'
    BY <1>7 DEF OpenLock, Goto, TypeOK, Attached, OneHarness, Unwritten
  <2>3. NoOrphanClaim'
    BY <1>7 DEF OpenLock, Goto, Preparations, TypeOK, Attached, OneHarness,
       Unwritten, NoOrphanClaim, Orphans, InPreparation, At, Idle
  <2> QED  BY <1>0, <2>1, <2>2, <2>3
<1>8. ASSUME NEW h \in Harnesses, FillLock(h)
      PROVE  Base'
  <2>1. Attached' /\ OneHarness'
    BY <1>8 DEF FillLock, Goto, Attached, OneHarness, At
  <2>2. Unwritten'
    BY <1>8 DEF FillLock, Goto, Unwritten
  <2>3. NoOrphanClaim'
    BY <1>8 DEF FillLock, Goto, NoOrphanClaim, Orphans, InPreparation
  <2> QED  BY <1>0, <2>1, <2>2, <2>3
<1>9. ASSUME NEW h \in Harnesses, Verified(h)
      PROVE  Base'
  <2>1. Attached' /\ OneHarness'
    BY <1>9 DEF Verified, Leave, TypeOK, Attached, OneHarness, At, Idle
  <2>2. Unwritten'
    BY <1>9 DEF Verified, Leave, Unwritten, Idle
  <2>3. NoOrphanClaim'
    BY <1>9 DEF Verified, Leave, TypeOK, NoOrphanClaim, Orphans, InPreparation
  <2> QED  BY <1>0, <2>1, <2>2, <2>3
<1>10. ASSUME NEW h \in Harnesses, FailPreparation(h)
      PROVE  Base'
  <2>1. Attached' /\ OneHarness'
    BY <1>10 DEF FailPreparation, Leave, TypeOK, Attached, OneHarness, At, Idle
  <2>2. Unwritten'
    BY <1>10 DEF FailPreparation, Leave, Released, Preparations, TypeOK,
       Attached, Unwritten, At, Idle
  <2>3. NoOrphanClaim'
    BY <1>10 DEF FailPreparation, Leave, Released, Closed, TypeOK,
       NoOrphanClaim, Orphans, InPreparation
  <2> QED  BY <1>0, <2>1, <2>2, <2>3
<1>11. ASSUME NEW h \in Harnesses, PreparationRaises(h)
      PROVE  Base'
  <2>1. Attached' /\ OneHarness'
    BY <1>11 DEF PreparationRaises, Leave, TypeOK, Attached, OneHarness, At, Idle
  <2>2. Unwritten'
    BY <1>11 DEF PreparationRaises, Leave, Unwritten, Idle
  <2>3. NoOrphanClaim'
    BY <1>11 DEF PreparationRaises, Leave, Drop, Closed, Preparations, TypeOK,
       Attached, OneHarness, Unwritten, NoOrphanClaim, Orphans, InPreparation,
       At, Idle
  <2> QED  BY <1>0, <2>1, <2>2, <2>3
<1>12. ASSUME NEW h \in Harnesses, HarnessCrashes(h)
      PROVE  Base'
  <2>1. Attached' /\ OneHarness'
    BY <1>12 DEF HarnessCrashes, Leave, TypeOK, Attached, OneHarness, At, Idle
  <2>2. Unwritten'
    BY <1>12 DEF HarnessCrashes, Leave, Unwritten, Idle
  <2>3. NoOrphanClaim'
    BY <1>12 DEF HarnessCrashes, Leave, Drop, NoOrphanClaim, Orphans, InPreparation
  <2> QED  BY <1>0, <2>1, <2>2, <2>3
<1>13. ASSUME NEW h \in Harnesses, NEW r \in Runs, StopResolves(h, r)
      PROVE  Base'
  <2>1. Attached' /\ OneHarness'
    BY <1>13 DEF StopResolves, Attached, OneHarness, At
  <2>2. Unwritten'
    BY <1>13 DEF StopResolves, Released, Preparations, TypeOK, Attached, Unwritten, At
  <2>3. NoOrphanClaim'
    BY <1>13 DEF StopResolves, Released, TypeOK, NoOrphanClaim, Orphans, InPreparation
  <2> QED  BY <1>0, <2>1, <2>2, <2>3
<1>14. ASSUME NEW h \in Harnesses, NEW r \in Runs, EndsOnRecord(h, r)
      PROVE  Base'
  <2>1. Attached' /\ OneHarness'
    BY <1>14 DEF EndsOnRecord, Attached, OneHarness, At
  <2>2. Unwritten'
    BY <1>14 DEF EndsOnRecord, Unwritten
  <2>3. NoOrphanClaim'
    BY <1>14 DEF EndsOnRecord, NoOrphanClaim, Orphans, InPreparation
  <2> QED  BY <1>0, <2>1, <2>2, <2>3
<1>15. ASSUME NEW h \in Harnesses, NEW r \in Runs, Reconnect(h, r)
      PROVE  Base'
  <2>1. Attached' /\ OneHarness'
    BY <1>15 DEF Reconnect, Attached, OneHarness, At
  <2>2. Unwritten'
    BY <1>15 DEF Reconnect, Unwritten
  <2>3. NoOrphanClaim'
    BY <1>15 DEF Reconnect, NoOrphanClaim, Orphans, InPreparation
  <2> QED  BY <1>0, <2>1, <2>2, <2>3
<1>16. ASSUME NEW c \in Clients, Disconnect(c)
      PROVE  Base'
  <2>1. Attached' /\ OneHarness'
    BY <1>16 DEF Disconnect, Attached, OneHarness, At
  <2>2. Unwritten'
    BY <1>16 DEF Disconnect, Unwritten
  <2>3. NoOrphanClaim'
    BY <1>16 DEF Disconnect, NoOrphanClaim, Orphans, InPreparation
  <2> QED  BY <1>0, <2>1, <2>2, <2>3
<1>17. ASSUME NEW c \in Clients, ClientExits(c)
      PROVE  Base'
  <2>1. Attached' /\ OneHarness'
    BY <1>17 DEF ClientExits, Attached, OneHarness, At
  <2>2. Unwritten'
    BY <1>17 DEF ClientExits, Unwritten
  <2>3. NoOrphanClaim'
    BY <1>17 DEF ClientExits, NoOrphanClaim, Orphans, InPreparation
  <2> QED  BY <1>0, <2>1, <2>2, <2>3
<1> QED
  BY <1>0, <1>1, <1>2, <1>3, <1>4, <1>5, <1>6, <1>7, <1>8, <1>9, <1>10, <1>11,
     <1>12, <1>13, <1>14, <1>15, <1>16, <1>17, <1>18
     DEF Next, Prepare, Acquire, Play

LEMMA SafeInit == Init => Kept /\ Safe
  BY ClaimConstants DEF Init, Kept, Safe, Held, WritingTorn, Writing, Unseen, Early,
     Misread, Doomed, OneScan, MisreadRaced, ScanCovers, Exclusive, Claimants,
     Claimed, Idle, At, Acquiring

(* A step that is no part of an acquire: it starts no scan, fills no file, *)
(* and leaves alone what the runs that go on have.                         *)
Goes(r) == r \in Claimants \/ \E h \in Acquiring : prep[h].run = r
Quiet ==
  /\ up' \subseteq up /\ raced' = raced
  /\ \A k \in Harnesses :
       /\ prep'[k].pc \in {"reading", "writing"} => prep'[k] = prep[k]
       /\ prep'[k].unread \subseteq prep[k].unread
       /\ prep'[k].broken \in {prep[k].broken, "none"}
  /\ Claimants' \subseteq Claimants
  /\ \A r \in Runs : Goes(r)' => /\ files'[r] = files[r] /\ client'[r] = client[r]
                                 /\ dropped'[r] = dropped[r]
  /\ \A r \in Runs : /\ Early(r)' => Early(r)
                     /\ Misread(r)' => Misread(r)

LEMMA QuietKeeps ==
  ASSUME Base, Base', Kept, Safe, Quiet
  PROVE  Kept' /\ Safe'
<1> USE DEF Base, Kept, Safe
<1>1. /\ \A r \in Claimants : r \in Runs
      /\ \A h \in Acquiring : prep[h].run \in Runs
      /\ \A r \in Claimants' : r \in Runs
      /\ \A h \in Acquiring' : prep'[h].run \in Runs
  BY DEF Claimants, Claimed, Acquiring, At, TypeOK, Preparations, Attached
<1>2. /\ \A k \in Acquiring' : k \in Acquiring /\ prep'[k] = prep[k]
      /\ \A k \in Harnesses : (At(k, "reading") \/ At(k, "writing"))' => k \in Acquiring'
  BY DEF Quiet, Acquiring, At
<1>3. \A r \in Runs : Writing(r)' => Writing(r) /\ Goes(r)'
  BY <1>2 DEF Writing, Goes, Acquiring, At
<1>4. Held'
  BY <1>1 DEF Quiet, Goes, Held, LiveClaim, Misread
<1>5. WritingTorn'
  BY <1>3 DEF Quiet, WritingTorn, Misread
<1>6. Unseen'
  BY ClaimConstants DEF Quiet, Unseen
<1>7. Doomed'
  BY <1>1, <1>3, ClaimConstants DEF Quiet, Goes, Doomed, Misread
<1>8. OneScan' /\ MisreadRaced'
  BY <1>1, <1>2, <1>3 DEF Quiet, OneScan, MisreadRaced
<1>9. \A k \in Acquiring' : Rivals(prep[k].run)' \subseteq Rivals(prep[k].run)
  BY <1>1, <1>2 DEF Quiet, Goes, Rivals
<1>10. ScanCovers'
  BY <1>2, <1>9 DEF Quiet, ScanCovers, At
<1>11. Exclusive'
  BY <1>1 DEF Quiet, Goes, Exclusive
<1> QED  BY <1>4, <1>5, <1>6, <1>7, <1>8, <1>10, <1>11

(* A harness that gives up what it was preparing, and maybe its contexts. *)
LEMMA LeavesQuietly ==
  ASSUME Base, NEW h \in Harnesses,
         prep' = [prep EXCEPT ![h] = Idle],
         ctx' = ctx \/ ctx' = [ctx EXCEPT ![h] = {}],
         UNCHANGED <<up, client, raced>>,
         \A r \in Runs : r # prep[h].run /\ (ctx' = ctx \/ r \notin ctx[h]) =>
                            files'[r] = files[r] /\ dropped'[r] = dropped[r],
         \A r \in Runs : Misread(r)' => Misread(r)
  PROVE  Quiet
<1> USE ClaimConstants DEF Base
<1>1. /\ \A k \in Harnesses : k # h => prep'[k] = prep[k] /\ ctx'[k] = ctx[k]
      /\ prep'[h] = Idle /\ (ctx'[h] = ctx[h] \/ ctx'[h] = {})
      /\ ctx' = ctx \/ ctx'[h] = {}
  BY DEF TypeOK
<1>2. Claimants' \subseteq Claimants
  BY <1>1 DEF Claimants, Claimed, At, Idle
<1>3. \A r \in Runs : Goes(r)' => r # prep[h].run /\ (ctx' = ctx \/ r \notin ctx[h])
  BY <1>1 DEF Goes, Claimants, Claimed, Acquiring, At, Idle, OneHarness
<1> QED  BY <1>1, <1>2, <1>3 DEF Quiet, Early, Idle

(* Every step but those of an acquire is quiet. *)
LEMMA OtherSteps ==
  ASSUME Base, Base', [Next]_vars,
         \A h \in Harnesses : ~Acquire(h)
  PROVE  Quiet
<1> USE ClaimConstants DEF Base
<1>1. CASE UNCHANGED vars
  BY <1>1 DEF vars, Quiet, Goes, Acquiring, Claimants, Claimed, Early, Misread, At
<1>2. ASSUME NEW h \in Harnesses, NEW c \in Clients, NEW r \in Runs, Start(h, c, r)
      PROVE  Quiet
  <2>0. StartEffect(h, r)
    BY <1>2, StartFrame
  <2>1. /\ up' = up /\ raced' = raced /\ dropped' = dropped
        /\ \A k \in Harnesses : prep'[k].pc \in {"reading", "writing", "claimed"} => prep'[k] = prep[k]
    BY <2>0 DEF StartEffect, At
  <2>2. Claimants' \subseteq Claimants
    BY <2>0, <2>1 DEF StartEffect, Claimants, Claimed, At
  <2>3. \A q \in Claimants' : client'[q] = client[q] /\ files'[q] = files[q]
    BY <2>0, <2>1 DEF StartEffect, Claimants, Claimed, At, Preparations, TypeOK,
       Attached, OneHarness
  <2>4. \A k \in Acquiring' : /\ files'[prep'[k].run] = files[prep'[k].run]
                             /\ client'[prep'[k].run] = client[prep'[k].run]
    BY <2>0, <2>1 DEF StartEffect, Acquiring, At, Preparations, TypeOK,
       Attached, OneHarness
  <2>5. \A q \in Runs : Goes(q)' => files'[q] = files[q] /\ client'[q] = client[q]
    BY <2>3, <2>4 DEF Goes
  <2>6. \A q \in Runs : Early(q)' => Early(q)
    BY <2>0 DEF StartEffect, Early
  <2>7. \A k \in Harnesses : /\ prep'[k].unread \subseteq prep[k].unread
                            /\ prep'[k].broken \in {prep[k].broken, "none"}
    BY <2>0 DEF StartEffect
  <2> QED  BY <2>1, <2>2, <2>5, <2>6, <2>7 DEF Quiet, Misread
<1>3. ASSUME NEW h \in Harnesses, CreateRow(h)
      PROVE  Quiet
  <2>1. /\ \A k \in Harnesses : k # h => prep'[k] = prep[k]
        /\ prep'[h].pc = "created" /\ prep[h].pc = "connected" /\ prep'[h].run = prep[h].run
        /\ prep'[h].unread = prep[h].unread /\ prep'[h].broken = prep[h].broken
        /\ UNCHANGED <<up, files, client, ctx, dropped, raced>>
    BY <1>3 DEF CreateRow, Goto, At, TypeOK, Preparations
  <2>2. Claimants' = Claimants
    BY <2>1 DEF Claimants, Claimed, At
  <2> QED  BY <2>1, <2>2 DEF Quiet, Goes, Early, Misread, Acquiring
<1>4. ASSUME NEW h \in Harnesses, Verified(h)
      PROVE  Quiet
  <2>1. /\ \A k \in Harnesses : k # h => prep'[k] = prep[k] /\ ctx'[k] = ctx[k]
        /\ prep'[h] = Idle /\ prep[h].pc = "claimed" /\ ctx'[h] = ctx[h] \cup {prep[h].run}
        /\ UNCHANGED <<up, files, client, dropped, raced>>
    BY <1>4 DEF Verified, Leave, At, TypeOK
  <2>2. Claimants' = Claimants
    BY <2>1 DEF Claimants, Claimed, At, Idle
  <2> QED  BY <2>1, <2>2 DEF Quiet, Goes, Early, Misread, Acquiring, Idle
<1>6. ASSUME NEW h \in Harnesses, FailPreparation(h)
      PROVE  Quiet
  BY <1>6, LeavesQuietly DEF FailPreparation, Leave, Released, Misread
<1>7. ASSUME NEW h \in Harnesses, PreparationRaises(h)
      PROVE  Quiet
  BY <1>7, LeavesQuietly DEF PreparationRaises, Leave, Drop, Misread
<1>8. ASSUME NEW h \in Harnesses, HarnessCrashes(h)
      PROVE  Quiet
  <2>1. \A r \in Runs : r # prep[h].run /\ r \notin ctx[h] => dropped'[r] = dropped[r]
    BY <1>8 DEF HarnessCrashes, Drop
  <2>2. \A r \in Runs : Misread(r)' => Misread(r)
    BY <1>8 DEF HarnessCrashes, Drop, Misread
  <2>3. ctx' = ctx => ctx[h] = {}
    BY <1>8 DEF HarnessCrashes, TypeOK
  <2> QED  BY <1>8, <2>1, <2>2, <2>3, LeavesQuietly DEF HarnessCrashes, Leave
<1>9. ASSUME UNCHANGED <<client, prep, dropped, raced>>, up' \subseteq up,
             \A k \in Harnesses : ctx'[k] \subseteq ctx[k],
             \A r \in Runs : Goes(r)' => files'[r] = files[r]
      PROVE  Quiet
  <2>1. Claimants' \subseteq Claimants
    BY <1>9 DEF Claimants, Claimed, At
  <2> QED  BY <1>9, <2>1 DEF Quiet, Early, Misread
<1>10. ASSUME NEW h \in Harnesses, NEW r \in Runs, StopResolves(h, r)
       PROVE  Quiet
  <2>1. /\ r \in ctx[h] /\ ctx' = [ctx EXCEPT ![h] = @ \ {r}] /\ files' = Released({r})
        /\ UNCHANGED <<up, client, prep, dropped, raced>>
    BY <1>10 DEF StopResolves
  <2>2. ~Goes(r)'
    BY <2>1 DEF Goes, Claimants, Claimed, Acquiring, At, OneHarness, TypeOK
  <2> QED  BY <1>9, <2>1, <2>2 DEF Released, TypeOK
<1>11. ASSUME NEW h \in Harnesses, NEW r \in Runs, EndsOnRecord(h, r) \/ Reconnect(h, r)
       PROVE  Quiet
  BY <1>9, <1>11 DEF EndsOnRecord, Reconnect
<1>12. ASSUME NEW c \in Clients, Disconnect(c) \/ ClientExits(c)
       PROVE  Quiet
  BY <1>9, <1>12 DEF Disconnect, ClientExits
<1> QED
  BY <1>1, <1>2, <1>3, <1>4, <1>6, <1>7, <1>8, <1>10, <1>11, <1>12
     DEF Next, Prepare, Play

LEMMA ScanStep ==
  ASSUME Base, Base', Kept, Safe, NEW h \in Harnesses,
         ListLocks(h) \/ UnlinkLock(h) \/ \E q \in Runs : ReadLock(h, q)
  PROVE  Kept' /\ Safe'
<1> USE ClaimConstants DEF Base, Kept, Safe
<1>0. ScanEffect(h)
  BY ListFrame, ReadFrame, UnlinkFrame
<1>1. /\ \A k \in Harnesses : prep'[k].run = prep[k].run
      /\ \A k \in Harnesses : At(k, "writing")' <=> At(k, "writing")
      /\ \A k \in Harnesses : At(k, "claimed")' <=> At(k, "claimed")
  BY <1>0 DEF ScanEffect, At
<1>2. Claimants' = Claimants /\ \A r \in Runs : Writing(r)' <=> Writing(r)
  BY <1>0, <1>1 DEF ScanEffect, Claimants, Claimed, Writing
<1>3. \A r \in Claimants : r \in Runs
  BY DEF Claimants, Claimed, At, TypeOK, Preparations, Attached
<1>4. \A r \in Runs : Early(r)' <=> Early(r)
  BY <1>0, <1>1 DEF ScanEffect, Early
<1>8. Acquiring \subseteq Harnesses
  BY DEF Acquiring
<1>5. ASSUME ListLocks(h)
      PROVE  Kept' /\ Safe'
  <2>1. /\ files' = files /\ dropped' = dropped /\ raced \subseteq raced'
        /\ prep'[h].unread = {q \in Runs : files[q] # "absent"}
        /\ prep'[h].broken = prep[h].broken /\ prep[h].pc = "created"
        /\ Acquiring # {} => prep[h].run \in raced'
        /\ Acquiring # {} => \A k \in Acquiring : prep[k].run \in raced'
    BY <1>5, ListFrame DEF ListLocks, At
  <2>2. \A k \in Acquiring' : k = h \/ k \in Acquiring
    BY <1>0 DEF ScanEffect, Acquiring
  <2>3. Held' /\ WritingTorn'
    BY <1>0, <1>2, <1>3, <2>1 DEF ScanEffect, Held, LiveClaim, WritingTorn, Misread
  <2>4. Unseen'
    BY <1>0, <1>4, <2>1 DEF ScanEffect, Unseen, Misread, Early, Unwritten
  <2>5. Doomed'
    BY <1>0, <1>2, <2>1 DEF ScanEffect, Doomed, Misread
  <2>6. OneScan' /\ MisreadRaced'
    BY <1>1, <1>2, <1>8, <2>1, <2>2 DEF OneScan, MisreadRaced, Misread
  <2>7. \A r \in Runs : Rivals(r)' \subseteq Rivals(r)
    BY <1>0, <1>2, <2>1 DEF ScanEffect, Rivals
  <2>8. Rivals(prep[h].run) \subseteq prep'[h].unread
    BY <1>3, <2>1 DEF Rivals, Held, LiveClaim, MisreadRaced, TypeOK
  <2>9. \A k \in Harnesses : At(k, "writing") => prep[k].run \in raced'
    BY <2>1 DEF Acquiring, At
  <2>10. ScanCovers'
    <3> SUFFICES ASSUME NEW k \in Harnesses, prep'[k].run \notin raced'
                 PROVE  /\ At(k, "reading")' /\ ~prep'[k].clash =>
                             Rivals(prep[k].run)' \subseteq prep'[k].unread
                        /\ ~At(k, "writing")'
      BY <1>1, <2>9 DEF ScanCovers
    <3>1. k # h => ~At(k, "reading")'
      BY <1>0, <1>1, <2>1 DEF ScanEffect, Acquiring, At
    <3>2. ~At(k, "writing")'
      BY <1>1, <2>9
    <3>3. At(k, "reading")' => prep[k].run \in Runs
      BY <1>0, <3>1 DEF ScanEffect, At, TypeOK, Preparations, Attached
    <3> QED  BY <1>1, <2>7, <2>8, <3>1, <3>2, <3>3
  <2>11. Exclusive'
    BY <1>0, <1>2, <2>1 DEF ScanEffect, Exclusive
  <2> QED  BY <2>3, <2>4, <2>5, <2>6, <2>10, <2>11
<1>6. ASSUME NEW q \in Runs, ReadLock(h, q)
      PROVE  Kept' /\ Safe'
  <2>1. /\ files' = files /\ raced' = raced /\ q \in prep[h].unread
        /\ \A r \in Runs : Misread(r)' <=> Misread(r) \/ (r = q /\ files[q] = "torn")
    BY <1>6 DEF ReadLock, Drop, Misread, TypeOK
  <2>2. /\ prep[h].pc = "reading" /\ prep'[h].unread = prep[h].unread \ {q}
        /\ prep'[h].broken = IF Active(q) THEN "none" ELSE q
        /\ prep'[h].clash = (prep[h].clash \/ (Active(q) /\ Conflicts(q, prep[h].run)))
    BY <1>6, ReadFrame
  <2>3. Acquiring' = Acquiring /\ h \in Acquiring
    BY <1>0, <2>2 DEF ScanEffect, Acquiring
  <2>4. Held' /\ WritingTorn'
    BY <1>0, <1>2, <1>3, <2>1 DEF ScanEffect, Held, LiveClaim, WritingTorn
  <2>5. Unseen'
    BY <1>0, <1>4, <2>1, <2>2 DEF ScanEffect, Unseen, Early, Unwritten
  <2>6. Doomed'
    <3>1. ~Active(q) /\ q \in Claimants => client[q] \notin up \/ Misread(q)
      BY DEF Held, LiveClaim, Active
    <3>2. Writing(q) => Misread(q)'
      BY <2>1 DEF WritingTorn
    <3> QED  BY <1>0, <1>2, <2>1, <2>2, <3>1, <3>2 DEF ScanEffect, Doomed
  <2>7. OneScan'
    BY <1>1, <1>8, <2>1, <2>3 DEF OneScan
  <2>8. MisreadRaced'
    <3>1. files[q] = "torn" /\ Writing(q) => q \in raced
      BY <2>2, <2>3 DEF Writing, OneScan, Acquiring, At
    <3>2. files[q] = "torn" => q \notin Claimants
      BY DEF Held
    <3> QED  BY <1>2, <2>1, <3>1, <3>2 DEF MisreadRaced
  <2>9. \A r \in Runs : Rivals(r)' = Rivals(r)
    BY <1>0, <1>2, <2>1 DEF ScanEffect, Rivals
  <2>10. ~prep'[h].clash /\ ~prep[h].clash /\ Rivals(prep[h].run) \subseteq prep[h].unread =>
           Rivals(prep[h].run) \subseteq prep'[h].unread
    BY <1>3, <2>2 DEF Rivals, Held, LiveClaim, MisreadRaced, Active, Conflicts
  <2>11. prep[h].run \in Runs
    BY <2>2 DEF At, TypeOK, Preparations, Attached
  <2>12. \A k \in Harnesses : At(k, "writing") => prep[k].run \in Runs
    BY DEF At, TypeOK, Preparations, Attached
  <2>13. \A k \in Harnesses : At(k, "reading") => prep[k].run \in Runs
    BY DEF At, TypeOK, Preparations, Attached
  <2>14. ScanCovers'
    <3>1. ASSUME NEW k \in Harnesses, prep[k].run \notin raced, At(k, "reading")', ~prep'[k].clash
          PROVE  Rivals(prep[k].run) \subseteq prep'[k].unread
      <4>1. CASE k = h
        <5>1. ~prep[h].clash
          BY <2>2, <3>1, <4>1
        <5>2. Rivals(prep[h].run) \subseteq prep[h].unread
          BY <2>2, <3>1, <4>1, <5>1 DEF ScanCovers, At
        <5> QED  BY <2>10, <3>1, <4>1, <5>1, <5>2
      <4>2. CASE k # h
        BY <1>0, <3>1, <4>2 DEF ScanEffect, ScanCovers, At
      <4> QED  BY <4>1, <4>2
    <3>2. \A k \in Harnesses : prep[k].run \notin raced /\ At(k, "writing") => Rivals(prep[k].run) = {}
      BY DEF ScanCovers
    <3>3. \A k \in Harnesses : (At(k, "reading") \/ At(k, "writing"))' =>
                                 Rivals(prep[k].run)' = Rivals(prep[k].run)
      <4>1. \A k \in Harnesses : At(k, "reading")' => At(k, "reading")
        BY <1>0, <2>2 DEF ScanEffect, At
      <4> QED  BY <1>1, <2>9, <2>12, <2>13, <4>1
    <3> QED  BY <1>1, <2>1, <3>1, <3>2, <3>3 DEF ScanCovers
  <2>15. Exclusive'
    BY <1>0, <1>2, <2>1 DEF ScanEffect, Exclusive
  <2> QED  BY <2>4, <2>5, <2>6, <2>7, <2>8, <2>14, <2>15
<1>7. ASSUME UnlinkLock(h)
      PROVE  Kept' /\ Safe'
  <2> DEFINE b == prep[h].broken
  <2>1. /\ raced' = raced /\ dropped' = dropped /\ b \in Runs
        /\ files'[b] = "absent" /\ \A r \in Runs : r # b => files'[r] = files[r]
    BY <1>7 DEF UnlinkLock, Released, TypeOK, Preparations
  <2>2. /\ prep[h].pc = "reading" /\ prep'[h].unread = prep[h].unread
        /\ prep'[h].broken = "none" /\ prep'[h].clash = prep[h].clash
    BY <1>7, UnlinkFrame
  <2>3. Acquiring' = Acquiring
    BY <1>0, <2>2 DEF ScanEffect, Acquiring
  <2>4. Held' /\ WritingTorn'
    <3>1. b \in Claimants => client[b] \notin up \/ Misread(b)
      BY <2>1 DEF Doomed
    <3>2. Writing(b) => Misread(b)
      BY <2>1 DEF Doomed
    <3> QED  BY <1>0, <1>2, <1>3, <2>1, <3>1, <3>2
                DEF ScanEffect, Held, LiveClaim, WritingTorn, Misread
  <2>5. Unseen'
    BY <1>0, <1>4, <2>1, <2>2 DEF ScanEffect, Unseen, Misread
  <2>6. Doomed'
    BY <1>0, <1>2, <2>1, <2>2 DEF ScanEffect, Doomed, Misread
  <2>7. OneScan' /\ MisreadRaced'
    BY <1>1, <1>2, <1>8, <2>1, <2>3 DEF OneScan, MisreadRaced, Misread
  <2>8. \A k \in Harnesses : Rivals(prep[k].run)' = Rivals(prep[k].run)
    BY <1>0, <1>1, <1>2, <2>1 DEF ScanEffect, Rivals
  <2>9. ScanCovers'
    BY <1>0, <1>1, <2>1, <2>2, <2>8 DEF ScanEffect, ScanCovers, At
  <2>10. Exclusive'
    BY <1>0, <1>2, <2>1 DEF ScanEffect, Exclusive
  <2> QED  BY <2>4, <2>5, <2>6, <2>7, <2>9, <2>10
<1> QED  BY <1>5, <1>6, <1>7

LEMMA WriteStep ==
  ASSUME Base, Base', Kept, Safe, NEW h \in Harnesses, OpenLock(h) \/ FillLock(h)
  PROVE  Kept' /\ Safe'
<1> USE ClaimConstants DEF Base, Kept, Safe
<1> DEFINE r == prep[h].run
<1>0. /\ \A k \in Harnesses : prep'[k].run = prep[k].run /\ prep'[k].clash = prep[k].clash
      /\ \A k \in Harnesses : prep'[k].unread = prep[k].unread /\ prep'[k].broken = prep[k].broken
      /\ \A k \in Harnesses : k # h => prep'[k] = prep[k]
      /\ UNCHANGED <<up, ctx, client, dropped, raced>>
      /\ \A q \in Runs : q # r => files'[q] = files[q]
  <2>1. PICK pc \in {"writing", "claimed"} : prep' = [prep EXCEPT ![h].pc = pc]
    BY DEF OpenLock, FillLock, Goto
  <2> DEFINE p == [prep[h] EXCEPT !.pc = pc]
  <2>2. prep' = [prep EXCEPT ![h] = p]
    BY <2>1
  <2>3. /\ p.run = prep[h].run /\ p.clash = prep[h].clash
        /\ p.unread = prep[h].unread /\ p.broken = prep[h].broken
    BY DEF TypeOK, Preparations
  <2> HIDE DEF p
  <2>4. /\ UNCHANGED <<up, ctx, client, dropped, raced>>
        /\ \A q \in Runs : q # r => files'[q] = files[q]
    BY DEF OpenLock, FillLock, TypeOK
  <2> QED  BY <2>2, <2>3, <2>4 DEF TypeOK
<1>1. r \in Runs /\ client[r] \in Clients
  BY DEF OpenLock, FillLock, At, TypeOK, Preparations, Attached
<1>2. \A q \in Claimants : q \in Runs
  BY DEF Claimants, Claimed, At, TypeOK, Preparations, Attached
<1>3. \A k \in Harnesses : k # h => prep[k].run # r
  BY <1>1 DEF OneHarness
<1>4. Acquiring \subseteq Harnesses /\ \A k \in Harnesses : r \notin ctx[k]
  BY DEF OneHarness, Acquiring
<1>5. ASSUME OpenLock(h)
      PROVE  Kept' /\ Safe'
  <2>1. /\ At(h, "reading") /\ prep[h].unread = {} /\ ~prep[h].clash
        /\ prep'[h].pc = "writing" /\ files'[r] = "torn"
    BY <1>1, <1>5 DEF OpenLock, Scanned, Goto, TypeOK, Preparations
  <2>2. Claimants' = Claimants /\ r \notin Claimants
    BY <1>0, <1>1, <1>3, <1>4, <2>1 DEF Claimants, Claimed, At
  <2>3. \A q \in Runs : Writing(q)' <=> Writing(q) \/ q = r
    BY <1>0, <1>1, <2>1 DEF Writing, At
  <2>4. Early(r) /\ \A q \in Runs : Early(q)' => Early(q)
    BY <1>0, <2>1 DEF Early, At
  <2>5. ~Misread(r) /\ \A k \in Harnesses : prep[k].broken # r
    BY <1>1, <2>4 DEF Unseen
  <2>6. Held' /\ WritingTorn'
    BY <1>0, <1>2, <2>1, <2>2, <2>3 DEF Held, LiveClaim, WritingTorn, Misread
  <2>7. Unseen'
    BY <1>0, <2>4 DEF Unseen, Misread
  <2>8. Doomed'
    BY <1>0, <2>2, <2>3, <2>5 DEF Doomed, Misread
  <2>9. MisreadRaced'
    BY <1>0, <2>2, <2>3, <2>5 DEF MisreadRaced, Misread
  <2>10. Acquiring' = Acquiring
    BY <1>0, <2>1 DEF Acquiring, At
  <2>11. OneScan'
    BY <1>0, <1>4, <2>10 DEF OneScan
  <2>12. \A k \in Harnesses : Rivals(prep[k].run)' = Rivals(prep[k].run)
    BY <1>0, <2>2 DEF Rivals
  <2>13. ScanCovers'
    BY <1>0, <2>1, <2>12 DEF ScanCovers, At
  <2>14. Exclusive'
    BY <1>0, <2>2 DEF Exclusive
  <2> QED  BY <2>6, <2>7, <2>8, <2>9, <2>11, <2>13, <2>14
<1>6. ASSUME FillLock(h)
      PROVE  Kept' /\ Safe'
  <2>1. /\ At(h, "writing") /\ prep'[h].pc = "claimed"
        /\ files[r] = "torn" => files'[r] = client[r]
        /\ files[r] # "torn" => files'[r] = files[r]
    BY <1>1, <1>6 DEF FillLock, LockContent, Goto, TypeOK, Preparations
  <2>2. Claimants' = Claimants \cup {r}
    BY <1>0, <2>1 DEF Claimants, Claimed, At
  <2>3. /\ Writing(r) /\ ~Writing(r)'
        /\ \A q \in Runs : q # r => (Writing(q)' <=> Writing(q))
    BY <1>0, <1>3, <2>1 DEF Writing, At
  <2>4. \A q \in Runs : Early(q)' => Early(q)
    BY <1>0, <2>1 DEF Early
  <2>5. files[r] = "torn" \/ Misread(r)
    BY <1>1, <2>3 DEF WritingTorn
  <2>6. Held'
    <3>1. files'[r] # "torn" /\ LiveClaim(r)'
      BY <1>0, <1>1, <2>1, <2>5 DEF LiveClaim, Misread
    <3> QED  BY <1>0, <1>2, <2>2, <3>1 DEF Held, LiveClaim, Misread
  <2>7. WritingTorn'
    BY <1>0, <2>3 DEF WritingTorn, Misread
  <2>8. Unseen'
    BY <1>0, <2>4 DEF Unseen, Misread
  <2>9. Doomed'
    BY <1>0, <2>2, <2>3 DEF Doomed, Misread
  <2>10. MisreadRaced'
    BY <1>0, <2>2, <2>3 DEF MisreadRaced, Misread
  <2>11. h \in Acquiring /\ Acquiring' \subseteq Acquiring \ {h}
    BY <1>0, <2>1 DEF Acquiring, At
  <2>12. OneScan'
    BY <1>0, <1>4, <2>11 DEF OneScan
  <2>13. \A k \in Acquiring : k # h => prep[k].run \in raced
    BY <2>11 DEF OneScan
  <2>14. ScanCovers'
    BY <1>0, <2>1, <2>11, <2>13 DEF ScanCovers, Acquiring, At
  <2>15. r \notin raced => Rivals(r) = {}
    BY <2>1 DEF ScanCovers
  <2>16. Exclusive'
    BY <1>0, <1>1, <2>2, <2>15 DEF Exclusive, Rivals
  <2> QED  BY <2>6, <2>7, <2>8, <2>9, <2>10, <2>12, <2>14, <2>16
<1> QED  BY <1>5, <1>6

LEMMA SafeStep ==
  ASSUME Base, Base', Kept, Safe, [Next]_vars
  PROVE  Kept' /\ Safe'
<1>1. CASE \A h \in Harnesses : ~Acquire(h)
  BY <1>1, OtherSteps, QuietKeeps
<1>2. ASSUME NEW h \in Harnesses, Acquire(h)
      PROVE  Kept' /\ Safe'
  <2>1. CASE ListLocks(h) \/ UnlinkLock(h) \/ \E q \in Runs : ReadLock(h, q)
    BY <2>1, ScanStep
  <2>2. CASE OpenLock(h) \/ FillLock(h)
    BY <2>2, WriteStep
  <2>3. CASE Refuse(h)
    <3>1. /\ prep' = [prep EXCEPT ![h] = Idle]
          /\ UNCHANGED <<up, files, client, ctx, dropped, raced>>
      BY <2>3 DEF Refuse, Leave
    <3>2. Quiet
      BY <3>1, LeavesQuietly DEF Misread
    <3> QED  BY <3>2, QuietKeeps
  <2> QED  BY <1>2, <2>1, <2>2, <2>3 DEF Acquire
<1> QED  BY <1>1, <1>2

-----------------------------------------------------------------------------
(* A claim on a live client is always some run's that is being prepared or *)
(* registered, unless a crash or a preparation that raised dropped it,     *)
(* however many processes scan the directory at once.                      *)
THEOREM ClaimsAccountedFor == Spec => []NoOrphanClaim
<1>1. Init => Base
  BY BaseInit
<1>2. Base /\ [Next]_vars => Base'
  BY BaseStep
<1>3. Base => NoOrphanClaim
  BY DEF Base
<1> QED  BY <1>1, <1>2, <1>3, PTL DEF Spec

LEMMA ClaimsSafe == Spec => [](Base /\ Kept /\ Safe)
<1>1. Init => Base /\ Kept /\ Safe
  BY BaseInit, SafeInit
<1>2. Base /\ Kept /\ Safe /\ [Next]_vars => (Base /\ Kept /\ Safe)'
  BY BaseStep, SafeStep
<1> QED  BY <1>1, <1>2, PTL DEF Spec

LEMMA PlayingClaims == \A r \in Playing : r \in Claimants
  BY DEF Playing, Claimants, Claimed

(* At most one run is active on a live client, across all harnesses: two   *)
(* are only if the acquire of one of them ran beside another one.          *)
THEOREM OneRun == Spec => []OneRunPerClient
<1>1. Safe => OneRunPerClient
  BY PlayingClaims DEF Safe, Exclusive, OneRunPerClient
<1> QED  BY <1>1, ClaimsSafe, PTL

(* A run that plays keeps its claim while its client lives, however the    *)
(* scans of other processes interleave with it: only one that read the     *)
(* file before it was filled takes it away.                                *)
THEOREM ClaimKept == Spec => []ClaimHeld
<1>1. Kept => ClaimHeld
  BY PlayingClaims DEF Kept, Held, LiveClaim, Misread, ClaimHeld
<1> QED  BY <1>1, ClaimsSafe, PTL

(* The types of every reachable state, however the scans overlap.          *)
THEOREM ClaimsTyped == Spec => []TypeOK
<1>1. Init => Base
  BY BaseInit
<1>2. Base /\ [Next]_vars => Base'
  BY BaseStep
<1>3. Base => TypeOK
  BY DEF Base
<1> QED  BY <1>1, <1>2, <1>3, PTL DEF Spec
=============================================================================
