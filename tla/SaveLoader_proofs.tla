------------------------- MODULE SaveLoader_proofs -------------------------
(***************************************************************************)
(* Proofs about SaveLoader and the client under it, for any tasks, tables, *)
(* and bounds: a caller is told its own, a command runs where it is aimed, *)
(* and a load that returns stands at the turn of its save.  SlInv is the   *)
(* inductive invariant; a part of it is one lemma, with a step per action. *)
(***************************************************************************)
EXTENDS SaveLoader, FiniteSetTheorems, WellFoundedInduction, TLAPS

(* What the state is made of.                                              *)
Tables == {StateTable[p] : p \in Listening}
Names == {"none"} \cup UNION {DOMAIN tb : tb \in Tables}
Indices == {0} \cup UNION {{tb[s] : s \in DOMAIN tb} : tb \in Tables}
Handshakes == {"APP", "LSQ"}
Bodies == Handshakes \cup {"none", "act", "probe", "exit", "load", "verify"}
CallStates == {"idle", "lock", "output", "query", "dial", "greet", "shake"}
Calls == [at : CallStates, nonce : Nat, aim : Names, body : Bodies, index : Indices,
          tries : 0..(ReconnectMax - 1)]
Requests == [body : Bodies, nonce : Nat, aim : Names, index : Indices, here : BOOLEAN]
Outcomes == [ok : BOOLEAN, turn : Nat]
Lines == [part : {"begin", "end", "log"}, nonce : Nat]
           \cup [part : {"json"}, nonce : Nat, value : Outcomes]
Outputs == [tag : {"out"}, lines : Seq(Lines)]
Answers == [tag : {"hand"}, table : Tables \cup {NoTable}]
Frames == Outputs \cup Answers
Results == [kind : {"nothing", "invalid", "table", "timeout", "closed", "refused",
                    "unresolved"}]
             \cup [kind : {"value"}, nonce : Nat, value : Outcomes]

Plain ==
  /\ phase \in Phases /\ board \in Nat /\ faults \in 0..MaxFaults
  /\ live \in BOOLEAN /\ writer \in BOOLEAN /\ need \in BOOLEAN /\ overdue \in BOOLEAN
  /\ onDisk \in BOOLEAN /\ strayed \in BOOLEAN
  /\ table \in Tables \cup {NoTable} /\ nonce \in 0..MaxCommands /\ ld \in LdStates
OnLock == lock \in Tasks \cup {"free"} /\ waiters \in Seq(Tasks)
OnCall ==
  /\ call \in [Tasks -> Calls] /\ got \in [Tasks -> Results]
  /\ \A t \in Tasks : call[t].nonce <= nonce
OnLink ==
  /\ requests \in Seq(Requests) /\ wire \in Seq(Frames) /\ buffer \in Seq(Lines)
  /\ \A i \in DOMAIN requests : requests[i].nonce <= nonce
Shape == Plain /\ OnLock /\ OnCall /\ OnLink

(* The lock is held by the task that reads an answer; a task is queued     *)
(* once, and only while it waits; a call under way has no result yet.      *)
Locked ==
  /\ \A t \in Tasks : lock = t <=> call[t].at \in {"output", "query"}
  /\ \A i \in DOMAIN waiters : call[waiters[i]].at = "lock"
  /\ \A i, j \in DOMAIN waiters : waiters[i] = waiters[j] => i = j
  /\ \A t \in Tasks : call[t].at # "idle" => got[t] = Nothing
  /\ ld # "off" => \A t \in Tasks \ {"turn"} : call[t].at = "idle"

(* The link: a call on it needs one, a table is never kept beyond it.      *)
Linked ==
  /\ \A t \in Tasks :
       /\ call[t].at \in {"lock", "output", "query", "greet", "shake"} => writer
       /\ call[t].at \in {"dial", "greet", "shake"} => table = NoTable
  /\ table # NoTable => writer

Open == live => phase \in Listening

Turn == call["turn"]
Heard(w) == {k \in DOMAIN w : w[k].tag = "hand"}
Sent(rs, bodies) == \A i \in DOMAIN rs : rs[i].body \in bodies \cup Handshakes
Quiet(rs, w) == Heard(w) = {} /\ \A i \in DOMAIN rs : rs[i].body \notin Handshakes

(* A handshake is the last thing sent, and when its answer is on the wire  *)
(* everything sent has been served.                                        *)
Single(rs, w) ==
  /\ \A i \in DOMAIN rs : rs[i].body \in Handshakes => i = Len(rs)
  /\ Heard(w) # {} => rs = <<>> /\ \A k, l \in Heard(w) : k = l
Asked(rs, w, body, answers) ==
  /\ \A i \in DOMAIN rs : rs[i].body \in Handshakes => rs[i].body = body
  /\ \A k \in Heard(w) : w[k].table \in answers
Stale == got["turn"].kind \notin {"table", "value"} /\ (need \/ got["turn"] # Nothing)
Asking ==
  /\ Single(requests, wire)
  /\ Turn.at \in {"lock", "output", "dial"} => Quiet(requests, wire)
  /\ Turn.at = "dial" => Turn.body = "APP"
  /\ Turn.at = "idle" => Quiet(requests, wire) \/ ld = "failed" \/ (ld \in Waits /\ Stale)
  /\ Turn.at = "greet" => Asked(requests, wire, "APP", {NoTable})
  /\ Turn.at \in {"query", "shake"} => Asked(requests, wire, "LSQ", Tables)
  /\ Turn.at = "idle" /\ got["turn"].kind = "table" => requests = <<>> /\ table \in Tables

(* What is on its way to the game lands in the state it names: commands of *)
(* the game in the game, LoadGame in the menu, and what moves the game on  *)
(* is the only command there.                                              *)
AimedAt(r, p) == r.aim \in DOMAIN StateTable[p] /\ r.index = StateTable[p][r.aim]
InGameBodies == {"act", "probe", "exit", "verify"}
Aimed(rs, p) ==
  \A i \in DOMAIN rs :
    /\ rs[i].body # "none"
    /\ rs[i].body \in InGameBodies => p = "game" /\ AimedAt(rs[i], "game")
    /\ rs[i].body = "load" => p = "menu" /\ AimedAt(rs[i], "menu")
    /\ rs[i].body \in {"exit", "load"} =>
         \A j \in DOMAIN rs \ {i} : rs[j].body \in Handshakes

(* How far the loader has come: what it may have sent, where the game can  *)
(* be, and what the tables it may have read say of that.                   *)
Seen(tb, w) == {tb} \cup {w[k].table : k \in Heard(w)}
Calling(c, p, bodies) == c.at \in {"lock", "output"} => c.body \in bodies /\ AimedAt(c, p)
Ready == Turn.at = "lock" \/ (Turn.at = "idle" /\ got["turn"] = Nothing)
OffStage ==
  /\ phase \in {"game", "dead"} /\ Sent(requests, {"act", "probe"})
  /\ table = StateTable["game"]
  /\ \A t \in Tasks : /\ Calling(call[t], "game", {"act", "probe"})
                      /\ call[t].at \in {"idle", "lock", "output"} /\ got[t].kind # "table"
PhaseStage ==
  /\ phase \in {"game", "dead"} /\ Sent(requests, {"act", "probe"})
  /\ Seen(table, wire) \subseteq {NoTable, StateTable["game"]}
ExitStage ==
  /\ phase \in {"game", "leaving", "menu", "dead"} /\ Sent(requests, {"exit"})
  /\ table = StateTable["game"] /\ Calling(Turn, "game", {"exit"})
  /\ Ready => requests = <<>> /\ phase \in {"game", "dead"}
FrontStage ==
  /\ phase \in {"game", "leaving", "menu", "dead"} /\ Sent(requests, {"exit"})
  /\ \A tb \in Seen(table, wire) \ {NoTable} :
        "InGame" \notin DOMAIN tb => phase \in {"menu", "dead"}
LoadStage ==
  /\ phase \in {"menu", "loading", "game", "dead"} /\ Sent(requests, {"load"})
  /\ table = StateTable["menu"] /\ Calling(Turn, "menu", {"load"})
  /\ Ready => requests = <<>> /\ phase \in {"menu", "dead"}
AwaitStage ==
  /\ phase \in {"menu", "loading", "game", "dead"} /\ Sent(requests, {"load"})
  /\ Seen(table, wire) \subseteq {NoTable, StateTable["menu"], StateTable["game"]}
  /\ StateTable["game"] \in Seen(table, wire) => phase \in {"game", "dead"}
VerifyStage ==
  /\ phase \in {"game", "dead"} /\ Sent(requests, {"verify"})
  /\ Seen(table, wire) \subseteq {NoTable, StateTable["game"]}
Stage ==
  /\ ld = "off" => OffStage
  /\ ld = "missing" => phase \in {"game", "dead"} /\ Sent(requests, {"act", "probe"})
  /\ ld = "phase" => PhaseStage
  /\ ld = "exit" => ExitStage
  /\ ld = "front" => FrontStage
  /\ ld = "load" => LoadStage
  /\ ld = "await" => AwaitStage
  /\ ld \in {"verify", "loaded"} => VerifyStage
  /\ ld \in {"phase", "front", "await"} =>
       Turn.at # "output" /\ (Turn.at = "lock" => Turn.body = "LSQ")
  /\ ld \in {"exit", "load"} =>
       Turn.at \in {"idle", "lock", "output"} /\ got["turn"].kind # "table"
  /\ ld = "verify" => Turn.at # "query" /\ Calling(Turn, "game", {"verify"})
  /\ ld \in Ends => Turn.at = "idle"

(* What the output says: an END follows the JSON line of its own nonce, no *)
(* line is of a command yet to come, and while the position is read the    *)
(* lines of that read, and its result, give the turn of the game.          *)
Sealed(s) ==
  \A k \in DOMAIN s : s[k].part = "end" =>
     k > 1 /\ s[k - 1].part = "json" /\ s[k - 1].nonce = s[k].nonce
Spoken(s) == {s[k] : k \in {j \in DOMAIN s : s[j].part = "json"}}
Out(b, w) == Spoken(b) \cup UNION {Spoken(w[k].lines) : k \in DOMAIN w \ Heard(w)}
AllSealed(b, w) == Sealed(b) /\ \A k \in DOMAIN w \ Heard(w) : Sealed(w[k].lines)
Told ==
  /\ AllSealed(buffer, wire)
  /\ \A l \in Out(buffer, wire) : l.nonce <= nonce
  /\ OwnResult
  /\ ld = "verify" /\ Turn.at \in {"lock", "output"} =>
       \A l \in Out(buffer, wire) : l.nonce = Turn.nonce => l.value.turn = board
  /\ ld = "verify" /\ got["turn"].kind = "value" => got["turn"].value.turn = board
  /\ ld = "loaded" => board = Save

(* The inductive invariant. *)
SlInv ==
  /\ Shape /\ Locked /\ Linked /\ Open /\ Asking
  /\ Aimed(requests, phase) /\ Stage /\ Told
  /\ ~strayed

(* What a sequence is without its first element.                           *)
LEMMA Shorter ==
  ASSUME NEW S, NEW s \in Seq(S), s # <<>>
  PROVE  /\ Tail(s) \in Seq(S) /\ Head(s) = s[1] /\ 1 \in DOMAIN s /\ s[1] \in S
         /\ Len(s) \in Nat \ {0} /\ DOMAIN s = 1 .. Len(s)
         /\ Len(Tail(s)) = Len(s) - 1 /\ DOMAIN Tail(s) = 1 .. Len(s) - 1
         /\ \A i \in 1 .. Len(s) - 1 : i + 1 \in DOMAIN s /\ Tail(s)[i] = s[i + 1]
OBVIOUS

(* What a sequence is with another behind it.                              *)
LEMMA Longer ==
  ASSUME NEW S, NEW s \in Seq(S), NEW t \in Seq(S)
  PROVE  /\ s \o t \in Seq(S) /\ Len(s \o t) = Len(s) + Len(t)
         /\ Len(s) \in Nat /\ Len(t) \in Nat
         /\ DOMAIN s = 1 .. Len(s) /\ DOMAIN t = 1 .. Len(t)
         /\ DOMAIN (s \o t) = 1 .. Len(s) + Len(t)
         /\ \A i \in DOMAIN s : (s \o t)[i] = s[i]
         /\ \A i \in DOMAIN t : (s \o t)[Len(s) + i] = t[i]
         /\ \A i \in DOMAIN (s \o t) \ DOMAIN s :
               i - Len(s) \in DOMAIN t /\ (s \o t)[i] = t[i - Len(s)]
OBVIOUS

(* What a sequence is with one element more.                               *)
LEMMA OneMore ==
  ASSUME NEW S, NEW s \in Seq(S), NEW e \in S
  PROVE  /\ Append(s, e) \in Seq(S) /\ Len(Append(s, e)) = Len(s) + 1 /\ Len(s) \in Nat
         /\ DOMAIN s = 1 .. Len(s) /\ DOMAIN Append(s, e) = 1 .. Len(s) + 1
         /\ \A i \in DOMAIN s : Append(s, e)[i] = s[i]
         /\ Append(s, e)[Len(s) + 1] = e
OBVIOUS

(* What a stretch of a sequence is.                                        *)
LEMMA Stretch ==
  ASSUME NEW S, NEW s \in Seq(S), NEW a \in Nat \ {0}, NEW b \in Nat, a <= b + 1,
         b <= Len(s)
  PROVE  /\ SubSeq(s, a, b) \in Seq(S) /\ Len(SubSeq(s, a, b)) = b + 1 - a
         /\ DOMAIN SubSeq(s, a, b) = 1 .. b + 1 - a
         /\ \A i \in 1 .. b + 1 - a : SubSeq(s, a, b)[i] = s[a + i - 1]
OBVIOUS

-----------------------------------------------------------------------------
(* Requests *)

(* r2 is a stretch of r1, up to which link its requests were sent on.      *)
Fewer(r2, r1) ==
  \E d \in Nat : \A i \in DOMAIN r2 :
     /\ i + d \in DOMAIN r1
     /\ r2[i].body = r1[i + d].body /\ r2[i].nonce = r1[i + d].nonce
     /\ r2[i].aim = r1[i + d].aim /\ r2[i].index = r1[i + d].index

(* A stretch of what was aimed, sent, and bounded by a nonce is no worse.  *)
LEMMA FewerAimed ==
  ASSUME NEW r1 \in Seq(Requests), NEW r2 \in Seq(Requests), Fewer(r2, r1), NEW p,
         Aimed(r1, p)
  PROVE  Aimed(r2, p)
<1>1. PICK d \in Nat : \A i \in DOMAIN r2 :
     /\ i + d \in DOMAIN r1
     /\ r2[i].body = r1[i + d].body /\ r2[i].nonce = r1[i + d].nonce
     /\ r2[i].aim = r1[i + d].aim /\ r2[i].index = r1[i + d].index
  BY DEF Fewer
<1>2. DOMAIN r2 \subseteq Nat
  OBVIOUS
<1>3. ASSUME NEW i \in DOMAIN r2, NEW j \in DOMAIN r2 \ {i}
      PROVE  j + d \in DOMAIN r1 \ {i + d}
  BY <1>1, <1>2
<1>4. \A i \in DOMAIN r2 : \A q : AimedAt(r1[i + d], q) => AimedAt(r2[i], q)
  BY <1>1 DEF AimedAt
<1>5. SUFFICES ASSUME NEW i \in DOMAIN r2
               PROVE  /\ r2[i].body # "none"
                      /\ r2[i].body \in InGameBodies => p = "game" /\ AimedAt(r2[i], "game")
                      /\ r2[i].body = "load" => p = "menu" /\ AimedAt(r2[i], "menu")
                      /\ r2[i].body \in {"exit", "load"} =>
                           \A j \in DOMAIN r2 \ {i} : r2[j].body \in Handshakes
  BY DEF Aimed
<1>6. i + d \in DOMAIN r1 /\ r2[i].body = r1[i + d].body
  BY <1>1
<1>7. /\ r1[i + d].body # "none"
      /\ r1[i + d].body \in InGameBodies => p = "game" /\ AimedAt(r1[i + d], "game")
      /\ r1[i + d].body = "load" => p = "menu" /\ AimedAt(r1[i + d], "menu")
      /\ r1[i + d].body \in {"exit", "load"} =>
           \A j \in DOMAIN r1 \ {i + d} : r1[j].body \in Handshakes
  BY <1>6, Zenon DEF Aimed
<1>8. r2[i].body \in {"exit", "load"} =>
           \A j \in DOMAIN r2 \ {i} : r2[j].body \in Handshakes
  <2>1. SUFFICES ASSUME r2[i].body \in {"exit", "load"}, NEW j \in DOMAIN r2 \ {i}
                 PROVE  r2[j].body \in Handshakes
    OBVIOUS
  <2>2. j + d \in DOMAIN r1 \ {i + d}
    BY <1>3
  <2>3. r2[j].body = r1[j + d].body
    BY <1>1
  <2> QED  BY <2>1, <2>2, <2>3, <1>6, <1>7
<1> QED  BY <1>4, <1>6, <1>7, <1>8, Zenon

(* A stretch of what may be sent may be sent. *)
LEMMA FewerSent ==
  ASSUME NEW r1, NEW r2, Fewer(r2, r1), NEW B, Sent(r1, B)
  PROVE  Sent(r2, B)
BY DEF Fewer, Sent

(* A stretch names no later command. *)
LEMMA FewerNonces ==
  ASSUME NEW r1, NEW r2, Fewer(r2, r1), NEW n, \A i \in DOMAIN r1 : r1[i].nonce <= n
  PROVE  \A i \in DOMAIN r2 : r2[i].nonce <= n
BY DEF Fewer

(* What is left when the first is served is a stretch. *)
LEMMA FewerTail ==
  ASSUME NEW rs \in Seq(Requests), rs # <<>>
  PROVE  Tail(rs) \in Seq(Requests) /\ Fewer(Tail(rs), rs)
<1>1. \A i \in DOMAIN Tail(rs) : i + 1 \in DOMAIN rs /\ Tail(rs)[i] = rs[i + 1]
  BY Shorter
<1> QED  BY <1>1, Shorter DEF Fewer

(* Nothing is a stretch of anything. *)
LEMMA FewerNone ==
  ASSUME NEW rs
  PROVE  <<>> \in Seq(Requests) /\ Fewer(<<>>, rs)
BY DEF Fewer

(* All of it is a stretch of it. *)
LEMMA FewerSame ==
  ASSUME NEW rs \in Seq(Requests)
  PROVE  Fewer(rs, rs)
<1>1. \A i \in DOMAIN rs : i + 0 = i
  OBVIOUS
<1> QED  BY <1>1 DEF Fewer

(* A lost link leaves nothing of a handshake.                              *)
LEMMA UnlinkFewer ==
  ASSUME requests \in Seq(Requests), Single(requests, wire), Unlink
  PROVE  /\ requests' \in Seq(Requests) /\ Fewer(requests', requests)
         /\ \A i \in DOMAIN requests' : requests'[i].body \notin Handshakes
<1>1. CASE requests' = <<>>
  BY <1>1, FewerNone
<1>2. CASE requests' = [i \in DOMAIN Commands |-> [Commands[i] EXCEPT !.here = FALSE]]
  <2>1. /\ Commands \in Seq(Requests) /\ Len(Commands) <= Len(requests)
        /\ \A i \in DOMAIN Commands : /\ i \in DOMAIN requests /\ Commands[i] = requests[i]
                                      /\ Commands[i].body \notin Handshakes
    <3>1. CASE Shaking
      <4>1. Len(requests) >= 1 /\ Commands = SubSeq(requests, 1, Len(requests) - 1)
        BY <3>1 DEF Shaking, Commands
      <4>2. /\ Commands \in Seq(Requests) /\ Len(Commands) = Len(requests) - 1
            /\ DOMAIN Commands = 1 .. Len(requests) - 1
            /\ \A i \in 1 .. Len(requests) - 1 : Commands[i] = requests[i]
        <5> DEFINE b == Len(requests) - 1
        <5>1. b \in Nat /\ 1 \in Nat \ {0} /\ 1 <= b + 1 /\ b <= Len(requests) /\ b + 1 - 1 = b
              /\ Commands = SubSeq(requests, 1, b)
          BY <4>1
        <5>2. \A i \in 1 .. b : 1 + i - 1 = i
          BY <5>1
        <5> HIDE DEF b
        <5>3. /\ Commands \in Seq(Requests) /\ Len(Commands) = b + 1 - 1
              /\ DOMAIN Commands = 1 .. b + 1 - 1
              /\ \A i \in 1 .. b + 1 - 1 : Commands[i] = requests[1 + i - 1]
          <6>1. /\ SubSeq(requests, 1, b) \in Seq(Requests)
                /\ Len(SubSeq(requests, 1, b)) = b + 1 - 1
                /\ DOMAIN SubSeq(requests, 1, b) = 1 .. b + 1 - 1
                /\ \A i \in 1 .. b + 1 - 1 : SubSeq(requests, 1, b)[i] = requests[1 + i - 1]
            BY <5>1, Stretch
          <6> QED  BY <6>1, <5>1
        <5> QED  BY <5>1, <5>2, <5>3 DEF b
      <4>3. \A i \in DOMAIN Commands : i \in DOMAIN requests /\ i # Len(requests)
        BY <4>1, <4>2
      <4>4. \A i \in DOMAIN Commands : Commands[i] = requests[i]
        BY <4>2
      <4>5. \A i \in DOMAIN Commands : Commands[i].body \notin Handshakes
        BY <4>3, <4>4 DEF Single
      <4>6. Len(Commands) <= Len(requests)
        BY <4>1, <4>2
      <4> QED  BY <4>2, <4>3, <4>4, <4>5, <4>6
    <3>2. CASE ~Shaking
      <4>1. Commands = requests
        BY <3>2 DEF Commands
      <4>2. \A i \in DOMAIN requests : requests[i].body \notin Handshakes
        <5>1. SUFFICES ASSUME NEW i \in DOMAIN requests, requests[i].body \in Handshakes
                       PROVE  FALSE
          OBVIOUS
        <5>2. i = Len(requests) /\ requests # <<>>
          BY <5>1 DEF Single
        <5> QED  BY <5>1, <5>2, <3>2 DEF Shaking, Handshakes
      <4> QED  BY <4>1, <4>2
    <3> QED  BY <3>1, <3>2
  <2>2. \A r \in Requests : /\ [r EXCEPT !.here = FALSE] \in Requests
                            /\ [r EXCEPT !.here = FALSE].body = r.body
                            /\ [r EXCEPT !.here = FALSE].nonce = r.nonce
                            /\ [r EXCEPT !.here = FALSE].aim = r.aim
                            /\ [r EXCEPT !.here = FALSE].index = r.index
    BY DEF Requests
  <2>3. /\ DOMAIN requests' = DOMAIN Commands
        /\ \A i \in DOMAIN Commands : Commands[i] \in Requests
                                      /\ requests'[i] = [Commands[i] EXCEPT !.here = FALSE]
    BY <1>2, <2>1
  <2>4. requests' \in Seq(Requests)
    <3>1. DOMAIN Commands = 1 .. Len(Commands) /\ Len(Commands) \in Nat
      BY <2>1
    <3>2. \A i \in 1 .. Len(Commands) : requests'[i] \in Requests
      BY <3>1, <2>2, <2>3
    <3>3. requests' = [i \in 1 .. Len(Commands) |-> requests'[i]]
      BY <1>2, <3>1, <2>3
    <3>4. [i \in 1 .. Len(Commands) |-> requests'[i]] \in [1 .. Len(Commands) -> Requests]
      BY <3>2
    <3> QED  BY <3>1, <3>3, <3>4
  <2>5. \A i \in DOMAIN requests' :
           /\ i + 0 \in DOMAIN requests
           /\ requests'[i].body = requests[i + 0].body /\ requests'[i].nonce = requests[i + 0].nonce
           /\ requests'[i].aim = requests[i + 0].aim /\ requests'[i].index = requests[i + 0].index
    <3>1. SUFFICES ASSUME NEW i \in DOMAIN Commands
                   PROVE  /\ i + 0 \in DOMAIN requests
                          /\ requests'[i].body = requests[i + 0].body
                          /\ requests'[i].nonce = requests[i + 0].nonce
                          /\ requests'[i].aim = requests[i + 0].aim
                          /\ requests'[i].index = requests[i + 0].index
      BY <2>3
    <3>2. i + 0 = i
      BY <2>1
    <3>3. Commands[i] \in Requests /\ requests'[i] = [Commands[i] EXCEPT !.here = FALSE]
      BY <2>3
    <3>4. /\ requests'[i].body = Commands[i].body /\ requests'[i].nonce = Commands[i].nonce
          /\ requests'[i].aim = Commands[i].aim /\ requests'[i].index = Commands[i].index
      BY <3>3, <2>2
    <3> QED  BY <3>2, <3>4, <2>1
  <2>6. Fewer(requests', requests)
    BY <2>5 DEF Fewer
  <2>7. \A i \in DOMAIN requests' : requests'[i].body = Commands[i].body
    BY <2>2, <2>3
  <2> QED  BY <2>1, <2>3, <2>4, <2>6, <2>7
<1> QED  BY <1>1, <1>2 DEF Unlink

-----------------------------------------------------------------------------
(* The wire *)

(* Reading a frame leaves what was behind it.                              *)
LEMMA FrameRead ==
  ASSUME NEW w \in Seq(Frames), w # <<>>
  PROVE  /\ Tail(w) \in Seq(Frames) /\ Head(w) = w[1] /\ 1 \in DOMAIN w /\ w[1] \in Frames
         /\ \A k \in DOMAIN Tail(w) : k + 1 \in DOMAIN w /\ Tail(w)[k] = w[k + 1] /\ k # 0
         /\ \A k \in Heard(Tail(w)) : k + 1 \in Heard(w) /\ Tail(w)[k] = w[k + 1] /\ k # 0
<1>1. /\ Tail(w) \in Seq(Frames) /\ Head(w) = w[1] /\ 1 \in DOMAIN w /\ w[1] \in Frames
      /\ \A k \in DOMAIN Tail(w) : k + 1 \in DOMAIN w /\ Tail(w)[k] = w[k + 1] /\ k # 0
  BY Shorter
<1> QED  BY <1>1 DEF Heard

(* No table is seen that was not there, nothing is said anew.              *)
LEMMA LessIsSeen ==
  ASSUME NEW w \in Seq(Frames), w # <<>>, NEW tb
  PROVE  Seen(tb, Tail(w)) \subseteq Seen(tb, w)
<1>1. SUFFICES ASSUME NEW k \in Heard(Tail(w)) PROVE Tail(w)[k].table \in Seen(tb, w)
  BY DEF Seen
<1>2. k + 1 \in Heard(w) /\ Tail(w)[k] = w[k + 1]
  BY FrameRead
<1> QED  BY <1>2 DEF Seen

(* A frame read takes its lines off the wire, and no whole line is torn. *)
LEMMA LessIsOut ==
  ASSUME NEW w \in Seq(Frames), w # <<>>, NEW b, AllSealed(b, w)
  PROVE  /\ Out(b, Tail(w)) \subseteq Out(b, w) /\ AllSealed(b, Tail(w))
         /\ Head(w).tag = "out" => /\ Sealed(Head(w).lines)
                                   /\ Spoken(Head(w).lines) \subseteq Out(b, w)
<1>1. \A k \in DOMAIN Tail(w) \ Heard(Tail(w)) :
         k + 1 \in DOMAIN w \ Heard(w) /\ Tail(w)[k] = w[k + 1]
  BY FrameRead DEF Heard
<1>2. AllSealed(b, Tail(w))
  BY <1>1 DEF AllSealed
<1>3. Out(b, Tail(w)) \subseteq Out(b, w)
  <2>1. SUFFICES ASSUME NEW l \in Out(b, Tail(w)), l \notin Spoken(b) PROVE l \in Out(b, w)
    BY DEF Out
  <2>2. PICK k \in DOMAIN Tail(w) \ Heard(Tail(w)) : l \in Spoken(Tail(w)[k].lines)
    BY <2>1 DEF Out
  <2>3. l \in Spoken(w[k + 1].lines) /\ k + 1 \in DOMAIN w \ Heard(w)
    BY <2>2, <1>1
  <2> QED  BY <2>3 DEF Out
<1>4. ASSUME Head(w).tag = "out"
      PROVE  Sealed(Head(w).lines) /\ Spoken(Head(w).lines) \subseteq Out(b, w)
  <2>1. 1 \in DOMAIN w \ Heard(w) /\ Head(w) = w[1]
    BY <1>4, FrameRead DEF Heard
  <2> QED  BY <2>1 DEF AllSealed, Out
<1> QED  BY <1>2, <1>3, <1>4

(* An answer to a handshake behind output.                                 *)
LEMMA AnswerBehind ==
  ASSUME NEW w \in Seq(Frames), NEW h \in Answers, Heard(w) = {}, NEW b, NEW tb
  PROVE  /\ w \o <<h>> \in Seq(Frames) /\ Heard(w \o <<h>>) = {Len(w) + 1}
         /\ (w \o <<h>>)[Len(w) + 1] = h
         /\ Seen(tb, w \o <<h>>) = {tb, h.table}
         /\ AllSealed(b, w) => AllSealed(b, w \o <<h>>)
         /\ Out(b, w \o <<h>>) = Out(b, w)
<1>1. h \in Frames /\ h.tag = "hand" /\ <<h>> \in Seq(Frames)
  BY DEF Answers, Frames
<1>2. /\ w \o <<h>> \in Seq(Frames) /\ Len(w) \in Nat
      /\ DOMAIN w = 1 .. Len(w) /\ DOMAIN (w \o <<h>>) = 1 .. Len(w) + 1
      /\ \A k \in DOMAIN w : (w \o <<h>>)[k] = w[k]
      /\ (w \o <<h>>)[Len(w) + 1] = h
  BY <1>1
<1> DEFINE v == w \o <<h>>
<1>3. DOMAIN v = DOMAIN w \cup {Len(w) + 1} /\ Len(w) + 1 \notin DOMAIN w
  BY <1>2
<1> HIDE DEF v
<1>4. Heard(v) = {Len(w) + 1}
  <2>1. \A k \in DOMAIN w : w[k].tag # "hand"
    BY DEF Heard
  <2> QED  BY <2>1, <1>1, <1>2, <1>3 DEF Heard, v
<1>5. Seen(tb, v) = {tb, h.table}
  BY <1>4, <1>2 DEF Seen, v
<1>6. DOMAIN v \ Heard(v) = DOMAIN w \ Heard(w)
  BY <1>3, <1>4
<1>7. AllSealed(b, w) => AllSealed(b, v)
  BY <1>2, <1>6 DEF AllSealed, v
<1>8. Out(b, v) = Out(b, w)
  <2>1. \A l : l \in Out(b, v) <=> l \in Spoken(b) \/ \E k \in DOMAIN v \ Heard(v) : l \in Spoken(v[k].lines)
    BY DEF Out
  <2>2. \A l : l \in Out(b, w) <=> l \in Spoken(b) \/ \E k \in DOMAIN w \ Heard(w) : l \in Spoken(w[k].lines)
    BY DEF Out
  <2>3. \A k \in DOMAIN w \ Heard(w) : v[k] = w[k]
    BY <1>2 DEF v
  <2> QED  BY <2>1, <2>2, <2>3, <1>6
<1> QED  BY <1>2, <1>4, <1>5, <1>7, <1>8 DEF v

(* Output behind output.                                                   *)
LEMMA OutputBehind ==
  ASSUME NEW w \in Seq(Frames), NEW f \in Seq(Outputs), NEW b, NEW tb
  PROVE  /\ w \o f \in Seq(Frames) /\ Heard(w \o f) = Heard(w)
         /\ Seen(tb, w \o f) = Seen(tb, w)
         /\ AllSealed(b, w) /\ (\A k \in DOMAIN f : Sealed(f[k].lines)) => AllSealed(b, w \o f)
         /\ \A l \in Out(b, w \o f) : l \in Out(b, w) \/ \E k \in DOMAIN f : l \in Spoken(f[k].lines)
<1> DEFINE v == w \o f
<1>1. f \in Seq(Frames) /\ \A k \in DOMAIN f : f[k].tag = "out"
  <2>1. \A o \in Outputs : o \in Frames /\ o.tag = "out"
    BY DEF Frames, Outputs
  <2>2. Outputs \subseteq Frames
    BY <2>1
  <2> QED  BY <2>1, <2>2
<1>2. /\ v \in Seq(Frames)
      /\ \A k \in DOMAIN w : k \in DOMAIN v /\ v[k] = w[k]
      /\ \A k \in DOMAIN v \ DOMAIN w : k - Len(w) \in DOMAIN f /\ v[k] = f[k - Len(w)]
  BY <1>1, Longer
<1> HIDE DEF v
<1>3. Heard(v) = Heard(w)
  BY <1>1, <1>2 DEF Heard
<1>4. \A k \in Heard(w) : v[k] = w[k]
  BY <1>2 DEF Heard
<1>5. Seen(tb, v) = Seen(tb, w)
  <2>1. \A x : x \in Seen(tb, v) <=> x = tb \/ \E k \in Heard(v) : x = v[k].table
    BY DEF Seen
  <2>2. \A x : x \in Seen(tb, w) <=> x = tb \/ \E k \in Heard(w) : x = w[k].table
    BY DEF Seen
  <2>3. \A x : (\E k \in Heard(v) : x = v[k].table) <=> (\E k \in Heard(w) : x = w[k].table)
    BY <1>3, <1>4, Zenon
  <2>4. \A x : x \in Seen(tb, v) <=> x \in Seen(tb, w)
    BY <2>1, <2>2, <2>3, Zenon
  <2> QED  BY <2>4, Zenon
<1>6. ASSUME AllSealed(b, w), \A k \in DOMAIN f : Sealed(f[k].lines) PROVE AllSealed(b, v)
  <2>1. ASSUME NEW k \in DOMAIN v \ Heard(v) PROVE Sealed(v[k].lines)
    <3>1. CASE k \in DOMAIN w
      BY <3>1, <2>1, <1>2, <1>3, <1>6 DEF AllSealed
    <3>2. CASE k \notin DOMAIN w
      BY <3>2, <2>1, <1>2, <1>6
    <3> QED  BY <3>1, <3>2
  <2> QED  BY <2>1, <1>6 DEF AllSealed
<1>7. ASSUME NEW l \in Out(b, v)
      PROVE  l \in Out(b, w) \/ \E k \in DOMAIN f : l \in Spoken(f[k].lines)
  <2>1. CASE l \in Spoken(b)
    BY <2>1 DEF Out
  <2>2. CASE l \notin Spoken(b)
    <3>1. PICK k \in DOMAIN v \ Heard(v) : l \in Spoken(v[k].lines)
      BY <1>7, <2>2 DEF Out
    <3>2. CASE k \in DOMAIN w
      <4>1. k \in DOMAIN w \ Heard(w) /\ l \in Spoken(w[k].lines)
        BY <3>1, <3>2, <1>2, <1>3
      <4> QED  BY <4>1 DEF Out
    <3>3. CASE k \notin DOMAIN w
      BY <3>1, <3>3, <1>2
    <3> QED  BY <3>2, <3>3
  <2> QED  BY <2>1, <2>2
<1> QED  BY <1>2, <1>3, <1>5, <1>6, <1>7 DEF v

(* What a command prints is whole, and gives its own outcome.              *)
LEMMA WholePrint ==
  ASSUME NEW n \in Nat, NEW v \in Outcomes, NEW noisy \in BOOLEAN,
         NEW f \in Arrivals(Printed(n, v, noisy))
  PROVE  /\ f \in Seq(Outputs) /\ \A k \in DOMAIN f : Sealed(f[k].lines)
         /\ \A k \in DOMAIN f : \A l \in Spoken(f[k].lines) : l.nonce = n /\ l.value = v
<1> DEFINE B == [part |-> "begin", nonce |-> n]
           G == [part |-> "log", nonce |-> 0]
           J == [part |-> "json", nonce |-> n, value |-> v]
           E == [part |-> "end", nonce |-> n]
           Good(s) == /\ s \in Seq(Lines) /\ Sealed(s)
                      /\ \A l \in Spoken(s) : l.nonce = n /\ l.value = v
<1>1. /\ B \in Lines /\ B.part = "begin" /\ G \in Lines /\ G.part = "log"
      /\ J \in Lines /\ J.part = "json" /\ J.nonce = n /\ J.value = v
      /\ E \in Lines /\ E.part = "end" /\ E.nonce = n
  BY DEF Lines
<1>2. /\ f = <<[tag |-> "out", lines |-> Printed(n, v, noisy)]>>
      \/ f = <<[tag |-> "out", lines |-> <<Head(Printed(n, v, noisy))>>],
               [tag |-> "out", lines |-> Tail(Printed(n, v, noisy))]>>
  BY DEF Arrivals
<1>4. Printed(n, v, noisy) \in {<<B, G, J, E>>, <<B, J, E>>}
  BY DEF Printed
<1> HIDE DEF B, G, J, E
<1>5. Good(<<B, G, J, E>>) /\ Good(<<B, J, E>>) /\ Good(<<B>>) /\ Good(<<G, J, E>>) /\ Good(<<J, E>>)
  BY <1>1 DEF Sealed, Spoken
<1>6. /\ Good(Printed(n, v, noisy)) /\ Good(<<Head(Printed(n, v, noisy))>>)
      /\ Good(Tail(Printed(n, v, noisy)))
  <2>1. CASE Printed(n, v, noisy) = <<B, G, J, E>>
    <3>1. Head(<<B, G, J, E>>) = B /\ Tail(<<B, G, J, E>>) = <<G, J, E>>
      OBVIOUS
    <3> HIDE DEF Good
    <3> QED  BY <2>1, <3>1, <1>5
  <2>2. CASE Printed(n, v, noisy) = <<B, J, E>>
    <3>1. Head(<<B, J, E>>) = B /\ Tail(<<B, J, E>>) = <<J, E>>
      OBVIOUS
    <3> HIDE DEF Good
    <3> QED  BY <2>2, <3>1, <1>5
  <2> QED  BY <2>1, <2>2, <1>4
<1>7. \A k \in DOMAIN f : f[k].tag = "out" /\ Good(f[k].lines)
  <2>1. CASE f = <<[tag |-> "out", lines |-> Printed(n, v, noisy)]>>
    <3>1. DOMAIN f = {1} /\ f[1].tag = "out" /\ f[1].lines = Printed(n, v, noisy)
      BY <2>1
    <3> HIDE DEF Good
    <3> QED  BY <3>1, <1>6
  <2>2. CASE f = <<[tag |-> "out", lines |-> <<Head(Printed(n, v, noisy))>>],
               [tag |-> "out", lines |-> Tail(Printed(n, v, noisy))]>>
    <3>1. /\ DOMAIN f = {1, 2} /\ f[1].tag = "out" /\ f[2].tag = "out"
          /\ f[1].lines = <<Head(Printed(n, v, noisy))>>
          /\ f[2].lines = Tail(Printed(n, v, noisy))
      BY <2>2
    <3> HIDE DEF Good
    <3> QED  BY <3>1, <1>6
  <2> QED  BY <2>1, <2>2, <1>2
<1>8. f \in Seq(Outputs)
  <2>1. \A s \in Seq(Lines) : [tag |-> "out", lines |-> s] \in Outputs
    BY DEF Outputs
  <2> HIDE DEF Good
  <2>2. /\ Printed(n, v, noisy) \in Seq(Lines) /\ <<Head(Printed(n, v, noisy))>> \in Seq(Lines)
        /\ Tail(Printed(n, v, noisy)) \in Seq(Lines)
    BY <1>6 DEF Good
  <2> DEFINE F(s) == [tag |-> "out", lines |-> s]
  <2>3. /\ F(Printed(n, v, noisy)) \in Outputs /\ F(<<Head(Printed(n, v, noisy))>>) \in Outputs
        /\ F(Tail(Printed(n, v, noisy))) \in Outputs
    BY <2>1, <2>2, Zenon
  <2>4. \A a \in Outputs, b \in Outputs : <<a>> \in Seq(Outputs) /\ <<a, b>> \in Seq(Outputs)
    OBVIOUS
  <2>5. \/ f = <<F(Printed(n, v, noisy))>>
        \/ f = <<F(<<Head(Printed(n, v, noisy))>>), F(Tail(Printed(n, v, noisy)))>>
    BY <1>2, Zenon
  <2> HIDE DEF F
  <2> QED  BY <2>3, <2>4, <2>5
<1> QED  BY <1>7, <1>8

-----------------------------------------------------------------------------
(* The correlator *)

(* Every set of natural numbers with an element has a least one.           *)
LEMMA LeastOf ==
  ASSUME NEW S \in SUBSET Nat, S # {}
  PROVE  Least(S) \in S /\ \A j \in S : Least(S) <= j
<1>1. \E i \in S : \A j \in S : i <= j
  <2>1. PICK i \in S : \A j \in S : <<j, i>> \notin OpToRel(<, Nat)
    BY NatLessThanWellFounded, WFMin
  <2>2. ASSUME NEW j \in S, j < i PROVE FALSE
    <3>1. <<j, i>> \in OpToRel(<, Nat)
      BY <2>2 DEF OpToRel
    <3> QED  BY <2>1, <3>1
  <2> QED  BY <2>2
<1> QED  BY <1>1 DEF Least

(* Output put together is sealed where both parts are.                     *)
LEMMA Fed ==
  ASSUME NEW s \in Seq(Lines), NEW t \in Seq(Lines), Sealed(s), Sealed(t)
  PROVE  /\ s \o t \in Seq(Lines) /\ Sealed(s \o t)
         /\ Spoken(s \o t) \subseteq Spoken(s) \cup Spoken(t)
<1> DEFINE v == s \o t
<1>1. /\ v \in Seq(Lines) /\ Len(s) \in Nat
      /\ DOMAIN s = 1 .. Len(s) /\ DOMAIN t = 1 .. Len(t)
      /\ DOMAIN v = 1 .. Len(s) + Len(t) /\ Len(t) \in Nat
      /\ \A i \in DOMAIN s : v[i] = s[i]
      /\ \A i \in DOMAIN v \ DOMAIN s : i - Len(s) \in DOMAIN t /\ v[i] = t[i - Len(s)]
  BY Longer
<1> HIDE DEF v
<1>2. ASSUME NEW k \in DOMAIN v, v[k].part = "end"
      PROVE  k > 1 /\ v[k - 1].part = "json" /\ v[k - 1].nonce = v[k].nonce
  <2>1. CASE k \in DOMAIN s
    <3>1. s[k].part = "end" /\ v[k] = s[k]
      BY <1>1, <1>2, <2>1
    <3>2. k > 1 /\ s[k - 1].part = "json" /\ s[k - 1].nonce = s[k].nonce
      BY <2>1, <3>1 DEF Sealed
    <3>3. k - 1 \in DOMAIN s
      BY <2>1, <3>2, <1>1
    <3> QED  BY <3>1, <3>2, <3>3, <1>1
  <2>2. CASE k \notin DOMAIN s
    <3> DEFINE j == k - Len(s)
    <3>1. j \in DOMAIN t /\ v[k] = t[j]
      BY <1>1, <2>2
    <3>2. j > 1 /\ t[j - 1].part = "json" /\ t[j - 1].nonce = t[j].nonce
      BY <3>1, <1>2 DEF Sealed
    <3>3. k \in Int /\ k - 1 \in DOMAIN v /\ k - 1 \notin DOMAIN s /\ k - 1 - Len(s) = j - 1 /\ k > 1
      BY <3>1, <3>2, <1>1
    <3>4. v[k - 1] = t[j - 1]
      BY <3>3, <1>1
    <3> QED  BY <3>1, <3>2, <3>3, <3>4
  <2> QED  BY <2>1, <2>2
<1>3. Spoken(v) \subseteq Spoken(s) \cup Spoken(t)
  <2>1. SUFFICES ASSUME NEW k \in DOMAIN v, v[k].part = "json"
                 PROVE  v[k] \in Spoken(s) \cup Spoken(t)
    BY DEF Spoken
  <2>2. CASE k \in DOMAIN s
    BY <2>1, <2>2, <1>1 DEF Spoken
  <2>3. CASE k \notin DOMAIN s
    BY <2>1, <2>3, <1>1 DEF Spoken
  <2> QED  BY <2>2, <2>3
<1> QED  BY <1>1, <1>2, <1>3 DEF v, Sealed

(* What take_result gives, and what it leaves: a value is that of a line   *)
(* of its own nonce, for the one line before an END is sealed by it.       *)
LEMMA ReadOwn ==
  ASSUME NEW b \in Seq(Lines), Sealed(b), NEW n \in Nat, Complete(n, b)
  PROVE  /\ After(n, b) \in Seq(Lines) /\ Sealed(After(n, b))
         /\ Spoken(After(n, b)) \subseteq Spoken(b)
         /\ Parsed(Body(n, b)) \in Results /\ Parsed(Body(n, b)).kind \in {"value", "invalid"}
         /\ Parsed(Body(n, b)).kind = "value" =>
              /\ Parsed(Body(n, b)).nonce = n
              /\ \E l \in Spoken(b) : l.nonce = n /\ l.value = Parsed(Body(n, b)).value
<1> DEFINE P == Position("begin", n, b, 1)
           i == Least(P)
           Q == Position("end", n, b, i)
           e == Least(Q)
<1>1. i \in P
  <2>1. P \in SUBSET Nat /\ P # {}
    BY DEF Position, Complete
  <2> HIDE DEF P
  <2> QED  BY <2>1, LeastOf
<1>2. i \in Nat /\ i >= 1 /\ i <= Len(b) /\ b[i].part = "begin"
  BY <1>1 DEF Position
<1>3. e \in Q
  <2>1. Q # {}
    BY DEF Complete
  <2> HIDE DEF i
  <2>2. Q \in SUBSET Nat
    BY <1>2 DEF Position
  <2> HIDE DEF Q
  <2> QED  BY <2>1, <2>2, LeastOf
<1> HIDE DEF P, i
<1>4. e \in Nat /\ e >= i /\ e <= Len(b) /\ b[e].part = "end" /\ b[e].nonce = n
  BY <1>2, <1>3 DEF Position
<1>5. Body(n, b) = SubSeq(b, i + 1, e - 1) /\ After(n, b) = SubSeq(b, e + 1, Len(b))
  BY DEF Body, After, P, i
<1> HIDE DEF Q, e
<1>6. /\ e \in DOMAIN b /\ e > 1 /\ e > i /\ e - 1 \in DOMAIN b
      /\ b[e - 1].part = "json" /\ b[e - 1].nonce = n
  <2>1. e \in DOMAIN b /\ e # i
    BY <1>2, <1>4
  <2>2. e > 1 /\ b[e - 1].part = "json" /\ b[e - 1].nonce = b[e].nonce
    BY <2>1, <1>4 DEF Sealed
  <2> QED  BY <2>1, <2>2, <1>2, <1>4
<1>7. /\ After(n, b) \in Seq(Lines) /\ DOMAIN After(n, b) = 1 .. Len(b) - e
      /\ \A k \in 1 .. Len(b) - e : k + e \in DOMAIN b /\ After(n, b)[k] = b[k + e]
  <2>1. /\ SubSeq(b, e + 1, Len(b)) \in Seq(Lines)
        /\ DOMAIN SubSeq(b, e + 1, Len(b)) = 1 .. Len(b) + 1 - (e + 1)
        /\ \A k \in 1 .. Len(b) + 1 - (e + 1) : SubSeq(b, e + 1, Len(b))[k] = b[e + 1 + k - 1]
    <3>1. e + 1 \in Nat \ {0} /\ Len(b) \in Nat /\ e + 1 <= Len(b) + 1 /\ Len(b) <= Len(b)
      BY <1>4
    <3> QED  BY <3>1, Stretch
  <2>2. /\ Len(b) + 1 - (e + 1) = Len(b) - e
        /\ \A k \in 1 .. Len(b) - e : e + 1 + k - 1 = k + e /\ k + e \in DOMAIN b
    BY <1>4
  <2> QED  BY <2>1, <2>2, <1>5
<1>8. Sealed(After(n, b))
  <2>1. SUFFICES ASSUME NEW k \in 1 .. Len(b) - e, b[k + e].part = "end"
                 PROVE  /\ k > 1 /\ After(n, b)[k - 1].part = "json"
                        /\ After(n, b)[k - 1].nonce = b[k + e].nonce
    BY <1>7 DEF Sealed
  <2>2. b[k + e - 1].part = "json" /\ b[k + e - 1].nonce = b[k + e].nonce
    <3>1. k + e \in DOMAIN b
      BY <2>1, <1>7, Zenon
    <3> DEFINE m == k + e
    <3>2. m \in DOMAIN b /\ b[m].part = "end" /\ k + e - 1 = m - 1
      BY <2>1, <3>1, <1>4
    <3> HIDE DEF m
    <3>3. b[m - 1].part = "json" /\ b[m - 1].nonce = b[m].nonce
      BY <3>2 DEF Sealed
    <3> QED  BY <3>2, <3>3 DEF m
  <2>3. k # 1
    <3>1. CASE k = 1
      <4>1. k + e - 1 = e
        BY <3>1, <1>4
      <4> QED  BY <4>1, <2>2, <1>4
    <3> QED  BY <3>1
  <2>4. k - 1 \in 1 .. Len(b) - e /\ k - 1 + e = k + e - 1 /\ k > 1
    BY <2>3, <1>4
  <2> QED  BY <2>2, <2>4, <1>7
<1>9. Spoken(After(n, b)) \subseteq Spoken(b)
  BY <1>7 DEF Spoken
<1>10. ASSUME Len(Body(n, b)) = 1, Body(n, b)[1].part = "json"
       PROVE  b[e - 1] = Body(n, b)[1]
  <2>1. /\ Len(Body(n, b)) = e - 1 + 1 - (i + 1)
        /\ \A k \in 1 .. e - 1 + 1 - (i + 1) : Body(n, b)[k] = b[i + 1 + k - 1]
    <3>1. i + 1 \in Nat \ {0} /\ e - 1 \in Nat /\ i + 1 <= e - 1 + 1 /\ e - 1 <= Len(b)
      BY <1>2, <1>4, <1>6
    <3> QED  BY <3>1, <1>5, Stretch
  <2>2. e - 1 + 1 - (i + 1) = 1 /\ i + 1 + 1 - 1 = e - 1 /\ 1 \in 1 .. 1
    <3>1. e - 1 + 1 - (i + 1) = 1
      BY <2>1, <1>10
    <3> QED  BY <3>1, <1>2, <1>4
  <2>3. 1 \in 1 .. e - 1 + 1 - (i + 1)
    BY <2>2
  <2>4. Body(n, b)[1] = b[i + 1 + 1 - 1]
    BY <2>1, <2>3
  <2> QED  BY <2>2, <2>4
<1>11. b[e - 1] \in Spoken(b)
  BY <1>6 DEF Spoken
<1>12. b[e - 1] \in Lines
  BY <1>6
<1>13. CASE Len(Body(n, b)) = 1 /\ Body(n, b)[1].part = "json"
  <2>1. Parsed(Body(n, b)) = [kind |-> "value", nonce |-> n, value |-> b[e - 1].value]
    BY <1>13, <1>10, <1>6 DEF Parsed
  <2>2. b[e - 1].value \in Outcomes
    BY <1>12, <1>6 DEF Lines
  <2> QED  BY <2>1, <2>2, <1>6, <1>7, <1>8, <1>9, <1>11 DEF Results
<1>14. CASE ~(Len(Body(n, b)) = 1 /\ Body(n, b)[1].part = "json")
  <2>1. Parsed(Body(n, b)) = [kind |-> "invalid"]
    BY <1>14 DEF Parsed, Ended
  <2> QED  BY <2>1, <1>7, <1>8, <1>9 DEF Results
<1> QED  BY <1>13, <1>14

-----------------------------------------------------------------------------
(* Types *)

(* The types of what a call leaves. *)
LEMMA CallTypes ==
  /\ Idle \in Calls /\ Nothing \in Results
  /\ \A k \in {"nothing", "invalid", "table", "timeout", "closed", "refused", "unresolved"} :
        Ended(k) \in Results /\ Ended(k).kind = k
  /\ \A c \in Calls : Request(c) \in Requests /\ Request(c).nonce = c.nonce /\ c.nonce \in Nat
  /\ \A tb \in Tables : \A s \in DOMAIN tb : s \in Names /\ tb[s] \in Indices
  /\ StateTable["game"] \in Tables /\ StateTable["menu"] \in Tables
<1>1. ReconnectMax \in Nat \ {0}
  BY NexusAssumption
<1>2. Idle \in Calls
  BY <1>1 DEF Idle, Calls, Names, Indices, Bodies, CallStates
<1>3. \A c \in Calls : Request(c) \in Requests /\ Request(c).nonce = c.nonce /\ c.nonce \in Nat
  BY DEF Calls, Request, Requests
<1>4. \A tb \in Tables : \A s \in DOMAIN tb : s \in Names /\ tb[s] \in Indices
  BY DEF Names, Indices
<1>5. StateTable["game"] \in Tables /\ StateTable["menu"] \in Tables
  BY DEF Tables, Listening
<1> QED  BY <1>2, <1>3, <1>4, <1>5 DEF Nothing, Results, Ended

(* What the assumptions say of the constants. *)
LEMMA Bounds ==
  /\ MaxFaults \in Nat /\ Save \in Nat /\ MaxCommands \in Nat /\ ReconnectMax \in Nat
  /\ "turn" \in Tasks /\ "watch" \in Tasks /\ "free" \notin Tasks
BY NexusAssumption, LoaderAssumption

(* A handshake frame at the head of the wire. *)
LEMMA HeadTable ==
  ASSUME NEW w \in Seq(Frames), w # <<>>, Head(w).tag = "hand"
  PROVE  1 \in Heard(w) /\ Head(w) = w[1] /\ Head(w).table \in Tables \cup {NoTable}
<1>1. 1 \in DOMAIN w /\ Head(w) = w[1] /\ w[1] \in Frames
  BY FrameRead
<1>2. w[1] \in Answers
  BY <1>1 DEF Frames, Outputs
<1> QED  BY <1>1, <1>2 DEF Heard, Answers

(* Scalars keep their types. *)
LEMMA PlainKept ==
  Shape /\ [Next]_vars => Plain'
<1> SUFFICES ASSUME Shape, [Next]_vars PROVE Plain'
  OBVIOUS
<1> USE DEF Shape
<1>1. ASSUME ServeHandshake, UNCHANGED loader PROVE Plain'
  BY Bounds, CallTypes, <1>1 DEF ServeHandshake, Answer, game, session, calls, loader,
     Plain, Phases, Listening, LdStates, Waits, Ends
<1>2. ASSUME ServeCommand, UNCHANGED loader PROVE Plain'
  BY Bounds, CallTypes, <1>2 DEF ServeCommand, Answer, session, calls, loader, Fault,
     Plain, Phases, Listening, LdStates, Waits, Ends
<1>3. ASSUME ReachMenu, UNCHANGED loader PROVE Plain'
  BY Bounds, CallTypes, <1>3 DEF ReachMenu, session, calls, loader, Unlink, Plain,
     Phases, Listening, LdStates, Waits, Ends
<1>4. ASSUME LoadCompletes, UNCHANGED loader PROVE Plain'
  BY Bounds, CallTypes, <1>4 DEF LoadCompletes, link, session, calls, loader, Fault,
     Plain, Phases, Listening, LdStates, Waits, Ends
<1>5. ASSUME DropLink, UNCHANGED loader PROVE Plain'
  <2>1. faults' \in 0..MaxFaults
    BY <1>5, Bounds DEF DropLink, Fault, Plain
  <2> QED  BY <1>5, <2>1 DEF DropLink, session, calls, loader, Fault, Plain, Phases, Unlink
<1>6. ASSUME Crash, UNCHANGED loader PROVE Plain'
  <2>1. faults' \in 0..MaxFaults
    BY <1>6, Bounds DEF Crash, Fault, Plain
  <2> QED  BY <1>6, <2>1 DEF Crash, session, calls, loader, Fault, Plain, Phases
<1>7. ASSUME NEW t \in Tasks, TakeLock(t), UNCHANGED loader PROVE Plain'
  BY Bounds, CallTypes, <1>7 DEF TakeLock, game, session, loader, Plain, Phases,
     Listening, LdStates, Waits, Ends
<1>8. ASSUME NEW t \in Tasks, ReadOutput(t), UNCHANGED loader PROVE Plain'
  BY Bounds, CallTypes, <1>8 DEF ReadOutput, game, calls, loader, NextFrame, Plain,
     Phases, Listening, LdStates, Waits, Ends
<1>9. ASSUME NEW t \in Tasks, SkipFrame(t), UNCHANGED loader PROVE Plain'
  BY Bounds, CallTypes, <1>9 DEF SkipFrame, game, session, calls, loader, NextFrame,
     Plain, Phases, Listening, LdStates, Waits, Ends
<1>10. ASSUME NEW t \in Tasks, ReadTable(t), UNCHANGED loader PROVE Plain'
  <2>1. table' \in Tables \cup {NoTable}
    BY <1>10, HeadTable DEF ReadTable, NextFrame, OnLink
  <2> QED  BY <1>10, <2>1 DEF ReadTable, game, loader, Plain
<1>11. ASSUME NEW t \in Tasks, ReadGreeting(t), UNCHANGED loader PROVE Plain'
  BY Bounds, CallTypes, <1>11 DEF ReadGreeting, game, session, loader, NextFrame,
     Plain, Phases, Listening, LdStates, Waits, Ends
<1>12. ASSUME NEW t \in Tasks, CommandTimesOut(t), UNCHANGED loader PROVE Plain'
  BY Bounds, CallTypes, <1>12 DEF CommandTimesOut, game, link, loader, Plain, Phases,
     Listening, LdStates, Waits, Ends
<1>13. ASSUME NEW t \in Tasks, HandshakeTimesOut(t), UNCHANGED loader PROVE Plain'
  BY Bounds, CallTypes, <1>13 DEF HandshakeTimesOut, game, loader, Close, Unlink,
     Plain, Phases, Listening, LdStates, Waits, Ends
<1>14. ASSUME NEW t \in Tasks, CommandFindsClosed(t), UNCHANGED loader PROVE Plain'
  BY Bounds, CallTypes, <1>14 DEF CommandFindsClosed, game, link, session, loader,
     Plain, Phases, Listening, LdStates, Waits, Ends
<1>15. ASSUME NEW t \in Tasks, HandshakeFindsClosed(t), UNCHANGED loader PROVE Plain'
  BY Bounds, CallTypes, <1>15 DEF HandshakeFindsClosed, game, loader, Close, Unlink,
     Plain, Phases, Listening, LdStates, Waits, Ends
<1>16. ASSUME NEW t \in Tasks, DialAccepted(t), UNCHANGED loader PROVE Plain'
  BY Bounds, CallTypes, <1>16 DEF DialAccepted, game, loader, Plain, Phases, Listening,
     LdStates, Waits, Ends
<1>17. ASSUME NEW t \in Tasks, DialRefused(t), UNCHANGED loader PROVE Plain'
  BY Bounds, CallTypes, <1>17 DEF DialRefused, link, session, loader, Plain, Phases,
     Listening, LdStates, Waits, Ends
<1>18. ASSUME NEW t \in Tasks, Receive(t) PROVE Plain'
  BY Bounds, CallTypes, <1>18 DEF Receive, game, link, session, loader, Plain, Phases,
     Listening, LdStates, Waits, Ends
<1>19. ASSUME NEW t \in Tasks, CancelCall(t) PROVE Plain'
  BY Bounds, CallTypes, <1>19 DEF CancelCall, game, link, session, loader, Plain,
     Phases, Listening, LdStates, Waits, Ends
<1>20. CASE Act
  BY Bounds, CallTypes, <1>20 DEF Act, loader, Execute, game, link, session, Plain,
     Phases, Listening, LdStates, Waits, Ends
<1>21. CASE Probe
  BY Bounds, CallTypes, <1>21 DEF Probe, loader, Execute, game, link, session, Plain,
     Phases, Listening, LdStates, Waits, Ends
<1>22. CASE BeginLoad
  BY Bounds, CallTypes, <1>22 DEF BeginLoad, game, link, session, BeginWait, Plain,
     Phases, Listening, LdStates, Waits, Ends
<1>23. CASE Poll
  BY Bounds, CallTypes, <1>23 DEF Poll, loader, Reconnect, Close, Unlink, Refresh,
     game, link, session, Plain, Phases, Listening, LdStates, Waits, Ends
<1>24. CASE PollReturns
  BY Bounds, CallTypes, <1>24 DEF PollReturns, Still, game, link, session, BeginWait,
     Retry, Plain, Phases, Listening, LdStates, Waits, Ends
<1>25. CASE Issue
  BY Bounds, CallTypes, <1>25 DEF Issue, loader, Execute, game, link, session, Plain,
     Phases, Listening, LdStates, Waits, Ends
<1>26. CASE IssueReturns
  BY Bounds, CallTypes, <1>26 DEF IssueReturns, Still, game, link, session, BeginWait,
     Plain, Phases, Listening, LdStates, Waits, Ends
<1>27. CASE Verify
  <2>1. CASE need
    BY <1>27, <2>1 DEF Verify, loader, Reconnect, Close, Unlink, game, Plain
  <2>2. CASE ~need
    BY <1>27, <2>2, Bounds DEF Verify, loader, Execute, game, link, session, Plain
  <2> QED  BY <2>1, <2>2
<1>28. CASE VerifyReturns
  BY Bounds, CallTypes, <1>28 DEF VerifyReturns, Still, game, link, session, Retry,
     CheckPosition, Plain, Phases, Listening, LdStates, Waits, Ends
<1>29. CASE VerifyExpires
  BY Bounds, CallTypes, <1>29 DEF VerifyExpires, nexusVars, game, link, session, calls,
     Retry, Plain, Phases, Listening, LdStates, Waits, Ends
<1>30. CASE DeadlinePasses
  BY Bounds, CallTypes, <1>30 DEF DeadlinePasses, nexusVars, game, link, session,
     calls, Plain, Phases, Listening, LdStates, Waits, Ends
<1>31. CASE LoseFile
  <2>1. faults' \in 0..MaxFaults
    BY <1>31, Bounds DEF LoseFile, Fault, Plain
  <2> QED  BY <1>31, <2>1 DEF LoseFile, link, session, calls, Fault, Plain, Phases
<1>32. CASE UNCHANGED vars
  BY Bounds, CallTypes, <1>32 DEF vars, nexusVars, game, link, session, calls, loader,
     Plain, Phases, Listening, LdStates, Waits, Ends
<1> QED
  BY <1>1, <1>2, <1>3, <1>4, <1>5, <1>6, <1>7, <1>8, <1>9, <1>10, <1>11, <1>12,
     <1>13, <1>14, <1>15, <1>16, <1>17, <1>18, <1>19, <1>20, <1>21, <1>22, <1>23,
     <1>24, <1>25, <1>26, <1>27, <1>28, <1>29, <1>30, <1>31, <1>32
     DEF Next, GameStep, ClientStep, LoaderStep

(* Leaving the queue: the others stay, in order. *)
LEMMA Left ==
  ASSUME NEW S, NEW q \in Seq(S), NEW t
  PROVE  /\ Without(q, t) \in Seq(S)
         /\ \A k \in DOMAIN Without(q, t) : \E j \in DOMAIN q : Without(q, t)[k] = q[j]
         /\ (\A i, j \in DOMAIN q : q[i] = q[j] => i = j) =>
              /\ \A i, j \in DOMAIN Without(q, t) :
                    Without(q, t)[i] = Without(q, t)[j] => i = j
              /\ \A k \in DOMAIN Without(q, t) : Without(q, t)[k] # t
<1>1. CASE ~ \E i \in DOMAIN q : q[i] = t
  BY <1>1 DEF Without
<1>2. CASE \E i \in DOMAIN q : q[i] = t
  <2> DEFINE i == CHOOSE i \in DOMAIN q : q[i] = t
             r == Without(q, t)
  <2>1. i \in DOMAIN q /\ q[i] = t
    BY <1>2
  <2>2. r = SubSeq(q, 1, i - 1) \o SubSeq(q, i + 1, Len(q))
    BY <1>2 DEF Without
  <2> HIDE DEF i
  <2>3. i \in 1 .. Len(q) /\ Len(q) \in Nat
    BY <2>1
  <2> DEFINE x == SubSeq(q, 1, i - 1)
             y == SubSeq(q, i + 1, Len(q))
  <2>4. x \in Seq(S) /\ Len(x) = i - 1 /\ \A k \in 1 .. i - 1 : x[k] = q[k]
    BY <2>3
  <2>5. y \in Seq(S) /\ Len(y) = Len(q) - i /\ \A k \in 1 .. Len(q) - i : y[k] = q[k + i]
    BY <2>3
  <2>12. r = x \o y
    BY <2>2
  <2> HIDE DEF r, x, y
  <2>13. /\ x \o y \in Seq(S) /\ DOMAIN (x \o y) = 1 .. Len(x) + Len(y)
         /\ DOMAIN x = 1 .. Len(x) /\ \A k \in DOMAIN x : (x \o y)[k] = x[k]
         /\ \A k \in DOMAIN (x \o y) \ DOMAIN x :
               k - Len(x) \in DOMAIN y /\ (x \o y)[k] = y[k - Len(x)]
    <3>1. x \in Seq(S) /\ y \in Seq(S)
      BY <2>4, <2>5
    <3> QED  BY <3>1, Longer
  <2>6. r \in Seq(S) /\ DOMAIN r = 1 .. Len(q) - 1
    BY <2>3, <2>4, <2>5, <2>12, <2>13
  <2>7. \A k \in 1 .. Len(q) - 1 : r[k] = q[IF k < i THEN k ELSE k + 1]
    <3>1. ASSUME NEW k \in 1 .. Len(q) - 1, k < i PROVE r[k] = q[k]
      <4>1. k \in DOMAIN x /\ k \in 1 .. i - 1
        BY <3>1, <2>3, <2>4, <2>13
      <4> QED  BY <4>1, <2>4, <2>12, <2>13
    <3>2. ASSUME NEW k \in 1 .. Len(q) - 1, ~(k < i) PROVE r[k] = q[k + 1]
      <4>1. k \in DOMAIN (x \o y) \ DOMAIN x
        BY <3>2, <2>3, <2>4, <2>5, <2>13
      <4>2. r[k] = y[k - (i - 1)]
        BY <4>1, <2>4, <2>12, <2>13
      <4>3. k - (i - 1) \in 1 .. Len(q) - i /\ k - (i - 1) + i = k + 1
        BY <2>3, <3>2
      <4> QED  BY <4>2, <4>3, <2>5
    <3> QED  BY <3>1, <3>2
  <2>8. \A k \in 1 .. Len(q) - 1 : (IF k < i THEN k ELSE k + 1) \in DOMAIN q \ {i}
    BY <2>3
  <2>9. \A k, j \in 1 .. Len(q) - 1 : (IF k < i THEN k ELSE k + 1) = (IF j < i THEN j ELSE j + 1) => k = j
    BY <2>3
  <2>10. \A k \in DOMAIN r : \E j \in DOMAIN q \ {i} : r[k] = q[j]
    BY <2>6, <2>7, <2>8
  <2>11. ASSUME \A g, h \in DOMAIN q : q[g] = q[h] => g = h
         PROVE  /\ \A g, h \in DOMAIN r : r[g] = r[h] => g = h
                /\ \A k \in DOMAIN r : r[k] # t
    <3>1. \A g, h \in DOMAIN r : r[g] = r[h] => g = h
      BY <2>11, <2>6, <2>7, <2>8, <2>9
    <3> QED  BY <2>1, <2>10, <2>11, <3>1
  <2> QED  BY <2>6, <2>10, <2>11 DEF r
<1> QED  BY <1>1, <1>2

(* A command queues a task or lets its lock go. *)
LEMMA ExecuteLock ==
  ASSUME OnLock, NEW t \in Tasks, NEW name, NEW body, Execute(t, name, body)
  PROVE  OnLock'
<1>1. CASE writer /\ name \in DOMAIN table
  <2>1. waiters' = Append(waiters, t) /\ UNCHANGED lock
    BY <1>1 DEF Execute, Queue
  <2> QED  BY <2>1 DEF OnLock
<1>2. CASE ~(writer /\ name \in DOMAIN table)
  <2>1. UNCHANGED waiters /\ lock' \in {lock, "free"}
    BY <1>2 DEF Execute, Finish
  <2> QED  BY <2>1 DEF OnLock
<1> QED  BY <1>1, <1>2

(* So does a question for the state table. *)
LEMMA RefreshLock ==
  ASSUME OnLock, NEW t \in Tasks, Refresh(t)
  PROVE  OnLock'
<1>1. CASE writer
  <2>1. waiters' = Append(waiters, t) /\ UNCHANGED lock
    BY <1>1 DEF Refresh, Queue
  <2> QED  BY <2>1 DEF OnLock
<1>2. CASE ~writer
  <2>1. UNCHANGED waiters /\ lock' \in {lock, "free"}
    BY <1>2 DEF Refresh, Finish
  <2> QED  BY <2>1 DEF OnLock
<1> QED  BY <1>1, <1>2

(* What the loader issues: ExitToMainMenu from the game, LoadGame from the menu. *)
LEMMA IssueIs ==
  ASSUME Issue
  PROVE  \/ ld = "exit" /\ Execute("turn", "InGame", "exit")
         \/ ld = "load" /\ Execute("turn", "MainMenu", "load")
<1>1. CASE ld = "exit"
  BY <1>1, Zenon DEF Issue
<1>2. CASE ld = "load"
  <2>1. "load" # "exit"
    OBVIOUS
  <2> QED  BY <1>2, <2>1, Zenon DEF Issue
<1> QED  BY <1>1, <1>2 DEF Issue

(* The lock is of a task, and so is each place in the queue. *)
LEMMA OnLockKept ==
  Shape /\ [Next]_vars => OnLock'
<1> SUFFICES ASSUME Shape, [Next]_vars PROVE OnLock'
  OBVIOUS
<1> USE DEF Shape
<1>1. ASSUME ServeHandshake, UNCHANGED loader PROVE OnLock'
  BY Bounds, Left, <1>1 DEF ServeHandshake, Answer, game, session, calls, loader,
     OnLock, Finish, Queue
<1>2. ASSUME ServeCommand, UNCHANGED loader PROVE OnLock'
  BY Bounds, Left, <1>2 DEF ServeCommand, Answer, session, calls, loader, Fault,
     OnLock, Finish, Queue
<1>3. ASSUME ReachMenu, UNCHANGED loader PROVE OnLock'
  BY Bounds, Left, <1>3 DEF ReachMenu, session, calls, loader, OnLock, Finish, Queue
<1>4. ASSUME LoadCompletes, UNCHANGED loader PROVE OnLock'
  BY Bounds, Left, <1>4 DEF LoadCompletes, link, session, calls, loader, Fault, OnLock,
     Finish, Queue
<1>5. ASSUME DropLink, UNCHANGED loader PROVE OnLock'
  BY Bounds, Left, <1>5 DEF DropLink, session, calls, loader, Fault, OnLock, Finish, Queue
<1>6. ASSUME Crash, UNCHANGED loader PROVE OnLock'
  BY Bounds, Left, <1>6 DEF Crash, session, calls, loader, Fault, OnLock, Finish, Queue
<1>7. ASSUME NEW t \in Tasks, TakeLock(t), UNCHANGED loader PROVE OnLock'
  BY Bounds, Left, <1>7 DEF TakeLock, game, session, loader, OnLock, Finish, Queue
<1>8. ASSUME NEW t \in Tasks, ReadOutput(t), UNCHANGED loader PROVE OnLock'
  BY Bounds, Left, <1>8 DEF ReadOutput, game, calls, loader, NextFrame, OnLock, Finish,
     Queue
<1>9. ASSUME NEW t \in Tasks, SkipFrame(t), UNCHANGED loader PROVE OnLock'
  BY Bounds, Left, <1>9 DEF SkipFrame, game, session, calls, loader, NextFrame, OnLock,
     Finish, Queue
<1>10. ASSUME NEW t \in Tasks, ReadTable(t), UNCHANGED loader PROVE OnLock'
  BY Bounds, Left, <1>10 DEF ReadTable, game, loader, NextFrame, OnLock, Finish, Queue
<1>11. ASSUME NEW t \in Tasks, ReadGreeting(t), UNCHANGED loader PROVE OnLock'
  BY Bounds, Left, <1>11 DEF ReadGreeting, game, session, loader, NextFrame, OnLock,
     Finish, Queue
<1>12. ASSUME NEW t \in Tasks, CommandTimesOut(t), UNCHANGED loader PROVE OnLock'
  BY Bounds, Left, <1>12 DEF CommandTimesOut, game, link, loader, OnLock, Finish, Queue
<1>13. ASSUME NEW t \in Tasks, HandshakeTimesOut(t), UNCHANGED loader PROVE OnLock'
  BY Bounds, Left, <1>13 DEF HandshakeTimesOut, game, loader, OnLock, Finish, Queue
<1>14. ASSUME NEW t \in Tasks, CommandFindsClosed(t), UNCHANGED loader PROVE OnLock'
  BY Bounds, Left, <1>14 DEF CommandFindsClosed, game, link, session, loader, OnLock,
     Finish, Queue
<1>15. ASSUME NEW t \in Tasks, HandshakeFindsClosed(t), UNCHANGED loader PROVE OnLock'
  BY Bounds, Left, <1>15 DEF HandshakeFindsClosed, game, loader, Refused, OnLock,
     Finish, Queue
<1>16. ASSUME NEW t \in Tasks, DialAccepted(t), UNCHANGED loader PROVE OnLock'
  BY Bounds, Left, <1>16 DEF DialAccepted, game, loader, OnLock, Finish, Queue
<1>17. ASSUME NEW t \in Tasks, DialRefused(t), UNCHANGED loader PROVE OnLock'
  BY Bounds, Left, <1>17 DEF DialRefused, link, session, loader, Refused, OnLock,
     Finish, Queue
<1>18. ASSUME NEW t \in Tasks, Receive(t) PROVE OnLock'
  BY Bounds, Left, <1>18 DEF Receive, game, link, session, loader, OnLock, Finish, Queue
<1>19. ASSUME NEW t \in Tasks, CancelCall(t) PROVE OnLock'
  BY Bounds, Left, <1>19 DEF CancelCall, game, link, session, loader, Cancel, OnLock,
     Finish, Queue
<1>20. CASE Act
  BY Bounds, Left, <1>20 DEF Act, loader, Execute, Refresh, Reconnect, OnLock, Finish, Queue
<1>21. CASE Probe
  BY Bounds, Left, <1>21 DEF Probe, loader, Execute, Refresh, Reconnect, OnLock,
     Finish, Queue
<1>22. CASE BeginLoad
  BY Bounds, Left, <1>22 DEF BeginLoad, game, link, session, calls, OnLock, Finish, Queue
<1>23. CASE Poll
  <2>1. CASE Reconnect("turn")
    <3>1. UNCHANGED <<lock, waiters>>
      BY <2>1 DEF Reconnect
    <3> QED  BY <3>1 DEF OnLock
  <2>2. CASE Refresh("turn")
    BY <2>2, Bounds, RefreshLock
  <2> QED  BY <1>23, <2>1, <2>2 DEF Poll
<1>24. CASE PollReturns
  BY Bounds, Left, <1>24 DEF PollReturns, Still, game, link, session, OnLock, Finish, Queue
<1>25. CASE Issue
  <2>1. CASE Execute("turn", "InGame", "exit")
    BY <2>1, Bounds, ExecuteLock
  <2>2. CASE Execute("turn", "MainMenu", "load")
    BY <2>2, Bounds, ExecuteLock
  <2> QED  BY <1>25, <2>1, <2>2, IssueIs
<1>26. CASE IssueReturns
  BY Bounds, Left, <1>26 DEF IssueReturns, Still, game, link, session, OnLock, Finish, Queue
<1>27. CASE Verify
  <2>1. CASE Reconnect("turn")
    <3>1. UNCHANGED <<lock, waiters>>
      BY <2>1 DEF Reconnect
    <3> QED  BY <3>1 DEF OnLock
  <2>2. CASE Execute("turn", "InGame", "verify")
    BY <2>2, Bounds, ExecuteLock
  <2> QED  BY <1>27, <2>1, <2>2 DEF Verify
<1>28. CASE VerifyReturns
  BY Bounds, Left, <1>28 DEF VerifyReturns, Still, game, link, session, OnLock, Finish,
     Queue
<1>29. CASE VerifyExpires
  BY Bounds, Left, <1>29 DEF VerifyExpires, nexusVars, game, link, session, calls,
     OnLock, Finish, Queue
<1>30. CASE DeadlinePasses
  BY Bounds, Left, <1>30 DEF DeadlinePasses, nexusVars, game, link, session, calls,
     OnLock, Finish, Queue
<1>31. CASE LoseFile
  BY Bounds, Left, <1>31 DEF LoseFile, link, session, calls, Fault, OnLock, Finish, Queue
<1>32. CASE UNCHANGED vars
  BY Bounds, Left, <1>32 DEF vars, nexusVars, game, link, session, calls, loader,
     OnLock, Finish, Queue
<1> QED
  BY <1>1, <1>2, <1>3, <1>4, <1>5, <1>6, <1>7, <1>8, <1>9, <1>10, <1>11, <1>12,
     <1>13, <1>14, <1>15, <1>16, <1>17, <1>18, <1>19, <1>20, <1>21, <1>22, <1>23,
     <1>24, <1>25, <1>26, <1>27, <1>28, <1>29, <1>30, <1>31, <1>32
     DEF Next, GameStep, ClientStep, LoaderStep

(* The calls there are, and what is made of them. *)
LEMMA CallForms ==
  ASSUME Shape, NEW t \in Tasks
  PROVE  /\ call[t] \in Calls /\ call[t].nonce \in Nat /\ call[t].nonce <= nonce /\ nonce \in Nat
         /\ \A a \in CallStates : /\ [call[t] EXCEPT !.at = a] \in Calls
                                   /\ [call[t] EXCEPT !.at = a].nonce = call[t].nonce
         /\ \A a \in CallStates : \A b \in Bodies :
              /\ [call[t] EXCEPT !.at = a, !.body = b] \in Calls
              /\ [call[t] EXCEPT !.at = a, !.body = b].nonce = call[t].nonce
              /\ [Idle EXCEPT !.at = a, !.body = b] \in Calls
              /\ [Idle EXCEPT !.at = a, !.body = b].nonce = 0
         /\ [Idle EXCEPT !.nonce = call[t].nonce] \in Calls
         /\ [Idle EXCEPT !.nonce = call[t].nonce].nonce = call[t].nonce
         /\ Idle.nonce = 0
<1>1. call[t] \in Calls /\ call[t].nonce <= nonce /\ nonce \in Nat
  BY DEF Shape, OnCall, Plain
<1>2. Idle \in Calls
  BY CallTypes
<1> QED  BY <1>1, <1>2 DEF Calls, Idle

(* Finish keeps the types of calls and results. *)
LEMMA FinishTypes ==
  ASSUME Shape, NEW t \in Tasks, NEW r \in Results, Finish(t, r), nonce' = nonce
  PROVE  OnCall'
<1> DEFINE c == [Idle EXCEPT !.nonce = call[t].nonce]
<1>1. call' = [call EXCEPT ![t] = c] /\ got' = [got EXCEPT ![t] = r]
  BY DEF Finish
<1>2. c \in Calls /\ c.nonce <= nonce /\ nonce \in Nat
  BY CallForms
<1> HIDE DEF c
<1> QED  BY <1>1, <1>2 DEF Shape, OnCall

(* So does execute_command. *)
LEMMA ExecuteTypes ==
  ASSUME Shape, NEW t \in Tasks, NEW name, NEW body \in Bodies, Execute(t, name, body)
  PROVE  OnCall'
<1>1. CASE writer /\ name \in DOMAIN table
  <2> DEFINE c == [Idle EXCEPT !.at = "lock", !.nonce = nonce + 1, !.aim = name,
                               !.body = body, !.index = table[name]]
  <2>1. call' = [call EXCEPT ![t] = c] /\ UNCHANGED got /\ nonce' = nonce + 1
    BY <1>1 DEF Execute, Queue
  <2>2. nonce \in Nat /\ name \in Names /\ table[name] \in Indices
    <3>1. nonce \in Nat /\ table \in Tables \cup {NoTable}
      BY DEF Shape, Plain
    <3>2. table \in Tables
      BY <1>1, <3>1 DEF NoTable
    <3> QED  BY <1>1, <3>1, <3>2, CallTypes
  <2> DEFINE F(i, n, a, x) == [i EXCEPT !.at = "lock", !.nonce = n, !.aim = a,
                                         !.body = body, !.index = x]
  <2>3. \A i \in Calls, n \in Nat, a \in Names, x \in Indices :
           F(i, n, a, x) \in Calls /\ F(i, n, a, x).nonce = n
    BY DEF Calls, CallStates
  <2>4. c = F(Idle, nonce + 1, name, table[name])
    OBVIOUS
  <2> HIDE DEF F, c
  <2>5. Idle \in Calls /\ nonce + 1 \in Nat
    BY <2>2, CallTypes
  <2>6. c \in Calls /\ c.nonce = nonce + 1
    BY <2>2, <2>3, <2>4, <2>5
  <2>7. \A s \in Tasks : call[s].nonce \in Nat /\ call[s].nonce <= nonce + 1
    BY <2>2 DEF Shape, OnCall, Calls
  <2> QED  BY <2>1, <2>5, <2>6, <2>7 DEF Shape, OnCall
<1>2. CASE ~(writer /\ name \in DOMAIN table)
  <2>1. Finish(t, Ended("unresolved")) /\ nonce' = nonce
    BY <1>2 DEF Execute
  <2> QED  BY <2>1, CallTypes, FinishTypes
<1> QED  BY <1>1, <1>2

(* So does refresh_state_indices. *)
LEMMA RefreshTypes ==
  ASSUME Shape, NEW t \in Tasks, Refresh(t)
  PROVE  OnCall'
<1>1. CASE writer
  <2> DEFINE c == [Idle EXCEPT !.at = "lock", !.body = "LSQ"]
  <2>1. call' = [call EXCEPT ![t] = c] /\ UNCHANGED <<got, nonce>>
    BY <1>1 DEF Refresh, Queue, session
  <2>2. c \in Calls /\ c.nonce = 0 /\ nonce \in Nat
    BY CallForms DEF CallStates, Bodies, Handshakes
  <2> HIDE DEF c
  <2> QED  BY <2>1, <2>2 DEF Shape, OnCall
<1>2. CASE ~writer
  <2>1. Finish(t, Ended("unresolved")) /\ nonce' = nonce
    BY <1>2 DEF Refresh, session
  <2> QED  BY <2>1, CallTypes, FinishTypes
<1> QED  BY <1>1, <1>2

(* So does the start of reconnect. *)
LEMMA ReconnectTypes ==
  ASSUME Shape, NEW t \in Tasks, Reconnect(t)
  PROVE  OnCall'
<1> DEFINE c == [Idle EXCEPT !.at = "dial", !.body = "APP"]
<1>1. call' = [call EXCEPT ![t] = c] /\ UNCHANGED <<got, nonce>>
  BY DEF Reconnect
<1>2. c \in Calls /\ c.nonce = 0 /\ nonce \in Nat
  BY CallForms DEF CallStates, Bodies, Handshakes
<1> HIDE DEF c
<1> QED  BY <1>1, <1>2 DEF Shape, OnCall

(* So does a refused attempt at it. *)
LEMMA RefusedTypes ==
  ASSUME Shape, NEW t \in Tasks, Refused(t), nonce' = nonce
  PROVE  OnCall'
<1>1. CASE call[t].tries + 1 < ReconnectMax
  <2> DEFINE c == [call[t] EXCEPT !.at = "dial", !.body = "APP", !.tries = call[t].tries + 1]
  <2>1. call' = [call EXCEPT ![t] = c] /\ UNCHANGED got
    BY <1>1 DEF Refused
  <2>2. c \in Calls /\ c.nonce = call[t].nonce
    <3>1. call[t] \in Calls
      BY CallForms
    <3>2. call[t].tries + 1 \in 0 .. (ReconnectMax - 1)
      BY <1>1, <3>1, Bounds DEF Calls
    <3> QED  BY <3>1, <3>2 DEF Calls, CallStates, Bodies, Handshakes
  <2> HIDE DEF c
  <2> QED  BY <2>1, <2>2, CallForms DEF Shape, OnCall
<1>2. CASE ~(call[t].tries + 1 < ReconnectMax)
  <2>1. Finish(t, Ended("refused"))
    BY <1>2 DEF Refused
  <2> QED  BY <2>1, CallTypes, FinishTypes
<1> QED  BY <1>1, <1>2

(* So does taking a result. *)
LEMMA TakeTypes ==
  ASSUME Shape, NEW t \in Tasks, Take(t), nonce' = nonce
  PROVE  OnCall'
<1> DEFINE c == Idle
<1>1. call' = [call EXCEPT ![t] = c] /\ got' = [got EXCEPT ![t] = Nothing]
  BY DEF Take
<1>2. c \in Calls /\ c.nonce = 0 /\ nonce \in Nat /\ Nothing \in Results
  BY CallForms, CallTypes
<1> HIDE DEF c
<1> QED  BY <1>1, <1>2 DEF Shape, OnCall

(* What a reading task has before it. *)
LEMMA FedWell ==
  ASSUME Shape, AllSealed(buffer, wire), wire # <<>>
  PROVE  LET fed == IF Head(wire).tag = "out" THEN buffer \o Head(wire).lines ELSE buffer
         IN  fed \in Seq(Lines) /\ Sealed(fed) /\ Spoken(fed) \subseteq Out(buffer, wire)
<1>1. Spoken(buffer) \subseteq Out(buffer, wire) /\ Sealed(buffer) /\ buffer \in Seq(Lines)
  BY DEF Out, AllSealed, Shape, OnLink
<1>2. CASE Head(wire).tag = "out"
  <2>1. Head(wire).lines \in Seq(Lines)
    <3>1. Head(wire) \in Frames
      BY FrameRead DEF Shape, OnLink
    <3> QED  BY <3>1, <1>2 DEF Frames, Outputs, Answers
  <2>2. Sealed(Head(wire).lines) /\ Spoken(Head(wire).lines) \subseteq Out(buffer, wire)
    BY <1>2, LessIsOut DEF Shape, OnLink
  <2> QED  BY <1>1, <1>2, <2>1, <2>2, Fed
<1>3. CASE Head(wire).tag # "out"
  BY <1>1, <1>3
<1> QED  BY <1>2, <1>3

(* Calls and their results keep their types. *)
LEMMA OnCallKept ==
  Shape /\ AllSealed(buffer, wire) /\ [Next]_vars => OnCall'
<1> SUFFICES ASSUME Shape, AllSealed(buffer, wire), [Next]_vars PROVE OnCall'
  OBVIOUS
<1> USE DEF Shape
<1>1. ASSUME ServeHandshake, UNCHANGED loader PROVE OnCall'
  <2>1. UNCHANGED <<call, got, nonce>>
    BY <1>1 DEF ServeHandshake, Answer, game, session, calls, loader, nexusVars
  <2> QED  BY <2>1 DEF OnCall
<1>2. ASSUME ServeCommand, UNCHANGED loader PROVE OnCall'
  <2>1. UNCHANGED <<call, got, nonce>>
    BY <1>2 DEF ServeCommand, Answer, session, calls, loader, Fault, nexusVars
  <2> QED  BY <2>1 DEF OnCall
<1>3. ASSUME ReachMenu, UNCHANGED loader PROVE OnCall'
  <2>1. UNCHANGED <<call, got, nonce>>
    BY <1>3 DEF ReachMenu, session, calls, loader, nexusVars
  <2> QED  BY <2>1 DEF OnCall
<1>4. ASSUME LoadCompletes, UNCHANGED loader PROVE OnCall'
  <2>1. UNCHANGED <<call, got, nonce>>
    BY <1>4 DEF LoadCompletes, link, session, calls, loader, Fault, nexusVars
  <2> QED  BY <2>1 DEF OnCall
<1>5. ASSUME DropLink, UNCHANGED loader PROVE OnCall'
  <2>1. UNCHANGED <<call, got, nonce>>
    BY <1>5 DEF DropLink, session, calls, loader, Fault, nexusVars
  <2> QED  BY <2>1 DEF OnCall
<1>6. ASSUME Crash, UNCHANGED loader PROVE OnCall'
  <2>1. UNCHANGED <<call, got, nonce>>
    BY <1>6 DEF Crash, session, calls, loader, Fault, nexusVars
  <2> QED  BY <2>1 DEF OnCall
<1>7. ASSUME NEW t \in Tasks, TakeLock(t), UNCHANGED loader PROVE OnCall'
  <2>1. /\ call' = [call EXCEPT ![t] = [call[t] EXCEPT !.at = IF call[t].body = "LSQ" THEN "query" ELSE "output"]]
        /\ UNCHANGED <<got, nonce>>
    BY <1>7 DEF TakeLock, session
  <2> DEFINE a == IF call[t].body = "LSQ" THEN "query" ELSE "output"
  <2>2. a \in CallStates
    BY DEF CallStates
  <2> HIDE DEF a
  <2>3. call' = [call EXCEPT ![t] = [call[t] EXCEPT !.at = a]]
    BY <2>1 DEF a
  <2> DEFINE c == [call[t] EXCEPT !.at = a]
  <2>4. c \in Calls /\ c.nonce <= nonce
    BY <2>2, CallForms
  <2> HIDE DEF c
  <2> QED  BY <2>1, <2>3, <2>4 DEF OnCall, c
<1>8. ASSUME NEW t \in Tasks, ReadOutput(t), UNCHANGED loader PROVE OnCall'
  <2> DEFINE fed == IF Head(wire).tag = "out" THEN buffer \o Head(wire).lines ELSE buffer
             n == call[t].nonce
  <2>1. fed \in Seq(Lines) /\ Sealed(fed)
    BY <1>8, FedWell DEF ReadOutput, NextFrame
  <2>2. n \in Nat /\ nonce' = nonce
    BY <1>8, CallForms DEF ReadOutput
  <2>3. CASE Complete(n, fed)
    <3>1. Finish(t, Parsed(Body(n, fed)))
      BY <1>8, <2>3 DEF ReadOutput
    <3> HIDE DEF fed, n
    <3>2. Parsed(Body(n, fed)) \in Results
      BY <2>1, <2>2, <2>3, ReadOwn
    <3> QED  BY <3>1, <3>2, <2>2, FinishTypes
  <2>4. CASE ~Complete(n, fed)
    <3>1. UNCHANGED <<call, got>>
      BY <1>8, <2>4 DEF ReadOutput, calls
    <3> QED  BY <3>1, <2>2 DEF OnCall
  <2> QED  BY <2>3, <2>4
<1>9. ASSUME NEW t \in Tasks, SkipFrame(t), UNCHANGED loader PROVE OnCall'
  <2>1. UNCHANGED <<call, got, nonce>>
    BY <1>9 DEF SkipFrame, game, session, calls, loader, NextFrame, nexusVars
  <2> QED  BY <2>1 DEF OnCall
<1>10. ASSUME NEW t \in Tasks, ReadTable(t), UNCHANGED loader PROVE OnCall'
  <2>1. Finish(t, Ended("table")) /\ nonce' = nonce
    BY <1>10 DEF ReadTable, game, loader, NextFrame, session
  <2> QED  BY <2>1, CallTypes, FinishTypes
<1>11. ASSUME NEW t \in Tasks, ReadGreeting(t), UNCHANGED loader PROVE OnCall'
  <2> DEFINE c == [call[t] EXCEPT !.at = "shake", !.body = "LSQ"]
  <2>1. call' = [call EXCEPT ![t] = c] /\ UNCHANGED <<got, nonce>>
    BY <1>11 DEF ReadGreeting, game, session, loader, NextFrame
  <2>2. c \in Calls /\ c.nonce <= nonce
    BY CallForms DEF CallStates, Bodies, Handshakes
  <2> HIDE DEF c
  <2> QED  BY <2>1, <2>2 DEF OnCall
<1>12. ASSUME NEW t \in Tasks, CommandTimesOut(t), UNCHANGED loader PROVE OnCall'
  <2>1. Finish(t, Ended("timeout")) /\ nonce' = nonce
    BY <1>12 DEF CommandTimesOut, game, link, loader, session
  <2> QED  BY <2>1, CallTypes, FinishTypes
<1>13. ASSUME NEW t \in Tasks, HandshakeTimesOut(t), UNCHANGED loader PROVE OnCall'
  <2>1. Finish(t, Ended("timeout")) /\ nonce' = nonce
    BY <1>13 DEF HandshakeTimesOut, game, loader, session
  <2> QED  BY <2>1, CallTypes, FinishTypes
<1>14. ASSUME NEW t \in Tasks, CommandFindsClosed(t), UNCHANGED loader PROVE OnCall'
  <2>1. Finish(t, Ended("closed")) /\ nonce' = nonce
    BY <1>14 DEF CommandFindsClosed, game, link, session, loader
  <2> QED  BY <2>1, CallTypes, FinishTypes
<1>15. ASSUME NEW t \in Tasks, HandshakeFindsClosed(t), UNCHANGED loader PROVE OnCall'
  <2>1. Refused(t) /\ nonce' = nonce
    BY <1>15 DEF HandshakeFindsClosed
  <2> QED  BY <2>1, RefusedTypes
<1>16. ASSUME NEW t \in Tasks, DialAccepted(t), UNCHANGED loader PROVE OnCall'
  <2> DEFINE c == [call[t] EXCEPT !.at = "greet"]
  <2>1. call' = [call EXCEPT ![t] = c] /\ UNCHANGED <<got, nonce>>
    BY <1>16 DEF DialAccepted, game, loader, session
  <2>2. c \in Calls /\ c.nonce <= nonce
    BY CallForms DEF CallStates, Bodies, Handshakes
  <2> HIDE DEF c
  <2> QED  BY <2>1, <2>2 DEF OnCall
<1>17. ASSUME NEW t \in Tasks, DialRefused(t), UNCHANGED loader PROVE OnCall'
  <2>1. Refused(t) /\ nonce' = nonce
    BY <1>17 DEF DialRefused, session
  <2> QED  BY <2>1, RefusedTypes
<1>18. ASSUME NEW t \in Tasks, Receive(t) PROVE OnCall'
  <2>1. Take(t) /\ nonce' = nonce
    BY <1>18 DEF Receive, session
  <2> QED  BY <2>1, TakeTypes
<1>19. ASSUME NEW t \in Tasks, CancelCall(t) PROVE OnCall'
  <2> DEFINE c == Idle
  <2>1. /\ call' = [call EXCEPT ![t] = c] /\ got' = [got EXCEPT ![t] = Nothing]
        /\ nonce' = nonce
    BY <1>19 DEF CancelCall, Cancel, session
  <2>2. c \in Calls /\ c.nonce = 0 /\ nonce \in Nat /\ Nothing \in Results
    BY CallForms, CallTypes
  <2> HIDE DEF c
  <2> QED  BY <2>1, <2>2 DEF OnCall
<1>20. CASE Act
  <2>1. Execute("turn", "InGame", "act")
    BY <1>20 DEF Act
  <2> QED  BY <2>1, Bounds, ExecuteTypes DEF Bodies, Handshakes
<1>21. CASE Probe
  <2>1. Execute("watch", "GameCore_Tuner", "probe")
    BY <1>21 DEF Probe
  <2> QED  BY <2>1, Bounds, ExecuteTypes DEF Bodies, Handshakes
<1>22. CASE BeginLoad
  <2>1. call' \in [Tasks -> Calls] /\ got' \in [Tasks -> Results] /\ nonce' = nonce /\ nonce \in Nat
        /\ \A t \in Tasks : call'[t].nonce = 0
    BY <1>22, CallTypes DEF BeginLoad, session, Plain, Idle
  <2> QED  BY <2>1 DEF OnCall
<1>23. CASE Poll
  <2>1. Reconnect("turn") \/ Refresh("turn")
    BY <1>23 DEF Poll
  <2> QED  BY <2>1, Bounds, ReconnectTypes, RefreshTypes
<1>24. CASE PollReturns
  <2>1. Take("turn") /\ nonce' = nonce
    BY <1>24 DEF PollReturns, Still, game, link, session
  <2> QED  BY <2>1, Bounds, TakeTypes
<1>25. CASE Issue
  <2>1. CASE Execute("turn", "InGame", "exit")
    BY <2>1, Bounds, ExecuteTypes DEF Bodies
  <2>2. CASE Execute("turn", "MainMenu", "load")
    BY <2>2, Bounds, ExecuteTypes DEF Bodies
  <2> QED  BY <1>25, <2>1, <2>2, IssueIs
<1>26. CASE IssueReturns
  <2>1. Take("turn") /\ nonce' = nonce
    BY <1>26 DEF IssueReturns, Still, game, link, session
  <2> QED  BY <2>1, Bounds, TakeTypes
<1>27. CASE Verify
  <2>1. Reconnect("turn") \/ Execute("turn", "InGame", "verify")
    BY <1>27 DEF Verify
  <2> QED  BY <2>1, Bounds, ReconnectTypes, ExecuteTypes DEF Bodies
<1>28. CASE VerifyReturns
  <2>1. Take("turn") /\ nonce' = nonce
    BY <1>28 DEF VerifyReturns, Still, game, link, session
  <2> QED  BY <2>1, Bounds, TakeTypes
<1>29. CASE VerifyExpires
  <2>1. UNCHANGED <<call, got, nonce>>
    BY <1>29 DEF VerifyExpires, nexusVars, game, link, session, calls
  <2> QED  BY <2>1 DEF OnCall
<1>30. CASE DeadlinePasses
  <2>1. UNCHANGED <<call, got, nonce>>
    BY <1>30 DEF DeadlinePasses, nexusVars, game, link, session, calls
  <2> QED  BY <2>1 DEF OnCall
<1>31. CASE LoseFile
  <2>1. UNCHANGED <<call, got, nonce>>
    BY <1>31 DEF LoseFile, link, session, calls, Fault, nexusVars
  <2> QED  BY <2>1 DEF OnCall
<1>32. CASE UNCHANGED vars
  <2>1. UNCHANGED <<call, got, nonce>>
    BY <1>32 DEF vars, nexusVars, calls, session
  <2> QED  BY <2>1 DEF OnCall
<1> QED
  BY <1>1, <1>2, <1>3, <1>4, <1>5, <1>6, <1>7, <1>8, <1>9, <1>10, <1>11, <1>12,
     <1>13, <1>14, <1>15, <1>16, <1>17, <1>18, <1>19, <1>20, <1>21, <1>22, <1>23,
     <1>24, <1>25, <1>26, <1>27, <1>28, <1>29, <1>30, <1>31, <1>32
     DEF Next, GameStep, ClientStep, LoaderStep

-----------------------------------------------------------------------------
(* What the game does to the link *)

(* The empty sequence is one of any kind. *)
LEMMA NoneOf ==
  \A S : <<>> \in Seq(S)
OBVIOUS

(* A request is typed, and of a nonce that was drawn. *)
LEMMA RequestAt ==
  ASSUME Shape, NEW i \in DOMAIN requests
  PROVE  requests[i] \in Requests /\ requests[i].nonce \in Nat /\ requests[i].nonce <= nonce
<1>1. requests[i] \in Requests /\ requests[i].nonce <= nonce
  BY DEF Shape, OnLink
<1> QED  BY <1>1 DEF Requests

(* What serving a command may do to the game, the link and the board. *)
LEMMA CommandServed ==
  ASSUME Shape, ServeCommand
  PROVE  LET c == Head(requests)
         IN  /\ requests # <<>> /\ c.body \notin Handshakes /\ phase \in Listening
             /\ strayed' = (strayed \/ StateAt(c.index) # c.aim)
             /\ requests' = Tail(requests) \/ requests' = <<>>
             /\ \/ phase' = phase
                \/ c.body = "exit" /\ phase = "game" /\ phase' = "leaving" /\ requests' = Tail(requests)
                \/ c.body = "load" /\ phase = "menu" /\ phase' = "loading" /\ requests' = <<>>
             /\ board' = board \/ c.body = "act"
             /\ \/ wire' = wire
                \/ \E f \in Seq(Outputs) :
                     /\ wire' = wire \o f /\ \A k \in DOMAIN f : Sealed(f[k].lines)
                     /\ \A k \in DOMAIN f : \A l \in Spoken(f[k].lines) :
                          l.nonce = c.nonce /\ l.value.turn = board'
<1> DEFINE c == Head(requests)
<1>1. requests # <<>> /\ c.body \notin Handshakes /\ phase \in Listening
  BY DEF ServeCommand, Handshakes
<1>2. strayed' = (strayed \/ StateAt(c.index) # c.aim)
  BY DEF ServeCommand
<1>3. c \in Requests /\ c.nonce \in Nat
  <2>1. c \in Requests
    BY <1>1, Shorter DEF Shape, OnLink
  <2> QED  BY <2>1 DEF Requests
<1>4. PICK ok \in BOOLEAN, noisy \in BOOLEAN :
        /\ (c.body = "load" /\ phase # "menu") => ~ok
        /\ board' = IF c.body = "act" /\ ok THEN board + 1 ELSE board
        /\ phase' = IF c.body = "exit" /\ ok /\ phase = "game" THEN "leaving"
                    ELSE IF c.body = "load" /\ ok THEN "loading" ELSE phase
        /\ requests' = IF phase' = "loading" THEN <<>> ELSE Tail(requests)
        /\ \/ \E out \in Arrivals(Printed(c.nonce, [ok |-> ok, turn |-> board'], noisy)) :
                Answer(c, out)
           \/ phase' # phase /\ UNCHANGED wire
  BY Zenon DEF ServeCommand
<1> HIDE DEF c
<1>5. requests' = Tail(requests) \/ requests' = <<>>
  BY <1>4
<1>6. \/ phase' = phase
      \/ c.body = "exit" /\ phase = "game" /\ phase' = "leaving" /\ requests' = Tail(requests)
      \/ c.body = "load" /\ phase = "menu" /\ phase' = "loading" /\ requests' = <<>>
  <2>1. phase # "loading"
    BY <1>1 DEF Listening
  <2> QED  BY <1>4, <2>1
<1>7. board' = board \/ c.body = "act"
  BY <1>4
<1>8. [ok |-> ok, turn |-> board'] \in Outcomes
  <2>1. board \in Nat
    BY DEF Shape, Plain
  <2>2. board' \in Nat
    BY <2>1, <1>4
  <2> QED  BY <2>2 DEF Outcomes
<1>9. \/ wire' = wire
      \/ \E f \in Seq(Outputs) :
            /\ wire' = wire \o f /\ \A k \in DOMAIN f : Sealed(f[k].lines)
            /\ \A k \in DOMAIN f : \A l \in Spoken(f[k].lines) :
                 l.nonce = c.nonce /\ l.value.turn = board'
  <2>1. CASE UNCHANGED wire
    BY <2>1
  <2>2. ASSUME NEW out \in Arrivals(Printed(c.nonce, [ok |-> ok, turn |-> board'], noisy)),
               Answer(c, out), wire' # wire
        PROVE  \E f \in Seq(Outputs) :
                 /\ wire' = wire \o f /\ \A k \in DOMAIN f : Sealed(f[k].lines)
                 /\ \A k \in DOMAIN f : \A l \in Spoken(f[k].lines) :
                      l.nonce = c.nonce /\ l.value.turn = board'
    <3>1. wire' = wire \o out
      BY <2>2 DEF Answer
    <3> DEFINE v == [ok |-> ok, turn |-> board']
    <3>2. v.turn = board'
      OBVIOUS
    <3> HIDE DEF v
    <3>3. /\ out \in Seq(Outputs) /\ \A k \in DOMAIN out : Sealed(out[k].lines)
          /\ \A k \in DOMAIN out : \A l \in Spoken(out[k].lines) : l.nonce = c.nonce /\ l.value = v
      BY <2>2, <1>3, <1>8, WholePrint DEF v
    <3> QED  BY <3>1, <3>2, <3>3
  <2> QED  BY <1>4, <2>1, <2>2
<1> QED  BY <1>1, <1>2, <1>5, <1>6, <1>7, <1>9 DEF c

(* A handshake that is served was the last request, and its answer is the only one. *)
LEMMA HandshakeServed ==
  ASSUME Shape, Single(requests, wire), ServeHandshake
  PROVE  /\ phase \in Listening /\ requests # <<>> /\ Head(requests) = requests[1]
         /\ 1 \in DOMAIN requests /\ requests[1].body \in Handshakes
         /\ requests' = <<>> /\ Heard(wire) = {}
         /\ \/ wire' = wire
            \/ \E h \in Answers :
                 /\ wire' = wire \o <<h>>
                 /\ h.table = IF requests[1].body = "LSQ" THEN StateTable[phase] ELSE NoTable
<1>1. /\ phase \in Listening /\ requests # <<>> /\ requests' = Tail(requests)
      /\ Head(requests).body \in Handshakes
  BY DEF ServeHandshake, Handshakes
<1>2. 1 \in DOMAIN requests /\ Head(requests) = requests[1] /\ requests \in Seq(Requests)
  BY <1>1, Shorter DEF Shape, OnLink
<1>3. Len(requests) = 1
  BY <1>1, <1>2 DEF Single
<1>4. requests' = <<>>
  BY <1>1, <1>2, <1>3
<1>5. Heard(wire) = {}
  BY <1>1 DEF Single
<1> DEFINE tb == IF requests[1].body = "LSQ" THEN StateTable[phase] ELSE NoTable
           h == [tag |-> "hand", table |-> tb]
<1>6. wire' = wire \/ wire' = wire \o <<h>>
  BY <1>2 DEF ServeHandshake, Answer
<1>7. h \in Answers /\ h.table = tb
  <2>1. tb \in Tables \cup {NoTable}
    BY <1>1 DEF Tables
  <2> HIDE DEF tb
  <2> QED  BY <2>1 DEF Answers
<1> HIDE DEF h
<1>8. \/ wire' = wire
      \/ \E x \in Answers : wire' = wire \o <<x>> /\ x.table = tb
  BY <1>6, <1>7
<1> QED  BY <1>1, <1>2, <1>4, <1>5, <1>8

-----------------------------------------------------------------------------
(* What is sent has a shape *)
LEMMA SentOne ==
  ASSUME Shape, NEW c \in Calls, c.nonce <= nonce', nonce' \in Nat, nonce <= nonce',
         requests' \in {requests, Append(requests, Request(c))}
  PROVE  /\ requests' \in Seq(Requests) /\ \A i \in DOMAIN requests' : requests'[i].nonce <= nonce'
<1>1. requests \in Seq(Requests) /\ \A i \in DOMAIN requests : requests[i].nonce <= nonce
  BY DEF Shape, OnLink
<1>2. Request(c) \in Requests /\ Request(c).nonce = c.nonce
  BY CallTypes
<1> HIDE DEF Request
<1>3. Append(requests, Request(c)) \in Seq(Requests)
  BY <1>1, <1>2
<1>6. \A i \in DOMAIN requests : requests[i].nonce <= nonce'
  <2>1. nonce \in Nat /\ nonce' \in Nat
    BY DEF Shape, Plain
  <2> QED  BY <2>1, RequestAt
<1>4. CASE requests' = Append(requests, Request(c))
  <2> DEFINE r == Request(c)
  <2> HIDE DEF r
  <2>1. /\ DOMAIN requests' = 1 .. Len(requests) + 1 /\ DOMAIN requests = 1 .. Len(requests)
        /\ Len(requests) \in Nat
        /\ \A i \in DOMAIN requests : requests'[i] = requests[i] /\ requests'[Len(requests) + 1] = r
    BY <1>1, <1>2, <1>4, OneMore DEF r
  <2> QED  BY <2>1, <1>2, <1>3, <1>4, <1>6 DEF r
<1>5. CASE requests' = requests
  BY <1>1, <1>5, <1>6
<1> QED  BY <1>4, <1>5

(* What is on the link keeps its shape. *)
LEMMA OnLinkKept ==
  Shape /\ AllSealed(buffer, wire) /\ Single(requests, wire) /\ [Next]_vars => OnLink'
<1> SUFFICES ASSUME Shape, AllSealed(buffer, wire), Single(requests, wire), [Next]_vars PROVE OnLink'
  OBVIOUS
<1> USE DEF Shape
<1>1. ASSUME ServeHandshake, UNCHANGED loader PROVE OnLink'
  <2>1. requests' = <<>> /\ UNCHANGED <<buffer, nonce>>
    BY <1>1, HandshakeServed DEF ServeHandshake, session
  <2>2. wire' \in Seq(Frames)
    <3>1. CASE wire' = wire
      BY <3>1 DEF OnLink
    <3>2. CASE wire' # wire
      <4>1. PICK h \in Answers : wire' = wire \o <<h>>
        BY <1>1, <3>2, HandshakeServed
      <4> QED  BY <4>1 DEF OnLink, Frames
    <3> QED  BY <3>1, <3>2
  <2> QED  BY <2>1, <2>2 DEF OnLink
<1>2. ASSUME ServeCommand, UNCHANGED loader PROVE OnLink'
  <2>1. UNCHANGED <<buffer, nonce>> /\ requests # <<>>
    BY <1>2 DEF ServeCommand, session
  <2>2. requests' \in Seq(Requests) /\ Fewer(requests', requests)
    BY <1>2, <2>1, CommandServed, FewerTail, FewerNone DEF OnLink
  <2>3. wire' \in Seq(Frames)
    <3>1. CASE wire' = wire
      BY <3>1 DEF OnLink
    <3>2. CASE wire' # wire
      <4>1. PICK f \in Seq(Outputs) : wire' = wire \o f
        BY <1>2, <3>2, CommandServed
      <4> QED  BY <4>1, OutputBehind DEF OnLink
    <3> QED  BY <3>1, <3>2
  <2>4. \A i \in DOMAIN requests' : requests'[i].nonce <= nonce
    BY <2>2, FewerNonces DEF OnLink
  <2> QED  BY <2>1, <2>2, <2>3, <2>4 DEF OnLink
<1>3. ASSUME ReachMenu, UNCHANGED loader PROVE OnLink'
  <2>1. UNCHANGED <<buffer, nonce, wire>> /\ (Unlink \/ requests' = requests)
    BY <1>3 DEF ReachMenu, session
  <2>2. requests' \in Seq(Requests) /\ Fewer(requests', requests)
    BY <2>1, UnlinkFewer, FewerSame DEF OnLink
  <2>3. \A i \in DOMAIN requests' : requests'[i].nonce <= nonce
    BY <2>2, FewerNonces DEF OnLink
  <2> QED  BY <2>1, <2>2, <2>3 DEF OnLink
<1>4. ASSUME LoadCompletes, UNCHANGED loader PROVE OnLink'
  <2>1. UNCHANGED <<link, buffer, nonce>>
    BY <1>4 DEF LoadCompletes, link, session, calls, loader, Fault, nexusVars, Finish, Take
  <2> QED  BY <2>1 DEF OnLink, link
<1>5. ASSUME DropLink, UNCHANGED loader PROVE OnLink'
  <2>1. UNCHANGED <<buffer, nonce>> /\ Unlink /\ wire' \in {wire, <<>>}
    BY <1>5 DEF DropLink, session, calls, loader, Fault, Close
  <2>2. requests' \in Seq(Requests) /\ Fewer(requests', requests)
    BY <2>1, UnlinkFewer DEF OnLink
  <2>3. \A i \in DOMAIN requests' : requests'[i].nonce <= nonce
    BY <2>2, FewerNonces DEF OnLink
  <2>4. wire' \in Seq(Frames)
    BY <2>1, NoneOf DEF OnLink
  <2> QED  BY <2>1, <2>2, <2>3, <2>4 DEF OnLink
<1>6. ASSUME Crash, UNCHANGED loader PROVE OnLink'
  <2>1. UNCHANGED <<buffer, nonce, wire>> /\ requests' = <<>>
    BY <1>6 DEF Crash, session
  <2> QED  BY <2>1 DEF OnLink
<1>7. ASSUME NEW t \in Tasks, TakeLock(t), UNCHANGED loader PROVE OnLink'
  <2> DEFINE c == call'[t]
  <2>1. UNCHANGED <<buffer, nonce, wire>> /\ requests' \in {requests, Append(requests, Request(c))}
    BY <1>7 DEF TakeLock, session, Send
  <2>2. c \in Calls /\ c.nonce <= nonce' /\ nonce' \in Nat /\ nonce <= nonce'
    BY OnCallKept, <2>1 DEF OnCall, Plain
  <2> HIDE DEF c
  <2> QED  BY <2>1, <2>2, SentOne DEF OnLink
<1>8. ASSUME NEW t \in Tasks, ReadOutput(t), UNCHANGED loader PROVE OnLink'
  <2> DEFINE fed == IF Head(wire).tag = "out" THEN buffer \o Head(wire).lines ELSE buffer
             n == call[t].nonce
  <2>1. wire # <<>> /\ wire' = Tail(wire) /\ UNCHANGED <<requests, nonce>>
          /\ buffer' \in {fed, After(n, fed)}
        /\ (buffer' # fed => Complete(n, fed))
    BY <1>8 DEF ReadOutput, NextFrame
  <2>2. fed \in Seq(Lines) /\ Sealed(fed) /\ n \in Nat
    BY <1>8, <2>1, FedWell, CallForms
  <2> HIDE DEF fed, n
  <2>3. buffer' \in Seq(Lines)
    BY <2>1, <2>2, ReadOwn
  <2> QED  BY <2>1, <2>3 DEF OnLink
<1>9. ASSUME NEW t \in Tasks, SkipFrame(t), UNCHANGED loader PROVE OnLink'
  <2>1. UNCHANGED <<nonce, buffer, requests>> /\ wire # <<>> /\ wire' = Tail(wire)
    BY <1>9 DEF SkipFrame, session, NextFrame
  <2> QED  BY <2>1 DEF OnLink
<1>10. ASSUME NEW t \in Tasks, ReadTable(t), UNCHANGED loader PROVE OnLink'
  <2>1. UNCHANGED <<nonce, buffer, requests>> /\ wire # <<>> /\ wire' = Tail(wire)
    BY <1>10 DEF ReadTable, session, NextFrame
  <2> QED  BY <2>1 DEF OnLink
<1>11. ASSUME NEW t \in Tasks, ReadGreeting(t), UNCHANGED loader PROVE OnLink'
  <2> DEFINE c == call'[t]
  <2>1. UNCHANGED <<nonce, buffer>> /\ wire # <<>> /\ wire' = Tail(wire)
          /\ requests' \in {requests, Append(requests, Request(c))}
    BY <1>11 DEF ReadGreeting, session, NextFrame, Send
  <2>2. c \in Calls /\ c.nonce <= nonce' /\ nonce' \in Nat /\ nonce <= nonce'
    BY OnCallKept, <2>1 DEF OnCall, Plain
  <2>3. wire' \in Seq(Frames)
    BY <2>1 DEF OnLink
  <2> HIDE DEF c
  <2> QED  BY <2>1, <2>2, <2>3, SentOne DEF OnLink
<1>12. ASSUME NEW t \in Tasks, CommandTimesOut(t), UNCHANGED loader PROVE OnLink'
  <2>1. UNCHANGED <<link, nonce>> /\ buffer' \in {buffer, <<>>}
    BY <1>12 DEF CommandTimesOut
  <2>2. buffer' \in Seq(Lines)
    BY <2>1, NoneOf DEF OnLink
  <2> QED  BY <2>1, <2>2 DEF OnLink, link
<1>13. ASSUME NEW t \in Tasks, HandshakeTimesOut(t), UNCHANGED loader PROVE OnLink'
  <2>1. UNCHANGED <<buffer, nonce>> /\ Unlink /\ wire' \in {wire, <<>>}
    BY <1>13 DEF HandshakeTimesOut, game, loader, session, Close
  <2>2. requests' \in Seq(Requests) /\ Fewer(requests', requests)
    BY <2>1, UnlinkFewer DEF OnLink
  <2>3. \A i \in DOMAIN requests' : requests'[i].nonce <= nonce
    BY <2>2, FewerNonces DEF OnLink
  <2>4. wire' \in Seq(Frames)
    BY <2>1, NoneOf DEF OnLink
  <2> QED  BY <2>1, <2>2, <2>3, <2>4 DEF OnLink
<1>14. ASSUME NEW t \in Tasks, CommandFindsClosed(t), UNCHANGED loader PROVE OnLink'
  <2>1. UNCHANGED <<link, buffer, nonce>>
    BY <1>14 DEF CommandFindsClosed, game, link, session, loader, calls, nexusVars,
       Finish, Take
  <2> QED  BY <2>1 DEF OnLink, link
<1>15. ASSUME NEW t \in Tasks, HandshakeFindsClosed(t), UNCHANGED loader PROVE OnLink'
  <2>1. UNCHANGED <<buffer, nonce>> /\ Unlink /\ wire' \in {wire, <<>>}
    BY <1>15 DEF HandshakeFindsClosed, game, loader, session, Close
  <2>2. requests' \in Seq(Requests) /\ Fewer(requests', requests)
    BY <2>1, UnlinkFewer DEF OnLink
  <2>3. \A i \in DOMAIN requests' : requests'[i].nonce <= nonce
    BY <2>2, FewerNonces DEF OnLink
  <2>4. wire' \in Seq(Frames)
    BY <2>1, NoneOf DEF OnLink
  <2> QED  BY <2>1, <2>2, <2>3, <2>4 DEF OnLink
<1>16. ASSUME NEW t \in Tasks, DialAccepted(t), UNCHANGED loader PROVE OnLink'
  <2> DEFINE c == call'[t]
  <2>1. UNCHANGED nonce /\ wire' = <<>> /\ buffer' = <<>>
          /\ requests' \in {requests, Append(requests, Request(c))}
    BY <1>16 DEF DialAccepted
  <2>2. c \in Calls /\ c.nonce <= nonce' /\ nonce' \in Nat /\ nonce <= nonce'
    BY OnCallKept, <2>1 DEF OnCall, Plain
  <2> HIDE DEF c
  <2> QED  BY <2>1, <2>2, SentOne DEF OnLink
<1>17. ASSUME NEW t \in Tasks, DialRefused(t), UNCHANGED loader PROVE OnLink'
  <2>1. UNCHANGED <<link, buffer, nonce>>
    BY <1>17 DEF DialRefused, link, session, loader, calls, nexusVars, Finish, Take
  <2> QED  BY <2>1 DEF OnLink, link
<1>18. ASSUME NEW t \in Tasks, Receive(t) PROVE OnLink'
  <2>1. UNCHANGED <<link, buffer, nonce>>
    BY <1>18 DEF Receive, game, link, session, loader, calls, nexusVars, Finish, Take
  <2> QED  BY <2>1 DEF OnLink, link
<1>19. ASSUME NEW t \in Tasks, CancelCall(t) PROVE OnLink'
  <2>1. UNCHANGED <<link, buffer, nonce>>
    BY <1>19 DEF CancelCall, game, link, session, loader, calls, nexusVars, Finish, Take
  <2> QED  BY <2>1 DEF OnLink, link
<1>20. CASE Act
  <2>1. UNCHANGED <<link, buffer>> /\ nonce' \in {nonce, nonce + 1}
    BY <1>20 DEF Act, Execute
  <2>2. \A i \in DOMAIN requests : requests[i].nonce \in Nat /\ requests[i].nonce <= nonce
    BY RequestAt
  <2> QED  BY <2>1, <2>2 DEF OnLink, link, Plain
<1>21. CASE Probe
  <2>1. UNCHANGED <<link, buffer>> /\ nonce' \in {nonce, nonce + 1}
    BY <1>21 DEF Probe, Execute
  <2>2. \A i \in DOMAIN requests : requests[i].nonce \in Nat /\ requests[i].nonce <= nonce
    BY RequestAt
  <2> QED  BY <2>1, <2>2 DEF OnLink, link, Plain
<1>22. CASE BeginLoad
  <2>1. UNCHANGED <<link, buffer, nonce>>
    BY <1>22 DEF BeginLoad, game, link, session, calls, nexusVars, Finish, Take
  <2> QED  BY <2>1 DEF OnLink, link
<1>23. CASE Poll
  <2>1. CASE Reconnect("turn")
    <3>1. UNCHANGED <<buffer, nonce>> /\ Unlink /\ wire' = <<>>
      BY <1>23, <2>1 DEF Reconnect, Close
    <3>2. requests' \in Seq(Requests) /\ Fewer(requests', requests)
      BY <3>1, UnlinkFewer DEF OnLink
    <3>3. \A i \in DOMAIN requests' : requests'[i].nonce <= nonce
      BY <3>2, FewerNonces DEF OnLink
    <3> QED  BY <3>1, <3>2, <3>3 DEF OnLink
  <2>2. CASE Refresh("turn")
    BY <2>2 DEF Refresh, OnLink, link, session
  <2> QED  BY <1>23, <2>1, <2>2 DEF Poll
<1>24. CASE PollReturns
  <2>1. UNCHANGED <<link, buffer, nonce>>
    BY <1>24 DEF PollReturns, Still, game, link, session, calls, nexusVars, Finish, Take
  <2> QED  BY <2>1 DEF OnLink, link
<1>25. CASE Issue
  <2>1. UNCHANGED <<link, buffer>> /\ nonce' \in {nonce, nonce + 1}
    BY <1>25 DEF Issue, Execute
  <2>2. \A i \in DOMAIN requests : requests[i].nonce \in Nat /\ requests[i].nonce <= nonce
    BY RequestAt
  <2> QED  BY <2>1, <2>2 DEF OnLink, link, Plain
<1>26. CASE IssueReturns
  <2>1. UNCHANGED <<link, buffer, nonce>>
    BY <1>26 DEF IssueReturns, Still, game, link, session, calls, nexusVars, Finish, Take
  <2> QED  BY <2>1 DEF OnLink, link
<1>27. CASE Verify
  <2>1. CASE Reconnect("turn")
    <3>1. UNCHANGED <<buffer, nonce>> /\ Unlink /\ wire' = <<>>
      BY <1>27, <2>1 DEF Reconnect, Close
    <3>2. requests' \in Seq(Requests) /\ Fewer(requests', requests)
      BY <3>1, UnlinkFewer DEF OnLink
    <3>3. \A i \in DOMAIN requests' : requests'[i].nonce <= nonce
      BY <3>2, FewerNonces DEF OnLink
    <3> QED  BY <3>1, <3>2, <3>3 DEF OnLink
  <2>2. CASE Execute("turn", "InGame", "verify")
    <3>1. UNCHANGED <<link, buffer>> /\ nonce' \in {nonce, nonce + 1}
      BY <2>2 DEF Execute
    <3>2. \A i \in DOMAIN requests : requests[i].nonce \in Nat /\ requests[i].nonce <= nonce
      BY RequestAt
    <3> QED  BY <3>1, <3>2 DEF OnLink, link, Plain
  <2> QED  BY <1>27, <2>1, <2>2 DEF Verify
<1>28. CASE VerifyReturns
  <2>1. UNCHANGED <<link, buffer, nonce>>
    BY <1>28 DEF VerifyReturns, Still, game, link, session, calls, nexusVars, Finish, Take
  <2> QED  BY <2>1 DEF OnLink, link
<1>29. CASE VerifyExpires
  <2>1. UNCHANGED <<link, buffer, nonce>>
    BY <1>29 DEF VerifyExpires, nexusVars, game, link, session, calls, Finish, Take
  <2> QED  BY <2>1 DEF OnLink, link
<1>30. CASE DeadlinePasses
  <2>1. UNCHANGED <<link, buffer, nonce>>
    BY <1>30 DEF DeadlinePasses, nexusVars, game, link, session, calls, Finish, Take
  <2> QED  BY <2>1 DEF OnLink, link
<1>31. CASE LoseFile
  <2>1. UNCHANGED <<link, buffer, nonce>>
    BY <1>31 DEF LoseFile, link, session, calls, Fault, nexusVars, Finish, Take
  <2> QED  BY <2>1 DEF OnLink, link
<1>32. CASE UNCHANGED vars
  <2>1. UNCHANGED <<link, buffer, nonce>>
    BY <1>32 DEF vars, nexusVars, game, link, session, calls, loader, Finish, Take
  <2> QED  BY <2>1 DEF OnLink, link
<1> QED
  BY <1>1, <1>2, <1>3, <1>4, <1>5, <1>6, <1>7, <1>8, <1>9, <1>10, <1>11, <1>12,
     <1>13, <1>14, <1>15, <1>16, <1>17, <1>18, <1>19, <1>20, <1>21, <1>22, <1>23,
     <1>24, <1>25, <1>26, <1>27, <1>28, <1>29, <1>30, <1>31, <1>32
     DEF Next, GameStep, ClientStep, LoaderStep

-----------------------------------------------------------------------------
(* The lock *)

(* A call that ends lets its lock go. *)
LEMMA FinishLocked ==
  ASSUME Shape, Locked, NEW t \in Tasks, NEW r, call[t].at # "lock", Finish(t, r),
         UNCHANGED ld
  PROVE  Locked'
<1> DEFINE c == [Idle EXCEPT !.nonce = call[t].nonce]
<1>1. /\ call' = [call EXCEPT ![t] = c] /\ got' = [got EXCEPT ![t] = r]
      /\ lock' = (IF lock = t THEN "free" ELSE lock) /\ UNCHANGED <<waiters, ld>>
  BY DEF Finish
<1>2. c.at = "idle"
  BY DEF Idle
<1> HIDE DEF c
<1>3. "free" \notin Tasks /\ call \in [Tasks -> Calls] /\ got \in [Tasks -> Results]
        /\ waiters \in Seq(Tasks)
  BY Bounds DEF Shape, OnCall, OnLock
<1>4. \A i \in DOMAIN waiters : waiters[i] # t /\ waiters[i] \in Tasks
  BY <1>3 DEF Locked
<1> QED  BY <1>1, <1>2, <1>3, <1>4 DEF Locked

(* A call that queues was not queued. *)
LEMMA QueueLocked ==
  ASSUME Shape, Locked, NEW t \in Tasks, NEW c, call[t].at = "idle", c.at = "lock",
         got[t] = Nothing, Queue(t, c), UNCHANGED ld, ld # "off" => t = "turn"
  PROVE  Locked'
<1>1. /\ call' = [call EXCEPT ![t] = c] /\ UNCHANGED <<got, lock, ld>> /\ waiters' = Append(waiters, t)
  BY DEF Queue
<1>2. call \in [Tasks -> Calls] /\ waiters \in Seq(Tasks)
  BY DEF Shape, OnCall, OnLock
<1>3. \A i \in DOMAIN waiters : waiters[i] # t /\ waiters[i] \in Tasks
  BY <1>2 DEF Locked
<1>4. /\ DOMAIN waiters' = 1 .. Len(waiters) + 1 /\ DOMAIN waiters = 1 .. Len(waiters)
           /\ Len(waiters) \in Nat
      /\ \A i \in DOMAIN waiters : waiters'[i] = waiters[i]
      /\ waiters'[Len(waiters) + 1] = t
  BY <1>1, <1>2, OneMore
<1>5. DOMAIN waiters' = DOMAIN waiters \cup {Len(waiters) + 1}
  BY <1>4
<1>6. \A i, j \in DOMAIN waiters' : waiters'[i] = waiters'[j] => i = j
  BY <1>3, <1>4, <1>5 DEF Locked
<1>7. \A i \in DOMAIN waiters' : call'[waiters'[i]].at = "lock"
  BY <1>1, <1>2, <1>3, <1>4, <1>5 DEF Locked
<1>8. /\ \A s \in Tasks : lock' = s <=> call'[s].at \in {"output", "query"}
      /\ \A s \in Tasks : call'[s].at # "idle" => got'[s] = Nothing
      /\ ld' # "off" => \A s \in Tasks \ {"turn"} : call'[s].at = "idle"
  BY <1>1, <1>2 DEF Locked
<1> QED  BY <1>6, <1>7, <1>8 DEF Locked

(* A call that dials or shakes has no part in the lock. *)
LEMMA PutLocked ==
  ASSUME Shape, Locked, NEW t \in Tasks, NEW c, call[t].at \notin {"lock", "output",
         "query"},
         c.at \notin {"idle", "lock", "output", "query"}, got[t] = Nothing, call' = [call EXCEPT ![t] = c],
         got' = got, lock' = lock, waiters' = waiters, ld' = ld, ld # "off" => t = "turn"
  PROVE  Locked'
<1>2. call \in [Tasks -> Calls] /\ waiters \in Seq(Tasks)
  BY DEF Shape, OnCall, OnLock
<1>3. \A i \in DOMAIN waiters : waiters[i] # t /\ waiters[i] \in Tasks
  BY <1>2 DEF Locked
<1> QED  BY <1>2, <1>3 DEF Locked

(* Taking a result leaves the lock alone. *)
LEMMA TakeLocked ==
  ASSUME Shape, Locked, NEW t \in Tasks, call[t].at = "idle", Take(t),
         UNCHANGED <<lock, waiters>>, ld' # "off" => ld # "off"
  PROVE  Locked'
<1> DEFINE c == Idle
<1>1. call' = [call EXCEPT ![t] = c] /\ got' = [got EXCEPT ![t] = Nothing]
  BY DEF Take
<1>2. c.at = "idle"
  BY DEF Idle
<1> HIDE DEF c
<1>3. call \in [Tasks -> Calls] /\ got \in [Tasks -> Results] /\ waiters \in Seq(Tasks)
  BY DEF Shape, OnCall, OnLock
<1>4. \A i \in DOMAIN waiters : waiters[i] # t /\ waiters[i] \in Tasks
  BY <1>3 DEF Locked
<1> QED  BY <1>1, <1>2, <1>3, <1>4 DEF Locked

(* A refused attempt dials again or ends. *)
LEMMA RefusedLocked ==
  ASSUME Shape, Locked, NEW t \in Tasks, call[t].at \in {"dial", "greet", "shake"},
         Refused(t), UNCHANGED ld
  PROVE  Locked'
<1>1. got[t] = Nothing /\ (ld # "off" => t = "turn")
  BY DEF Locked
<1>2. CASE call[t].tries + 1 < ReconnectMax
  <2> DEFINE c == [call[t] EXCEPT !.at = "dial", !.body = "APP", !.tries = call[t].tries + 1]
  <2>1. call' = [call EXCEPT ![t] = c] /\ UNCHANGED <<lock, waiters, got>>
    BY <1>2 DEF Refused
  <2>2. c.at = "dial"
    <3>1. call[t] \in Calls
      BY DEF Shape, OnCall
    <3> QED  BY <3>1 DEF Calls
  <2> HIDE DEF c
  <2> QED  BY <2>1, <2>2, <1>1, PutLocked
<1>3. CASE ~(call[t].tries + 1 < ReconnectMax)
  BY <1>3, FinishLocked DEF Refused
<1> QED  BY <1>2, <1>3

(* execute_command queues or is refused. *)
LEMMA ExecuteLocked ==
  ASSUME Shape, Locked, NEW t \in Tasks, NEW name, NEW body, got[t] = Nothing,
         Execute(t, name, body),
         UNCHANGED ld, ld # "off" => t = "turn"
  PROVE  Locked'
<1>1. call[t].at = "idle"
  BY DEF Execute
<1>2. CASE writer /\ name \in DOMAIN table
  <2> DEFINE c == [Idle EXCEPT !.at = "lock", !.nonce = nonce + 1, !.aim = name,
                               !.body = body, !.index = table[name]]
  <2>1. Queue(t, c)
    BY <1>2 DEF Execute
  <2>2. c.at = "lock"
    BY DEF Idle
  <2> HIDE DEF c
  <2> QED  BY <1>1, <2>1, <2>2, QueueLocked
<1>3. CASE ~(writer /\ name \in DOMAIN table)
  BY <1>1, <1>3, FinishLocked DEF Execute
<1> QED  BY <1>2, <1>3

(* refresh_state_indices queues or is refused. *)
LEMMA RefreshLocked ==
  ASSUME Shape, Locked, NEW t \in Tasks, got[t] = Nothing, Refresh(t), UNCHANGED ld,
         ld # "off" => t = "turn"
  PROVE  Locked'
<1>1. call[t].at = "idle"
  BY DEF Refresh
<1>2. CASE writer
  <2> DEFINE c == [Idle EXCEPT !.at = "lock", !.body = "LSQ"]
  <2>1. Queue(t, c)
    BY <1>2 DEF Refresh
  <2>2. c.at = "lock"
    BY DEF Idle
  <2> HIDE DEF c
  <2> QED  BY <1>1, <2>1, <2>2, QueueLocked
<1>3. CASE ~writer
  BY <1>1, <1>3, FinishLocked DEF Refresh
<1> QED  BY <1>2, <1>3

(* reconnect does not ask for the lock. *)
LEMMA ReconnectLocked ==
  ASSUME Shape, Locked, NEW t \in Tasks, got[t] = Nothing, Reconnect(t), UNCHANGED ld,
         ld # "off" => t = "turn"
  PROVE  Locked'
<1> DEFINE c == [Idle EXCEPT !.at = "dial", !.body = "APP"]
<1>1. call[t].at = "idle" /\ call' = [call EXCEPT ![t] = c] /\ UNCHANGED <<lock, waiters, got>>
  BY DEF Reconnect
<1>2. c.at = "dial"
  BY DEF Idle
<1> HIDE DEF c
<1> QED  BY <1>1, <1>2, PutLocked

(* A task's call is a call. *)
LEMMA CallAt ==
  ASSUME Shape, NEW t \in Tasks
  PROVE  call[t] \in Calls
BY DEF Shape, OnCall

(* One task reads, and it holds the lock. *)
LEMMA LockedKept ==
  Shape /\ Locked /\ [Next]_vars => Locked'
<1> SUFFICES ASSUME Shape, Locked, [Next]_vars PROVE Locked'
  OBVIOUS
<1> USE DEF Shape
<1>1. ASSUME ServeHandshake, UNCHANGED loader PROVE Locked'
  <2>1. UNCHANGED <<lock, waiters, call, got, ld>>
    BY <1>1 DEF ServeHandshake, Answer, game, session, calls, loader, nexusVars, Retry
  <2> QED  BY <2>1 DEF Locked
<1>2. ASSUME ServeCommand, UNCHANGED loader PROVE Locked'
  <2>1. UNCHANGED <<lock, waiters, call, got, ld>>
    BY <1>2 DEF ServeCommand, Answer, session, calls, loader, Fault, nexusVars, Retry
  <2> QED  BY <2>1 DEF Locked
<1>3. ASSUME ReachMenu, UNCHANGED loader PROVE Locked'
  <2>1. UNCHANGED <<lock, waiters, call, got, ld>>
    BY <1>3 DEF ReachMenu, session, calls, loader, nexusVars, Retry
  <2> QED  BY <2>1 DEF Locked
<1>4. ASSUME LoadCompletes, UNCHANGED loader PROVE Locked'
  <2>1. UNCHANGED <<lock, waiters, call, got, ld>>
    BY <1>4 DEF LoadCompletes, link, session, calls, loader, Fault, nexusVars, Retry
  <2> QED  BY <2>1 DEF Locked
<1>5. ASSUME DropLink, UNCHANGED loader PROVE Locked'
  <2>1. UNCHANGED <<lock, waiters, call, got, ld>>
    BY <1>5 DEF DropLink, session, calls, loader, Fault, nexusVars, Retry
  <2> QED  BY <2>1 DEF Locked
<1>6. ASSUME Crash, UNCHANGED loader PROVE Locked'
  <2>1. UNCHANGED <<lock, waiters, call, got, ld>>
    BY <1>6 DEF Crash, session, calls, loader, Fault, nexusVars, Retry
  <2> QED  BY <2>1 DEF Locked
<1>7. ASSUME NEW t \in Tasks, TakeLock(t), UNCHANGED loader PROVE Locked'
  <2> DEFINE c == [call[t] EXCEPT !.at = IF call[t].body = "LSQ" THEN "query" ELSE "output"]
  <2>1. /\ lock = "free" /\ waiters # <<>> /\ Head(waiters) = t /\ lock' = t /\ waiters' = Tail(waiters)
        /\ call' = [call EXCEPT ![t] = c] /\ UNCHANGED <<got, ld>>
    BY <1>7 DEF TakeLock, loader
  <2>2. c.at \in {"query", "output"}
    BY CallAt DEF Calls
  <2> HIDE DEF c
  <2>3. /\ 1 \in DOMAIN waiters /\ waiters[1] = t
        /\ \A i \in DOMAIN waiters' : i + 1 \in DOMAIN waiters /\ waiters'[i] = waiters[i + 1] /\ i \in Nat /\ i # 0
    BY <2>1, Shorter DEF OnLock
  <2>4. \A i \in DOMAIN waiters' : waiters'[i] # t /\ waiters'[i] \in Tasks
    <3>1. ASSUME NEW i \in DOMAIN waiters' PROVE i + 1 # 1
      BY <2>3
    <3>2. \A i \in DOMAIN waiters : waiters[i] \in Tasks
      BY DEF OnLock
    <3> QED  BY <2>3, <3>1, <3>2 DEF Locked
  <2>5. call[t].at = "lock" /\ call \in [Tasks -> Calls] /\ "free" \notin Tasks
    BY <2>3, Bounds DEF Locked, OnCall
  <2>6. \A i, j \in DOMAIN waiters' : waiters'[i] = waiters'[j] => i = j
    <3>1. SUFFICES ASSUME NEW i \in DOMAIN waiters', NEW j \in DOMAIN waiters', waiters'[i] = waiters'[j]
                   PROVE  i = j
      OBVIOUS
    <3>2. i + 1 = j + 1 /\ i \in Nat /\ j \in Nat
      BY <2>3, <3>1 DEF Locked
    <3> QED  BY <3>2
  <2>7. \A i \in DOMAIN waiters' : call'[waiters'[i]].at = "lock"
    BY <2>1, <2>3, <2>4, <2>5 DEF Locked
  <2>8. /\ \A s \in Tasks : lock' = s <=> call'[s].at \in {"output", "query"}
        /\ \A s \in Tasks : call'[s].at # "idle" => got'[s] = Nothing
        /\ ld' # "off" => \A s \in Tasks \ {"turn"} : call'[s].at = "idle"
    BY <2>1, <2>2, <2>5 DEF Locked
  <2> QED  BY <2>6, <2>7, <2>8 DEF Locked
<1>8. ASSUME NEW t \in Tasks, ReadOutput(t), UNCHANGED loader PROVE Locked'
  <2> DEFINE fed == IF Head(wire).tag = "out" THEN buffer \o Head(wire).lines ELSE buffer
             r == Parsed(Body(call[t].nonce, fed))
  <2>1. (Finish(t, r) \/ UNCHANGED calls) /\ UNCHANGED ld /\ call[t].at = "output"
    BY <1>8, Zenon DEF ReadOutput, loader
  <2> HIDE DEF r
  <2>2. CASE Finish(t, r)
    BY <2>1, <2>2, FinishLocked
  <2>3. CASE UNCHANGED calls
    BY <2>1, <2>3 DEF Locked, calls
  <2> QED  BY <2>1, <2>2, <2>3
<1>9. ASSUME NEW t \in Tasks, SkipFrame(t), UNCHANGED loader PROVE Locked'
  <2>1. UNCHANGED <<lock, waiters, call, got, ld>>
    BY <1>9 DEF SkipFrame, game, session, calls, loader, NextFrame, nexusVars, Retry
  <2> QED  BY <2>1 DEF Locked
<1>10. ASSUME NEW t \in Tasks, ReadTable(t), UNCHANGED loader PROVE Locked'
  <2>1. Finish(t, Ended("table")) /\ UNCHANGED ld /\ call[t].at # "lock"
    BY <1>10 DEF ReadTable, loader
  <2> QED  BY <2>1, FinishLocked
<1>11. ASSUME NEW t \in Tasks, ReadGreeting(t), UNCHANGED loader PROVE Locked'
  <2> DEFINE c == [call[t] EXCEPT !.at = "shake", !.body = "LSQ"]
  <2>1. /\ call' = [call EXCEPT ![t] = c] /\ UNCHANGED <<got, lock, waiters, ld>>
        /\ call[t].at \in {"dial", "greet"}
    BY <1>11 DEF ReadGreeting, loader
  <2>2. c.at = "shake"
    BY CallAt DEF Calls
  <2>3. got[t] = Nothing /\ (ld # "off" => t = "turn")
    BY <2>1 DEF Locked
  <2> HIDE DEF c
  <2> QED  BY <2>1, <2>2, <2>3, PutLocked
<1>12. ASSUME NEW t \in Tasks, CommandTimesOut(t), UNCHANGED loader PROVE Locked'
  <2>1. Finish(t, Ended("timeout")) /\ UNCHANGED ld /\ call[t].at # "lock"
    BY <1>12 DEF CommandTimesOut, loader
  <2> QED  BY <2>1, FinishLocked
<1>13. ASSUME NEW t \in Tasks, HandshakeTimesOut(t), UNCHANGED loader PROVE Locked'
  <2>1. Finish(t, Ended("timeout")) /\ UNCHANGED ld /\ call[t].at # "lock"
    BY <1>13 DEF HandshakeTimesOut, loader
  <2> QED  BY <2>1, FinishLocked
<1>14. ASSUME NEW t \in Tasks, CommandFindsClosed(t), UNCHANGED loader PROVE Locked'
  <2>1. Finish(t, Ended("closed")) /\ UNCHANGED ld /\ call[t].at # "lock"
    BY <1>14 DEF CommandFindsClosed, loader
  <2> QED  BY <2>1, FinishLocked
<1>15. ASSUME NEW t \in Tasks, HandshakeFindsClosed(t), UNCHANGED loader PROVE Locked'
  BY <1>15, RefusedLocked DEF HandshakeFindsClosed, loader
<1>16. ASSUME NEW t \in Tasks, DialAccepted(t), UNCHANGED loader PROVE Locked'
  <2> DEFINE c == [call[t] EXCEPT !.at = "greet"]
  <2>1. /\ call' = [call EXCEPT ![t] = c] /\ UNCHANGED <<got, lock, waiters, ld>>
        /\ call[t].at \in {"dial", "greet"}
    BY <1>16 DEF DialAccepted, loader
  <2>2. c.at = "greet"
    BY CallAt DEF Calls
  <2>3. got[t] = Nothing /\ (ld # "off" => t = "turn")
    BY <2>1 DEF Locked
  <2> HIDE DEF c
  <2> QED  BY <2>1, <2>2, <2>3, PutLocked
<1>17. ASSUME NEW t \in Tasks, DialRefused(t), UNCHANGED loader PROVE Locked'
  BY <1>17, RefusedLocked DEF DialRefused, loader
<1>18. ASSUME NEW t \in Tasks, Receive(t) PROVE Locked'
  BY <1>18, TakeLocked DEF Receive, loader
<1>19. ASSUME NEW t \in Tasks, CancelCall(t) PROVE Locked'
  <2> DEFINE c == Idle
  <2>1. /\ call' = [call EXCEPT ![t] = c] /\ got' = [got EXCEPT ![t] = Nothing]
        /\ lock' = (IF lock = t THEN "free" ELSE lock) /\ waiters' = Without(waiters, t) /\ UNCHANGED ld
    BY <1>19 DEF CancelCall, Cancel, loader
  <2>2. c.at = "idle"
    BY DEF Idle
  <2> HIDE DEF c
  <2>3. /\ waiters \in Seq(Tasks) /\ call \in [Tasks -> Calls] /\ got \in [Tasks -> Results]
             /\ "free" \notin Tasks
        /\ \A i \in DOMAIN waiters : waiters[i] \in Tasks
    BY Bounds DEF OnLock, OnCall
  <2>4. /\ \A k \in DOMAIN waiters' : \E j \in DOMAIN waiters : waiters'[k] = waiters[j]
        /\ \A i, j \in DOMAIN waiters' : waiters'[i] = waiters'[j] => i = j
        /\ \A k \in DOMAIN waiters' : waiters'[k] # t
    BY <2>1, <2>3, Left DEF Locked
  <2>5. \A k \in DOMAIN waiters' : call'[waiters'[k]].at = "lock"
    BY <2>1, <2>3, <2>4 DEF Locked
  <2>6. /\ \A s \in Tasks : lock' = s <=> call'[s].at \in {"output", "query"}
        /\ \A s \in Tasks : call'[s].at # "idle" => got'[s] = Nothing
        /\ ld' # "off" => \A s \in Tasks \ {"turn"} : call'[s].at = "idle"
    BY <2>1, <2>2, <2>3 DEF Locked
  <2> QED  BY <2>4, <2>5, <2>6 DEF Locked
<1>20. CASE Act
  <2>1. Execute("turn", "InGame", "act") /\ got["turn"] = Nothing /\ UNCHANGED ld
    BY <1>20 DEF Act, loader
  <2> QED  BY <2>1, Bounds, ExecuteLocked
<1>21. CASE Probe
  <2>1. Execute("watch", "GameCore_Tuner", "probe") /\ got["watch"] = Nothing /\ UNCHANGED ld
          /\ ld = "off"
    BY <1>21 DEF Probe, loader
  <2> QED  BY <2>1, Bounds, ExecuteLocked
<1>22. CASE BeginLoad
  <2> DEFINE c == Idle
  <2>1. /\ \A t \in Tasks : call[t].at = "idle" /\ call'[t] = c
        /\ UNCHANGED <<lock, waiters>>
    BY <1>22 DEF BeginLoad
  <2>2. c.at = "idle"
    BY DEF Idle
  <2> HIDE DEF c
  <2>3. \A i \in DOMAIN waiters : waiters[i] \in Tasks
    BY DEF OnLock
  <2>4. DOMAIN waiters = {}
    BY <2>1, <2>3 DEF Locked
  <2> QED  BY <2>1, <2>2, <2>4 DEF Locked
<1>23. CASE Poll
  <2>1. got["turn"] = Nothing /\ UNCHANGED ld
    BY <1>23 DEF Poll, Free, loader
  <2>2. Reconnect("turn") \/ Refresh("turn")
    BY <1>23 DEF Poll
  <2> QED  BY <2>1, <2>2, Bounds, ReconnectLocked, RefreshLocked
<1>24. CASE PollReturns
  <2>1. Take("turn") /\ call["turn"].at = "idle" /\ UNCHANGED <<lock, waiters>> /\ ld # "off"
    BY <1>24 DEF PollReturns, Returned, Still, Waits
  <2> QED  BY <2>1, Bounds, TakeLocked
<1>25. CASE Issue
  <2>1. got["turn"] = Nothing /\ UNCHANGED ld
    BY <1>25 DEF Issue, Free, loader
  <2>2. CASE Execute("turn", "InGame", "exit")
    BY <2>1, <2>2, Bounds, ExecuteLocked
  <2>3. CASE Execute("turn", "MainMenu", "load")
    BY <2>1, <2>3, Bounds, ExecuteLocked
  <2> QED  BY <1>25, <2>2, <2>3, IssueIs
<1>26. CASE IssueReturns
  <2>1. Take("turn") /\ call["turn"].at = "idle" /\ UNCHANGED <<lock, waiters>> /\ ld # "off"
    BY <1>26 DEF IssueReturns, Returned, Still, Waits
  <2> QED  BY <2>1, Bounds, TakeLocked
<1>27. CASE Verify
  <2>1. got["turn"] = Nothing /\ UNCHANGED ld
    BY <1>27 DEF Verify, Free, loader
  <2>2. Reconnect("turn") \/ Execute("turn", "InGame", "verify")
    BY <1>27 DEF Verify
  <2> QED  BY <2>1, <2>2, Bounds, ReconnectLocked, ExecuteLocked
<1>28. CASE VerifyReturns
  <2>1. Take("turn") /\ call["turn"].at = "idle" /\ UNCHANGED <<lock, waiters>> /\ ld # "off"
    BY <1>28 DEF VerifyReturns, Returned, Still, Waits
  <2> QED  BY <2>1, Bounds, TakeLocked
<1>29. CASE VerifyExpires
  <2>1. UNCHANGED <<lock, waiters, call, got>> /\ ld # "off"
    BY <1>29 DEF VerifyExpires, Retry, nexusVars, calls
  <2> QED  BY <2>1 DEF Locked
<1>30. CASE DeadlinePasses
  <2>1. UNCHANGED <<lock, waiters, call, got, ld>>
    BY <1>30 DEF DeadlinePasses, nexusVars, game, link, session, calls, Retry
  <2> QED  BY <2>1 DEF Locked
<1>31. CASE LoseFile
  <2>1. UNCHANGED <<lock, waiters, call, got, ld>>
    BY <1>31 DEF LoseFile, link, session, calls, Fault, nexusVars, Retry
  <2> QED  BY <2>1 DEF Locked
<1>32. CASE UNCHANGED vars
  <2>1. UNCHANGED <<lock, waiters, call, got, ld>>
    BY <1>32 DEF vars, nexusVars, game, link, session, calls, loader, Retry
  <2> QED  BY <2>1 DEF Locked
<1> QED
  BY <1>1, <1>2, <1>3, <1>4, <1>5, <1>6, <1>7, <1>8, <1>9, <1>10, <1>11, <1>12,
     <1>13, <1>14, <1>15, <1>16, <1>17, <1>18, <1>19, <1>20, <1>21, <1>22, <1>23,
     <1>24, <1>25, <1>26, <1>27, <1>28, <1>29, <1>30, <1>31, <1>32
     DEF Next, GameStep, ClientStep, LoaderStep

-----------------------------------------------------------------------------
(* The connection *)

(* Handshakes and state queries are the loader's: no other call is under way then. *)
LEMMA Alone ==
  ASSUME Locked, Stage, NEW t \in Tasks, call[t].at \in {"dial", "greet", "shake", "query"}
  PROVE  t = "turn" /\ ld # "off" /\ \A s \in Tasks \ {"turn"} : call[s].at = "idle"
<1>1. ld # "off"
  BY DEF Stage, OffStage
<1> QED  BY <1>1 DEF Locked

(* A call that ends asks nothing of the link. *)
LEMMA FinishLinked ==
  ASSUME Shape, Linked, NEW t \in Tasks, NEW r, Finish(t, r), UNCHANGED <<writer, table>>
  PROVE  Linked'
<1> DEFINE c == [Idle EXCEPT !.nonce = call[t].nonce]
<1>1. call' = [call EXCEPT ![t] = c] /\ call \in [Tasks -> Calls]
  BY DEF Finish, Shape, OnCall
<1>2. c.at = "idle"
  BY DEF Idle
<1> HIDE DEF c
<1> QED  BY <1>1, <1>2 DEF Linked

(* A call that goes on or ends, with the connection as it was. *)
LEMMA PutLinked ==
  ASSUME Shape, Linked, NEW t \in Tasks, NEW c, call' = [call EXCEPT ![t] = c],
         writer' = writer, table' = table,
         c.at = "idle" \/ (c.at \in {"lock", "output", "query"} /\ writer)
           \/ (c.at = "shake" /\ call[t].at = "greet")
  PROVE  Linked'
<1>1. call \in [Tasks -> Calls]
  BY DEF Shape, OnCall
<1> QED  BY <1>1 DEF Linked

(* The connection is closed by the only call there is. *)
LEMMA CloseLinked ==
  ASSUME Shape, Linked, Locked, ld # "off", writer' = FALSE, table' = NoTable, NEW c,
         call' = [call EXCEPT !["turn"] = c], c.at \in {"idle", "dial"}
  PROVE  Linked'
<1>1. call \in [Tasks -> Calls] /\ "turn" \in Tasks
  BY Bounds DEF Shape, OnCall
<1>2. \A s \in Tasks \ {"turn"} : call'[s].at = "idle"
  BY <1>1 DEF Locked
<1>3. call'["turn"].at \in {"idle", "dial"}
  BY <1>1
<1> QED  BY <1>2, <1>3 DEF Linked

(* A refused attempt, as the call and result it leaves. *)
LEMMA RefusedIs ==
  ASSUME Shape, NEW t \in Tasks, Refused(t)
  PROVE  \E c : /\ call' = [call EXCEPT ![t] = c] /\ c.nonce = call[t].nonce
                /\ \/ c.at = "dial" /\ c.body = "APP" /\ UNCHANGED <<lock, waiters, got>>
                   \/ c.at = "idle" /\ got' = [got EXCEPT ![t] = Ended("refused")]
<1>1. CASE call[t].tries + 1 < ReconnectMax
  <2> DEFINE c == [call[t] EXCEPT !.at = "dial", !.body = "APP", !.tries = call[t].tries + 1]
  <2>1. call' = [call EXCEPT ![t] = c] /\ UNCHANGED <<lock, waiters, got>>
    BY <1>1 DEF Refused
  <2>2. c.at = "dial" /\ c.body = "APP" /\ c.nonce = call[t].nonce
    BY CallAt DEF Calls
  <2> HIDE DEF c
  <2> QED  BY <2>1, <2>2
<1>2. CASE ~(call[t].tries + 1 < ReconnectMax)
  <2> DEFINE c == [Idle EXCEPT !.nonce = call[t].nonce]
  <2>1. call' = [call EXCEPT ![t] = c] /\ got' = [got EXCEPT ![t] = Ended("refused")]
    BY <1>2 DEF Refused, Finish
  <2>2. c.at = "idle" /\ c.nonce = call[t].nonce
    BY DEF Idle
  <2> HIDE DEF c
  <2> QED  BY <2>1, <2>2
<1> QED  BY <1>1, <1>2

(* Finish, as the call and result it leaves. *)
LEMMA FinishIs ==
  ASSUME Shape, NEW t \in Tasks, NEW r, Finish(t, r)
  PROVE  \E c : /\ call' = [call EXCEPT ![t] = c] /\ c.nonce = call[t].nonce /\ c.at = "idle"
                /\ got' = [got EXCEPT ![t] = r]
<1> DEFINE c == [Idle EXCEPT !.nonce = call[t].nonce]
<1>1. call' = [call EXCEPT ![t] = c] /\ got' = [got EXCEPT ![t] = r]
  BY DEF Finish
<1>2. c.at = "idle" /\ c.nonce = call[t].nonce
  BY DEF Idle
<1> HIDE DEF c
<1> QED  BY <1>1, <1>2

(* execute_command, as the call and result it leaves. *)
LEMMA ExecuteIs ==
  ASSUME Shape, NEW t \in Tasks, NEW name, NEW body \in Bodies, Execute(t, name, body)
  PROVE  \E c : /\ call' = [call EXCEPT ![t] = c]
                /\ \/ /\ writer /\ name \in DOMAIN table /\ c.at = "lock" /\ c.nonce = nonce + 1
                           /\ c.aim = name
                      /\ c.body = body /\ c.index = table[name] /\ nonce' = nonce + 1 /\ UNCHANGED got
                   \/ /\ c.at = "idle" /\ nonce' = nonce
                           /\ got' = [got EXCEPT ![t] = Ended("unresolved")]
                      /\ ~(writer /\ name \in DOMAIN table)
<1>1. CASE writer /\ name \in DOMAIN table
  <2> DEFINE c == [Idle EXCEPT !.at = "lock", !.nonce = nonce + 1, !.aim = name,
                               !.body = body, !.index = table[name]]
  <2>1. call' = [call EXCEPT ![t] = c] /\ UNCHANGED got /\ nonce' = nonce + 1
    BY <1>1 DEF Execute, Queue
  <2>2. c.at = "lock" /\ c.nonce = nonce + 1 /\ c.aim = name /\ c.body = body /\ c.index = table[name]
    BY DEF Idle
  <2> HIDE DEF c
  <2> QED  BY <1>1, <2>1, <2>2
<1>2. CASE ~(writer /\ name \in DOMAIN table)
  <2>1. Finish(t, Ended("unresolved")) /\ nonce' = nonce
    BY <1>2 DEF Execute
  <2> QED  BY <1>2, <2>1, FinishIs
<1> QED  BY <1>1, <1>2

(* refresh_state_indices, as the call and result it leaves. *)
LEMMA RefreshIs ==
  ASSUME Shape, NEW t \in Tasks, Refresh(t)
  PROVE  \E c : /\ call' = [call EXCEPT ![t] = c]
                /\ \/ c.at = "lock" /\ c.body = "LSQ" /\ writer /\ UNCHANGED got
                   \/ c.at = "idle" /\ ~writer /\ got' = [got EXCEPT ![t] = Ended("unresolved")]
<1>1. CASE writer
  <2> DEFINE c == [Idle EXCEPT !.at = "lock", !.body = "LSQ"]
  <2>1. call' = [call EXCEPT ![t] = c] /\ UNCHANGED got
    BY <1>1 DEF Refresh, Queue
  <2>2. c.at = "lock" /\ c.body = "LSQ"
    BY DEF Idle
  <2> HIDE DEF c
  <2> QED  BY <1>1, <2>1, <2>2
<1>2. CASE ~writer
  <2>1. Finish(t, Ended("unresolved"))
    BY <1>2 DEF Refresh
  <2> QED  BY <1>2, <2>1, FinishIs
<1> QED  BY <1>1, <1>2

(* reconnect, as the call it leaves. *)
LEMMA ReconnectIs ==
  ASSUME Shape, NEW t \in Tasks, Reconnect(t)
  PROVE  \E c : /\ call' = [call EXCEPT ![t] = c] /\ c.at = "dial" /\ c.body = "APP" /\ c.nonce = 0
                /\ UNCHANGED got
<1> DEFINE c == [Idle EXCEPT !.at = "dial", !.body = "APP"]
<1>1. call' = [call EXCEPT ![t] = c] /\ UNCHANGED got
  BY DEF Reconnect
<1>2. c.at = "dial" /\ c.body = "APP" /\ c.nonce = 0
  BY DEF Idle
<1> HIDE DEF c
<1> QED  BY <1>1, <1>2

(* Taking a result, as the call and result it leaves. *)
LEMMA TakeIs ==
  ASSUME NEW t \in Tasks, Take(t)
  PROVE  \E c : /\ call' = [call EXCEPT ![t] = c] /\ c.at = "idle" /\ c.nonce = 0
                /\ got' = [got EXCEPT ![t] = Nothing]
<1> DEFINE c == Idle
<1>1. call' = [call EXCEPT ![t] = c] /\ got' = [got EXCEPT ![t] = Nothing]
  BY DEF Take
<1>2. c.at = "idle" /\ c.nonce = 0
  BY DEF Idle
<1> HIDE DEF c
<1> QED  BY <1>1, <1>2

(* A step of a call under way to another place in it. *)
LEMMA MoveIs ==
  ASSUME Shape, NEW t \in Tasks
  PROVE  /\ TakeLock(t) =>
              \E c : /\ call' = [call EXCEPT ![t] = c] /\ c.nonce = call[t].nonce /\ c.aim = call[t].aim
                     /\ c.body = call[t].body /\ c.index = call[t].index
                     /\ c.at = (IF call[t].body = "LSQ" THEN "query" ELSE "output")
         /\ ReadGreeting(t) =>
              \E c : /\ call' = [call EXCEPT ![t] = c] /\ c.nonce = call[t].nonce
                     /\ c.body = "LSQ" /\ c.at = "shake"
         /\ DialAccepted(t) =>
              \E c : /\ call' = [call EXCEPT ![t] = c] /\ c.nonce = call[t].nonce
                     /\ c.body = call[t].body /\ c.at = "greet"
<1>1. ASSUME TakeLock(t)
      PROVE  \E c : /\ call' = [call EXCEPT ![t] = c] /\ c.nonce = call[t].nonce /\ c.aim = call[t].aim
                    /\ c.body = call[t].body /\ c.index = call[t].index
                    /\ c.at = (IF call[t].body = "LSQ" THEN "query" ELSE "output")
  <2> DEFINE c == [call[t] EXCEPT !.at = IF call[t].body = "LSQ" THEN "query" ELSE "output"]
  <2>1. call' = [call EXCEPT ![t] = c]
    BY <1>1 DEF TakeLock
  <2>2. /\ c.nonce = call[t].nonce /\ c.aim = call[t].aim
        /\ c.body = call[t].body /\ c.index = call[t].index
        /\ c.at = (IF call[t].body = "LSQ" THEN "query" ELSE "output")
    BY CallAt DEF Calls
  <2> HIDE DEF c
  <2> QED  BY <2>1, <2>2
<1>2. ASSUME ReadGreeting(t)
      PROVE  \E c : /\ call' = [call EXCEPT ![t] = c] /\ c.nonce = call[t].nonce
                    /\ c.body = "LSQ" /\ c.at = "shake"
  <2> DEFINE c == [call[t] EXCEPT !.at = "shake", !.body = "LSQ"]
  <2>1. call' = [call EXCEPT ![t] = c]
    BY <1>2 DEF ReadGreeting
  <2>2. c.nonce = call[t].nonce /\ c.body = "LSQ" /\ c.at = "shake"
    BY CallAt DEF Calls
  <2> HIDE DEF c
  <2> QED  BY <2>1, <2>2
<1>3. ASSUME DialAccepted(t)
      PROVE  \E c : /\ call' = [call EXCEPT ![t] = c] /\ c.nonce = call[t].nonce
                    /\ c.body = call[t].body /\ c.at = "greet"
  <2> DEFINE c == [call[t] EXCEPT !.at = "greet"]
  <2>1. call' = [call EXCEPT ![t] = c]
    BY <1>3 DEF DialAccepted
  <2>2. c.nonce = call[t].nonce /\ c.body = call[t].body /\ c.at = "greet"
    BY CallAt DEF Calls
  <2> HIDE DEF c
  <2> QED  BY <2>1, <2>2
<1> QED  BY <1>1, <1>2, <1>3

(* execute_command needs a link, and uses the table it has. *)
LEMMA ExecuteLinked ==
  ASSUME Shape, Linked, NEW t \in Tasks, NEW name, NEW body \in Bodies,
         Execute(t, name, body)
  PROVE  Linked'
<1>1. PICK c : call' = [call EXCEPT ![t] = c] /\ (c.at = "idle" \/ (c.at = "lock" /\ writer))
  BY ExecuteIs
<1>2. UNCHANGED <<writer, table>>
  BY DEF Execute
<1> QED  BY <1>1, <1>2, PutLinked

(* A call on the link needs a link; a table does not outlive it. *)
LEMMA LinkedKept ==
  Shape /\ Locked /\ Linked /\ Stage /\ [Next]_vars => Linked'
<1> SUFFICES ASSUME Shape, Locked, Linked, Stage, [Next]_vars PROVE Linked'
  OBVIOUS
<1> USE DEF Shape
<1>1. ASSUME ServeHandshake, UNCHANGED loader PROVE Linked'
  <2>1. UNCHANGED <<call, writer, table>>
    BY <1>1 DEF ServeHandshake, Answer, game, session, calls, loader, nexusVars
  <2> QED  BY <2>1 DEF Linked
<1>2. ASSUME ServeCommand, UNCHANGED loader PROVE Linked'
  <2>1. UNCHANGED <<call, writer, table>>
    BY <1>2 DEF ServeCommand, Answer, session, calls, loader, Fault, nexusVars
  <2> QED  BY <2>1 DEF Linked
<1>3. ASSUME ReachMenu, UNCHANGED loader PROVE Linked'
  <2>1. UNCHANGED <<call, writer, table>>
    BY <1>3 DEF ReachMenu, session, calls, loader, nexusVars
  <2> QED  BY <2>1 DEF Linked
<1>4. ASSUME LoadCompletes, UNCHANGED loader PROVE Linked'
  <2>1. UNCHANGED <<call, writer, table>>
    BY <1>4 DEF LoadCompletes, link, session, calls, loader, Fault, nexusVars
  <2> QED  BY <2>1 DEF Linked
<1>5. ASSUME DropLink, UNCHANGED loader PROVE Linked'
  <2>1. UNCHANGED <<call, writer, table>>
    BY <1>5 DEF DropLink, session, calls, loader, Fault, nexusVars
  <2> QED  BY <2>1 DEF Linked
<1>6. ASSUME Crash, UNCHANGED loader PROVE Linked'
  <2>1. UNCHANGED <<call, writer, table>>
    BY <1>6 DEF Crash, session, calls, loader, Fault, nexusVars
  <2> QED  BY <2>1 DEF Linked
<1>7. ASSUME NEW t \in Tasks, TakeLock(t), UNCHANGED loader PROVE Linked'
  <2>1. waiters # <<>> /\ Head(waiters) = t /\ UNCHANGED <<writer, table>>
    BY <1>7 DEF TakeLock, session
  <2>2. PICK c : call' = [call EXCEPT ![t] = c] /\ c.at \in {"query", "output"}
    BY <1>7, MoveIs
  <2>3. call[t].at = "lock"
    BY <2>1, Shorter DEF OnLock, Locked
  <2>4. writer
    BY <2>3 DEF Linked
  <2> QED  BY <2>1, <2>2, <2>4, PutLinked
<1>8. ASSUME NEW t \in Tasks, ReadOutput(t), UNCHANGED loader PROVE Linked'
  <2> DEFINE fed == IF Head(wire).tag = "out" THEN buffer \o Head(wire).lines ELSE buffer
             r == Parsed(Body(call[t].nonce, fed))
  <2>1. (Finish(t, r) \/ UNCHANGED calls) /\ UNCHANGED <<writer, table>>
    BY <1>8, Zenon DEF ReadOutput, loader
  <2> HIDE DEF r
  <2>2. CASE Finish(t, r)
    BY <2>1, <2>2, FinishLinked
  <2>3. CASE UNCHANGED calls
    BY <2>1, <2>3 DEF Linked, calls
  <2> QED  BY <2>1, <2>2, <2>3
<1>9. ASSUME NEW t \in Tasks, SkipFrame(t), UNCHANGED loader PROVE Linked'
  <2>1. UNCHANGED <<call, writer, table>>
    BY <1>9 DEF SkipFrame, game, session, calls, loader, NextFrame, nexusVars
  <2> QED  BY <2>1 DEF Linked
<1>10. ASSUME NEW t \in Tasks, ReadTable(t), UNCHANGED loader PROVE Linked'
  <2>1. call[t].at \in {"query", "shake"} /\ Finish(t, Ended("table")) /\ writer' = writer
    BY <1>10 DEF ReadTable
  <2>2. PICK c : call' = [call EXCEPT ![t] = c] /\ c.at = "idle"
    BY <2>1, FinishIs
  <2>3. t = "turn" /\ writer /\ \A s \in Tasks \ {"turn"} : call[s].at = "idle"
    BY <2>1, Alone DEF Linked
  <2>4. \A s \in Tasks : call'[s].at = "idle"
    BY <2>2, <2>3 DEF OnCall
  <2> QED  BY <2>1, <2>3, <2>4 DEF Linked
<1>11. ASSUME NEW t \in Tasks, ReadGreeting(t), UNCHANGED loader PROVE Linked'
  <2>1. /\ call[t].at = "greet" /\ UNCHANGED <<writer, table>>
    BY <1>11 DEF ReadGreeting, session
  <2>2. PICK c : call' = [call EXCEPT ![t] = c] /\ c.at = "shake"
    BY <1>11, MoveIs
  <2> QED  BY <2>1, <2>2, PutLinked
<1>12. ASSUME NEW t \in Tasks, CommandTimesOut(t), UNCHANGED loader PROVE Linked'
  <2>1. Finish(t, Ended("timeout")) /\ UNCHANGED <<writer, table>>
    BY <1>12 DEF CommandTimesOut, session
  <2> QED  BY <2>1, FinishLinked
<1>13. ASSUME NEW t \in Tasks, HandshakeTimesOut(t), UNCHANGED loader PROVE Linked'
  <2>1. /\ call[t].at \in {"greet", "shake"} /\ Finish(t, Ended("timeout")) /\ writer' = FALSE
        /\ UNCHANGED <<table, ld>>
    BY <1>13 DEF HandshakeTimesOut, Close, loader
  <2>2. PICK c : call' = [call EXCEPT ![t] = c] /\ c.at = "idle"
    BY <2>1, FinishIs
  <2>3. t = "turn" /\ ld # "off" /\ table = NoTable
    BY <2>1, Alone DEF Linked
  <2> QED  BY <2>1, <2>2, <2>3, CloseLinked
<1>14. ASSUME NEW t \in Tasks, CommandFindsClosed(t), UNCHANGED loader PROVE Linked'
  <2>1. Finish(t, Ended("closed")) /\ UNCHANGED <<writer, table>>
    BY <1>14 DEF CommandFindsClosed, session
  <2> QED  BY <2>1, FinishLinked
<1>15. ASSUME NEW t \in Tasks, HandshakeFindsClosed(t), UNCHANGED loader PROVE Linked'
  <2>1. /\ call[t].at \in {"greet", "shake"} /\ Refused(t) /\ writer' = FALSE
        /\ UNCHANGED <<table, ld>>
    BY <1>15 DEF HandshakeFindsClosed, Close, loader
  <2>2. PICK c : call' = [call EXCEPT ![t] = c] /\ c.at \in {"idle", "dial"}
    BY <2>1, RefusedIs
  <2>3. t = "turn" /\ ld # "off" /\ table = NoTable
    BY <2>1, Alone DEF Linked
  <2> QED  BY <2>1, <2>2, <2>3, CloseLinked
<1>16. ASSUME NEW t \in Tasks, DialAccepted(t), UNCHANGED loader PROVE Linked'
  <2>1. /\ call[t].at = "dial" /\ writer' = TRUE /\ table' = table
    BY <1>16 DEF DialAccepted
  <2>2. PICK c : call' = [call EXCEPT ![t] = c] /\ c.at = "greet"
    BY <1>16, MoveIs
  <2> QED  BY <2>1, <2>2 DEF Linked, OnCall
<1>17. ASSUME NEW t \in Tasks, DialRefused(t), UNCHANGED loader PROVE Linked'
  <2>1. /\ call[t].at = "dial" /\ Refused(t) /\ UNCHANGED <<writer, table>>
    BY <1>17 DEF DialRefused, session
  <2>2. PICK c : call' = [call EXCEPT ![t] = c] /\ c.at \in {"idle", "dial"}
    BY <2>1, RefusedIs
  <2> QED  BY <2>1, <2>2 DEF Linked, OnCall
<1>18. ASSUME NEW t \in Tasks, Receive(t) PROVE Linked'
  <2>1. PICK c : call' = [call EXCEPT ![t] = c] /\ c.at = "idle"
    BY <1>18, TakeIs DEF Receive
  <2>2. UNCHANGED <<writer, table>>
    BY <1>18 DEF Receive, session
  <2> QED  BY <2>1, <2>2, PutLinked
<1>19. ASSUME NEW t \in Tasks, CancelCall(t) PROVE Linked'
  <2> DEFINE c == Idle
  <2>1. call' = [call EXCEPT ![t] = c] /\ UNCHANGED <<writer, table>>
    BY <1>19 DEF CancelCall, Cancel, session
  <2>2. c.at = "idle"
    BY DEF Idle
  <2> HIDE DEF c
  <2> QED  BY <2>1, <2>2, PutLinked
<1>20. CASE Act
  <2>1. Execute("turn", "InGame", "act") /\ UNCHANGED <<writer, table>>
    BY <1>20 DEF Act, Execute
  <2> QED  BY <2>1, Bounds, ExecuteLinked DEF Bodies
<1>21. CASE Probe
  <2>1. Execute("watch", "GameCore_Tuner", "probe") /\ UNCHANGED <<writer, table>>
    BY <1>21 DEF Probe, Execute
  <2> QED  BY <2>1, Bounds, ExecuteLinked DEF Bodies
<1>22. CASE BeginLoad
  <2> DEFINE c == Idle
  <2>1. /\ \A t \in Tasks : call[t].at = "idle" /\ call'[t] = c
        /\ UNCHANGED <<writer, table>>
    BY <1>22 DEF BeginLoad, session
  <2>2. c.at = "idle"
    BY DEF Idle
  <2> HIDE DEF c
  <2> QED  BY <2>1, <2>2 DEF Linked
<1>23. CASE Poll
  <2>1. CASE Reconnect("turn")
    <3>1. PICK c : call' = [call EXCEPT !["turn"] = c] /\ c.at = "dial"
      BY <2>1, Bounds, ReconnectIs
    <3>2. writer' = FALSE /\ table' = NoTable /\ ld # "off"
      BY <1>23, <2>1 DEF Poll, Verify, Reconnect, Close, Waits
    <3> QED  BY <3>1, <3>2, CloseLinked
  <2>2. CASE Refresh("turn")
    <3>1. PICK c : call' = [call EXCEPT !["turn"] = c] /\ (c.at = "idle" \/ (c.at = "lock" /\ writer))
      BY <2>2, Bounds, RefreshIs
    <3>2. UNCHANGED <<writer, table>>
      BY <2>2 DEF Refresh, session
    <3> QED  BY <3>1, <3>2, Bounds, PutLinked
  <2> QED  BY <1>23, <2>1, <2>2 DEF Poll
<1>24. CASE PollReturns
  <2>1. Take("turn") /\ UNCHANGED <<writer, table>>
    BY <1>24 DEF PollReturns, Still, session
  <2>2. PICK c : call' = [call EXCEPT !["turn"] = c] /\ c.at = "idle"
    BY <2>1, Bounds, TakeIs
  <2> QED  BY <2>1, <2>2, Bounds, PutLinked
<1>25. CASE Issue
  <2>1. CASE Execute("turn", "InGame", "exit")
    BY <2>1, Bounds, ExecuteLinked DEF Bodies
  <2>2. CASE Execute("turn", "MainMenu", "load")
    BY <2>1, <2>2, Bounds, ExecuteLinked DEF Bodies
  <2> QED  BY <1>25, <2>1, <2>2, IssueIs
<1>26. CASE IssueReturns
  <2>1. Take("turn") /\ UNCHANGED <<writer, table>>
    BY <1>26 DEF IssueReturns, Still, session
  <2>2. PICK c : call' = [call EXCEPT !["turn"] = c] /\ c.at = "idle"
    BY <2>1, Bounds, TakeIs
  <2> QED  BY <2>1, <2>2, Bounds, PutLinked
<1>27. CASE Verify
  <2>1. CASE Reconnect("turn")
    <3>1. PICK c : call' = [call EXCEPT !["turn"] = c] /\ c.at = "dial"
      BY <2>1, Bounds, ReconnectIs
    <3>2. writer' = FALSE /\ table' = NoTable /\ ld # "off"
      BY <1>27, <2>1 DEF Poll, Verify, Reconnect, Close, Waits
    <3> QED  BY <3>1, <3>2, CloseLinked
  <2>2. CASE Execute("turn", "InGame", "verify")
    BY <2>2, Bounds, ExecuteLinked DEF Bodies
  <2> QED  BY <1>27, <2>1, <2>2 DEF Verify
<1>28. CASE VerifyReturns
  <2>1. Take("turn") /\ UNCHANGED <<writer, table>>
    BY <1>28 DEF VerifyReturns, Still, session
  <2>2. PICK c : call' = [call EXCEPT !["turn"] = c] /\ c.at = "idle"
    BY <2>1, Bounds, TakeIs
  <2> QED  BY <2>1, <2>2, Bounds, PutLinked
<1>29. CASE VerifyExpires
  <2>1. UNCHANGED <<call, writer, table>>
    BY <1>29 DEF VerifyExpires, nexusVars, game, link, session, calls
  <2> QED  BY <2>1 DEF Linked
<1>30. CASE DeadlinePasses
  <2>1. UNCHANGED <<call, writer, table>>
    BY <1>30 DEF DeadlinePasses, nexusVars, game, link, session, calls
  <2> QED  BY <2>1 DEF Linked
<1>31. CASE LoseFile
  <2>1. UNCHANGED <<call, writer, table>>
    BY <1>31 DEF LoseFile, link, session, calls, Fault, nexusVars
  <2> QED  BY <2>1 DEF Linked
<1>32. CASE UNCHANGED vars
  <2>1. UNCHANGED <<call, writer, table>>
    BY <1>32 DEF vars, nexusVars, game, link, session, calls, loader
  <2> QED  BY <2>1 DEF Linked
<1> QED
  BY <1>1, <1>2, <1>3, <1>4, <1>5, <1>6, <1>7, <1>8, <1>9, <1>10, <1>11, <1>12,
     <1>13, <1>14, <1>15, <1>16, <1>17, <1>18, <1>19, <1>20, <1>21, <1>22, <1>23,
     <1>24, <1>25, <1>26, <1>27, <1>28, <1>29, <1>30, <1>31, <1>32
     DEF Next, GameStep, ClientStep, LoaderStep

-----------------------------------------------------------------------------
(* Aim *)

(* A request behind others: a handshake may follow anything, a command only what leaves
   the game where it is, and the load and the exit nothing. *)
LEMMA AimedOneMore ==
  ASSUME NEW rs \in Seq(Requests), NEW r \in Requests, NEW p, Aimed(rs, p),
         \/ r.body \in Handshakes
         \/ /\ r.body \in {"act", "probe", "verify"} /\ p = "game" /\ AimedAt(r, "game")
            /\ Sent(rs, {"act", "probe", "verify"})
         \/ r.body = "exit" /\ p = "game" /\ AimedAt(r, "game") /\ rs = <<>>
         \/ r.body = "load" /\ p = "menu" /\ AimedAt(r, "menu") /\ rs = <<>>
  PROVE  Aimed(Append(rs, r), p)
<1> DEFINE v == Append(rs, r)
           n == Len(rs) + 1
<1>1. /\ DOMAIN v = 1 .. n /\ DOMAIN rs = 1 .. Len(rs) /\ Len(rs) \in Nat
      /\ \A i \in DOMAIN rs : v[i] = rs[i]
      /\ v[n] = r
  BY OneMore
<1>2. DOMAIN v = DOMAIN rs \cup {n} /\ n \notin DOMAIN rs
  BY <1>1
<1>3. rs = <<>> => DOMAIN rs = {}
  BY <1>1
<1> HIDE DEF v, n
<1>4. r.body # "none"
  BY DEF Handshakes
<1>5. ASSUME NEW i \in DOMAIN v
      PROVE  /\ v[i].body # "none"
             /\ v[i].body \in InGameBodies => p = "game" /\ AimedAt(v[i], "game")
             /\ v[i].body = "load" => p = "menu" /\ AimedAt(v[i], "menu")
  <2>1. CASE i \in DOMAIN rs
    <3>1. v[i] = rs[i]
      BY <2>1, <1>1
    <3> QED  BY <2>1, <3>1 DEF Aimed
  <2>2. CASE i = n
    BY <2>2, <1>1, <1>4 DEF InGameBodies, Handshakes
  <2> QED  BY <1>2, <1>5, <2>1, <2>2
<1>6. ASSUME NEW i \in DOMAIN v, v[i].body \in {"exit", "load"}, NEW j \in DOMAIN v \ {i}
      PROVE  v[j].body \in Handshakes
  <2>1. CASE i \in DOMAIN rs
    <3>1. v[i] = rs[i]
      BY <2>1, <1>1
    <3>2. r.body \in Handshakes
      BY <2>1, <3>1, <1>3, <1>6 DEF Sent, Handshakes
    <3>3. CASE j = n
      BY <3>2, <3>3, <1>1
    <3>4. CASE j \in DOMAIN rs
      <4>1. v[j] = rs[j] /\ j \in DOMAIN rs \ {i}
        BY <3>4, <1>1, <1>6
      <4> QED  BY <2>1, <3>1, <4>1, <1>6 DEF Aimed
    <3> QED  BY <1>2, <1>6, <3>3, <3>4
  <2>2. CASE i = n
    <3>1. rs = <<>>
      BY <2>2, <1>1, <1>6 DEF Handshakes
    <3> QED  BY <3>1, <2>2, <1>2, <1>3, <1>6
  <2> QED  BY <1>2, <1>6, <2>1, <2>2
<1> QED  BY <1>5, <1>6 DEF Aimed, v

(* Where no command is for, there is none on its way. *)
LEMMA NoneAimed ==
  ASSUME NEW rs \in Seq(Requests), NEW p, p \notin {"game", "menu"}, Aimed(rs, p)
  PROVE  Sent(rs, {})
<1>1. SUFFICES ASSUME NEW i \in DOMAIN rs PROVE rs[i].body \in Handshakes
  BY DEF Sent
<1>2. rs[i].body \in Bodies
  <2>1. rs[i] \in Requests
    OBVIOUS
  <2> QED  BY <2>1 DEF Requests
<1>3. rs[i].body # "none" /\ rs[i].body \notin InGameBodies /\ rs[i].body # "load"
  BY DEF Aimed
<1> QED  BY <1>2, <1>3 DEF Bodies, InGameBodies

(* Handshakes alone are aimed at nothing. *)
LEMMA OnlyHandshakes ==
  ASSUME NEW rs, NEW p, Sent(rs, {})
  PROVE  Aimed(rs, p)
BY DEF Sent, Aimed, Handshakes, InGameBodies

(* No requests, nothing aimed. *)
LEMMA NothingAimed ==
  \A p : Aimed(<<>>, p)
BY DEF Aimed

(* What a waiting task will send is aimed at where the game is. *)
LEMMA WaitingAimed ==
  ASSUME Shape, Locked, Stage, Open, live, NEW t \in Tasks, call[t].at = "lock"
  PROVE  LET r == Request(call[t])
         IN  \/ r.body = "LSQ" /\ t = "turn" /\ ld \in {"phase", "front", "await"}
             \/ /\ r.body \in {"act", "probe"} /\ phase = "game" /\ AimedAt(r, "game")
                /\ Sent(requests, {"act", "probe"}) /\ ld = "off"
             \/ /\ r.body = "verify" /\ phase = "game" /\ AimedAt(r, "game") /\ t = "turn"
                /\ Sent(requests, {"verify"}) /\ ld = "verify"
             \/ /\ r.body = "exit" /\ phase = "game" /\ AimedAt(r, "game") /\ requests = <<>>
                /\ t = "turn" /\ ld = "exit"
             \/ /\ r.body = "load" /\ phase = "menu" /\ AimedAt(r, "menu") /\ requests = <<>>
                /\ t = "turn" /\ ld = "load"
<1> DEFINE r == Request(call[t])
<1>1. r.body = call[t].body /\ \A p : AimedAt(call[t], p) => AimedAt(r, p)
  BY DEF Request, AimedAt
<1>2. phase \notin {"dead", "loading"} /\ phase \in Phases
  BY DEF Open, Listening, Shape, Plain
<1> HIDE DEF r
<1>3. CASE ld = "off"
  <2>1. OffStage
    BY <1>3 DEF Stage
  <2> QED  BY <2>1, <1>1, <1>2, <1>3 DEF OffStage, Calling, r
<1>4. CASE ld # "off"
  <2>1. t = "turn" /\ call["turn"] = Turn /\ Turn.at = "lock"
    BY <1>4 DEF Locked, Turn
  <2>2. ld \in {"phase", "exit", "front", "load", "await", "verify"}
    BY <2>1, <1>4 DEF Stage, Ends, Waits, LdStates, Shape, Plain
  <2>3. CASE ld \in {"phase", "front", "await"}
    BY <2>1, <2>3, <1>1 DEF Stage, r
  <2>4. CASE ld = "exit"
    BY <2>1, <2>4, <1>1, <1>2 DEF Stage, ExitStage, Calling, Ready, r
  <2>5. CASE ld = "load"
    BY <2>1, <2>5, <1>1, <1>2 DEF Stage, LoadStage, Calling, Ready, r
  <2>6. CASE ld = "verify"
    BY <2>1, <2>6, <1>1, <1>2 DEF Stage, VerifyStage, Calling, r
  <2> QED  BY <2>2, <2>3, <2>4, <2>5, <2>6
<1> QED  BY <1>3, <1>4

(* Only the loader dials, greets and asks, and what it then sends is a handshake. *)
LEMMA WhatIsSent ==
  ASSUME Shape, Locked, Stage, Open, Asking, NEW t \in Tasks,
         TakeLock(t) \/ ReadGreeting(t) \/ DialAccepted(t)
  PROVE  \/ requests' = requests /\ ~live /\ ~DialAccepted(t)
         \/ \E r \in Requests :
              /\ requests' = Append(requests, r) /\ r.nonce <= nonce
              /\ \/ DialAccepted(t) /\ r.body = "APP" /\ t = "turn"
                 \/ ReadGreeting(t) /\ r.body = "LSQ" /\ t = "turn" /\ live
                 \/ TakeLock(t) /\ r.body = "LSQ" /\ t = "turn"
                      /\ ld \in {"phase", "front", "await"} /\ live
                 \/ /\ TakeLock(t) /\ ld = "off" /\ r.body \in {"act", "probe"} /\ phase = "game"
                    /\ AimedAt(r, "game") /\ Sent(requests, {"act", "probe"})
                 \/ /\ TakeLock(t) /\ ld = "verify" /\ r.body = "verify" /\ phase = "game"
                         /\ AimedAt(r, "game")
                    /\ Sent(requests, {"verify"})
                 \/ /\ TakeLock(t) /\ ld = "exit" /\ r.body = "exit" /\ phase = "game"
                         /\ AimedAt(r, "game")
                    /\ requests = <<>>
                 \/ /\ TakeLock(t) /\ ld = "load" /\ r.body = "load" /\ phase = "menu"
                         /\ AimedAt(r, "menu")
                    /\ requests = <<>>
<1>1. CASE TakeLock(t)
  <2>1. call[t].at = "lock"
    <3>1. waiters # <<>> /\ Head(waiters) = t
      BY <1>1 DEF TakeLock
    <3> QED  BY <3>1, Shorter DEF Shape, OnLock, Locked
  <2>2. requests' = IF live THEN Append(requests, Request(call'[t])) ELSE requests
    BY <1>1 DEF TakeLock, Send
  <2>3. ASSUME live PROVE Request(call'[t]) = Request(call[t])
    <3>1. PICK c : /\ call' = [call EXCEPT ![t] = c] /\ c.nonce = call[t].nonce /\ c.aim = call[t].aim
                   /\ c.body = call[t].body /\ c.index = call[t].index
      BY <1>1, MoveIs
    <3>2. call'[t] = c
      BY <3>1 DEF Shape, OnCall
    <3> QED  BY <3>1, <3>2 DEF Request
  <2>4. Request(call[t]) \in Requests /\ Request(call[t]).nonce <= nonce
    BY CallTypes, CallForms
  <2>5. CASE live
    <3> DEFINE r == Request(call[t])
    <3>1. requests' = Append(requests, r)
      BY <2>2, <2>3, <2>5
    <3>2. r \in Requests /\ r.nonce <= nonce
      BY <2>4
    <3>3. \/ r.body = "LSQ" /\ t = "turn" /\ ld \in {"phase", "front", "await"}
          \/ /\ r.body \in {"act", "probe"} /\ phase = "game" /\ AimedAt(r, "game")
             /\ Sent(requests, {"act", "probe"}) /\ ld = "off"
          \/ /\ r.body = "verify" /\ phase = "game" /\ AimedAt(r, "game") /\ t = "turn"
             /\ Sent(requests, {"verify"}) /\ ld = "verify"
          \/ /\ r.body = "exit" /\ phase = "game" /\ AimedAt(r, "game") /\ requests = <<>>
             /\ t = "turn" /\ ld = "exit"
          \/ /\ r.body = "load" /\ phase = "menu" /\ AimedAt(r, "menu") /\ requests = <<>>
             /\ t = "turn" /\ ld = "load"
      BY <2>1, <2>5, WaitingAimed
    <3> HIDE DEF r
    <3> QED  BY <3>1, <3>2, <3>3, <1>1, <2>5
  <2>6. CASE ~live
    <3>1. ~DialAccepted(t)
      BY <2>1 DEF DialAccepted
    <3> QED  BY <2>2, <2>6, <3>1
  <2> QED  BY <2>5, <2>6
<1>2. CASE ReadGreeting(t)
  <2>1. call[t].at = "greet" /\ requests' = IF live THEN Append(requests, Request(call'[t])) ELSE requests
    BY <1>2 DEF ReadGreeting, Send
  <2>2. PICK c : call' = [call EXCEPT ![t] = c] /\ c.body = "LSQ" /\ c.nonce = call[t].nonce
    BY <1>2, MoveIs
  <2>3. call'[t].body = "LSQ" /\ call'[t].nonce <= nonce
    BY <2>2, CallForms DEF Shape, OnCall
  <2>4. call'[t] \in Calls
    <3>1. call' = [call EXCEPT ![t] = [call[t] EXCEPT !.at = "shake", !.body = "LSQ"]]
      BY <1>2 DEF ReadGreeting
    <3>2. [call[t] EXCEPT !.at = "shake", !.body = "LSQ"] \in Calls
      BY CallForms DEF CallStates, Bodies, Handshakes
    <3> QED  BY <3>1, <3>2 DEF Shape, OnCall
  <2> DEFINE r == Request(call'[t])
  <2>5. r \in Requests /\ r.nonce <= nonce /\ r.body = "LSQ"
    BY <2>3, <2>4, CallTypes DEF Request
  <2>6. t = "turn" /\ ~DialAccepted(t)
    BY <2>1, Alone DEF DialAccepted
  <2>7. requests' = IF live THEN Append(requests, r) ELSE requests
    BY <2>1
  <2> HIDE DEF r
  <2> QED  BY <1>2, <2>5, <2>6, <2>7
<1>3. CASE DialAccepted(t)
  <2>1. call[t].at = "dial" /\ requests' = Append(requests, Request(call'[t]))
    BY <1>3 DEF DialAccepted
  <2>2. PICK c : call' = [call EXCEPT ![t] = c] /\ c.body = call[t].body /\ c.nonce = call[t].nonce
    BY <1>3, MoveIs
  <2>3. call'[t].body = "APP" /\ call'[t].nonce <= nonce
    <3>1. call[t].body = "APP"
      BY <2>1, Alone DEF Asking, Turn
    <3> QED  BY <2>2, <3>1, CallForms DEF Shape, OnCall
  <2>4. call'[t] \in Calls
    <3>1. call' = [call EXCEPT ![t] = [call[t] EXCEPT !.at = "greet"]]
      BY <1>3 DEF DialAccepted
    <3>2. [call[t] EXCEPT !.at = "greet"] \in Calls
      BY CallForms DEF CallStates
    <3> QED  BY <3>1, <3>2 DEF Shape, OnCall
  <2> DEFINE r == Request(call'[t])
  <2>5. r \in Requests /\ r.nonce <= nonce /\ r.body = "APP"
    BY <2>3, <2>4, CallTypes DEF Request
  <2>6. t = "turn"
    BY <2>1, Alone
  <2>7. requests' = Append(requests, r)
    BY <2>1
  <2> HIDE DEF r
  <2> QED  BY <1>3, <2>5, <2>6, <2>7
<1> QED  BY <1>1, <1>2, <1>3

(* What is on its way to the game is for the game as it is. *)
LEMMA AimedKept ==
  Shape /\ Locked /\ Stage /\ Open /\ Asking
    /\ Aimed(requests, phase) /\ [Next]_vars => Aimed(requests', phase')
<1> SUFFICES ASSUME Shape, Locked, Stage, Open, Asking, Aimed(requests, phase), [Next]_vars
     PROVE Aimed(requests', phase')
  OBVIOUS
<1> USE DEF Shape
<1>1. ASSUME ServeHandshake, UNCHANGED loader PROVE Aimed(requests', phase')
  BY <1>1, HandshakeServed, NothingAimed DEF Asking
<1>2. ASSUME ServeCommand, UNCHANGED loader PROVE Aimed(requests', phase')
  <2>1. CASE requests' = <<>>
    BY <2>1, NothingAimed
  <2>2. CASE requests' = Tail(requests) /\ phase' = phase
    BY <1>2, <2>2, CommandServed, FewerTail, FewerAimed DEF OnLink
  <2>3. CASE requests' = Tail(requests) /\ phase' # phase /\ requests' # <<>>
    <3>1. requests # <<>> /\ Head(requests).body = "exit" /\ phase' = "leaving"
      BY <1>2, <2>3, CommandServed
    <3>2. /\ 1 \in DOMAIN requests /\ Head(requests) = requests[1]
          /\ \A i \in DOMAIN requests' : i + 1 \in DOMAIN requests \ {1} /\ requests'[i] = requests[i + 1]
      BY <2>3, <3>1, Shorter DEF OnLink
    <3>3. Sent(requests', {})
      BY <3>1, <3>2 DEF Aimed, Sent
    <3> QED  BY <3>3, OnlyHandshakes
  <2> QED  BY <1>2, <2>1, <2>2, <2>3, CommandServed
<1>3. ASSUME ReachMenu, UNCHANGED loader PROVE Aimed(requests', phase')
  <2>1. phase = "leaving" /\ (requests' = requests \/ Unlink)
    BY <1>3 DEF ReachMenu
  <2>2. Sent(requests, {})
    BY <2>1, NoneAimed DEF OnLink
  <2>3. Sent(requests', {})
    BY <2>1, <2>2, UnlinkFewer, FewerSent DEF Asking, OnLink
  <2> QED  BY <2>3, OnlyHandshakes
<1>4. ASSUME LoadCompletes, UNCHANGED loader PROVE Aimed(requests', phase')
  <2>1. phase = "loading" /\ requests' = requests
    BY <1>4 DEF LoadCompletes, link
  <2>2. Sent(requests, {})
    BY <2>1, NoneAimed DEF OnLink
  <2> QED  BY <2>1, <2>2, OnlyHandshakes
<1>5. ASSUME DropLink, UNCHANGED loader PROVE Aimed(requests', phase')
  <2>1. Unlink /\ phase' = phase
    BY <1>5 DEF DropLink
  <2> QED  BY <2>1, UnlinkFewer, FewerAimed DEF Asking, OnLink
<1>6. ASSUME Crash, UNCHANGED loader PROVE Aimed(requests', phase')
  BY <1>6, NothingAimed DEF Crash
<1>7. ASSUME NEW t \in Tasks, TakeLock(t), UNCHANGED loader PROVE Aimed(requests', phase')
  <2>1. phase' = phase
    BY <1>7 DEF TakeLock, game
  <2>2. CASE requests' = requests
    BY <2>1, <2>2
  <2>3. CASE requests' # requests
    <3>1. PICK r \in Requests :
              /\ requests' = Append(requests, r)
              /\ \/ r.body \in Handshakes
                 \/ /\ r.body \in {"act", "probe", "verify"} /\ phase = "game" /\ AimedAt(r, "game")
                    /\ Sent(requests, {"act", "probe", "verify"})
                 \/ r.body = "exit" /\ phase = "game" /\ AimedAt(r, "game") /\ requests = <<>>
                 \/ r.body = "load" /\ phase = "menu" /\ AimedAt(r, "menu") /\ requests = <<>>
      BY <1>7, <2>3, WhatIsSent, Zenon DEF Handshakes, Sent
    <3> QED  BY <2>1, <3>1, AimedOneMore DEF OnLink
  <2> QED  BY <2>2, <2>3
<1>8. ASSUME NEW t \in Tasks, ReadOutput(t), UNCHANGED loader PROVE Aimed(requests', phase')
  <2>1. UNCHANGED <<requests, phase>>
    BY <1>8 DEF ReadOutput, game, calls, loader, NextFrame, link, nexusVars, Execute
  <2> QED  BY <2>1
<1>9. ASSUME NEW t \in Tasks, SkipFrame(t), UNCHANGED loader PROVE Aimed(requests', phase')
  <2>1. UNCHANGED <<requests, phase>>
    BY <1>9 DEF SkipFrame, game, session, calls, loader, NextFrame, link, nexusVars, Execute
  <2> QED  BY <2>1
<1>10. ASSUME NEW t \in Tasks, ReadTable(t), UNCHANGED loader PROVE Aimed(requests', phase')
  <2>1. UNCHANGED <<requests, phase>>
    BY <1>10 DEF ReadTable, game, loader, NextFrame, link, nexusVars, Execute
  <2> QED  BY <2>1
<1>11. ASSUME NEW t \in Tasks, ReadGreeting(t), UNCHANGED loader PROVE Aimed(requests', phase')
  <2>1. phase' = phase
    BY <1>11 DEF ReadGreeting, game
  <2>2. CASE requests' = requests
    BY <2>1, <2>2
  <2>3. CASE requests' # requests
    <3>1. PICK r \in Requests :
              /\ requests' = Append(requests, r)
              /\ \/ r.body \in Handshakes
                 \/ /\ r.body \in {"act", "probe", "verify"} /\ phase = "game" /\ AimedAt(r, "game")
                    /\ Sent(requests, {"act", "probe", "verify"})
                 \/ r.body = "exit" /\ phase = "game" /\ AimedAt(r, "game") /\ requests = <<>>
                 \/ r.body = "load" /\ phase = "menu" /\ AimedAt(r, "menu") /\ requests = <<>>
      BY <1>11, <2>3, WhatIsSent, Zenon DEF Handshakes, Sent
    <3> QED  BY <2>1, <3>1, AimedOneMore DEF OnLink
  <2> QED  BY <2>2, <2>3
<1>12. ASSUME NEW t \in Tasks, CommandTimesOut(t), UNCHANGED loader PROVE Aimed(requests', phase')
  <2>1. UNCHANGED <<requests, phase>>
    BY <1>12 DEF CommandTimesOut, game, link, loader, nexusVars, Execute
  <2> QED  BY <2>1
<1>13. ASSUME NEW t \in Tasks, HandshakeTimesOut(t), UNCHANGED loader PROVE Aimed(requests', phase')
  <2>1. Unlink /\ phase' = phase
    BY <1>13 DEF HandshakeTimesOut, Close, game
  <2> QED  BY <2>1, UnlinkFewer, FewerAimed DEF Asking, OnLink
<1>14. ASSUME NEW t \in Tasks, CommandFindsClosed(t), UNCHANGED loader PROVE Aimed(requests', phase')
  <2>1. UNCHANGED <<requests, phase>>
    BY <1>14 DEF CommandFindsClosed, game, link, session, loader, nexusVars, Execute
  <2> QED  BY <2>1
<1>15. ASSUME NEW t \in Tasks, HandshakeFindsClosed(t), UNCHANGED loader PROVE Aimed(requests', phase')
  <2>1. Unlink /\ phase' = phase
    BY <1>15 DEF HandshakeFindsClosed, Close, game
  <2> QED  BY <2>1, UnlinkFewer, FewerAimed DEF Asking, OnLink
<1>16. ASSUME NEW t \in Tasks, DialAccepted(t), UNCHANGED loader PROVE Aimed(requests', phase')
  <2>1. phase' = phase
    BY <1>16 DEF DialAccepted, game
  <2>2. CASE requests' = requests
    BY <2>1, <2>2
  <2>3. CASE requests' # requests
    <3>1. PICK r \in Requests :
              /\ requests' = Append(requests, r)
              /\ \/ r.body \in Handshakes
                 \/ /\ r.body \in {"act", "probe", "verify"} /\ phase = "game" /\ AimedAt(r, "game")
                    /\ Sent(requests, {"act", "probe", "verify"})
                 \/ r.body = "exit" /\ phase = "game" /\ AimedAt(r, "game") /\ requests = <<>>
                 \/ r.body = "load" /\ phase = "menu" /\ AimedAt(r, "menu") /\ requests = <<>>
      BY <1>16, <2>3, WhatIsSent, Zenon DEF Handshakes, Sent
    <3> QED  BY <2>1, <3>1, AimedOneMore DEF OnLink
  <2> QED  BY <2>2, <2>3
<1>17. ASSUME NEW t \in Tasks, DialRefused(t), UNCHANGED loader PROVE Aimed(requests', phase')
  <2>1. UNCHANGED <<requests, phase>>
    BY <1>17 DEF DialRefused, link, session, loader, game, nexusVars, Execute
  <2> QED  BY <2>1
<1>18. ASSUME NEW t \in Tasks, Receive(t) PROVE Aimed(requests', phase')
  <2>1. UNCHANGED <<requests, phase>>
    BY <1>18 DEF Receive, game, link, session, loader, nexusVars, Execute
  <2> QED  BY <2>1
<1>19. ASSUME NEW t \in Tasks, CancelCall(t) PROVE Aimed(requests', phase')
  <2>1. UNCHANGED <<requests, phase>>
    BY <1>19 DEF CancelCall, game, link, session, loader, nexusVars, Execute
  <2> QED  BY <2>1
<1>20. CASE Act
  <2>1. UNCHANGED <<requests, phase>>
    BY <1>20 DEF Act, loader, link, game, nexusVars, Execute
  <2> QED  BY <2>1
<1>21. CASE Probe
  <2>1. UNCHANGED <<requests, phase>>
    BY <1>21 DEF Probe, loader, link, game, nexusVars, Execute
  <2> QED  BY <2>1
<1>22. CASE BeginLoad
  <2>1. UNCHANGED <<requests, phase>>
    BY <1>22 DEF BeginLoad, game, link, session, nexusVars, Execute
  <2> QED  BY <2>1
<1>23. CASE Poll
  <2>1. CASE Reconnect("turn")
    <3>1. Unlink /\ phase' = phase
      BY <2>1 DEF Reconnect, Close, game
    <3> QED  BY <3>1, UnlinkFewer, FewerAimed DEF Asking, OnLink
  <2>2. CASE Refresh("turn")
    BY <2>2 DEF Refresh, link, game
  <2> QED  BY <1>23, <2>1, <2>2 DEF Poll
<1>24. CASE PollReturns
  <2>1. UNCHANGED <<requests, phase>>
    BY <1>24 DEF PollReturns, Still, game, link, session, nexusVars, Execute
  <2> QED  BY <2>1
<1>25. CASE Issue
  <2>1. UNCHANGED <<requests, phase>>
    BY <1>25 DEF Issue, loader, link, game, nexusVars, Execute
  <2> QED  BY <2>1
<1>26. CASE IssueReturns
  <2>1. UNCHANGED <<requests, phase>>
    BY <1>26 DEF IssueReturns, Still, game, link, session, nexusVars, Execute
  <2> QED  BY <2>1
<1>27. CASE Verify
  <2>1. CASE Reconnect("turn")
    <3>1. Unlink /\ phase' = phase
      BY <2>1 DEF Reconnect, Close, game
    <3> QED  BY <3>1, UnlinkFewer, FewerAimed DEF Asking, OnLink
  <2>2. CASE Execute("turn", "InGame", "verify")
    BY <2>2 DEF Execute, link, game
  <2> QED  BY <1>27, <2>1, <2>2 DEF Verify
<1>28. CASE VerifyReturns
  <2>1. UNCHANGED <<requests, phase>>
    BY <1>28 DEF VerifyReturns, Still, game, link, session, nexusVars, Execute
  <2> QED  BY <2>1
<1>29. CASE VerifyExpires
  <2>1. UNCHANGED <<requests, phase>>
    BY <1>29 DEF VerifyExpires, nexusVars, game, link, session, calls, Execute
  <2> QED  BY <2>1
<1>30. CASE DeadlinePasses
  <2>1. UNCHANGED <<requests, phase>>
    BY <1>30 DEF DeadlinePasses, nexusVars, game, link, session, calls, Execute
  <2> QED  BY <2>1
<1>31. CASE LoseFile
  <2>1. UNCHANGED <<requests, phase>>
    BY <1>31 DEF LoseFile, link, session, calls, Fault, game, nexusVars, Execute
  <2> QED  BY <2>1
<1>32. CASE UNCHANGED vars
  <2>1. UNCHANGED <<requests, phase>>
    BY <1>32 DEF vars, nexusVars, game, link, session, calls, loader, Execute
  <2> QED  BY <2>1
<1> QED
  BY <1>1, <1>2, <1>3, <1>4, <1>5, <1>6, <1>7, <1>8, <1>9, <1>10, <1>11, <1>12,
     <1>13, <1>14, <1>15, <1>16, <1>17, <1>18, <1>19, <1>20, <1>21, <1>22, <1>23,
     <1>24, <1>25, <1>26, <1>27, <1>28, <1>29, <1>30, <1>31, <1>32
     DEF Next, GameStep, ClientStep, LoaderStep

(* The link is open only to a game that listens. *)
LEMMA OpenKept ==
  Shape /\ Open /\ [Next]_vars => Open'
<1> SUFFICES ASSUME Shape, Open, [Next]_vars PROVE Open'
  OBVIOUS
<1>1. ASSUME ServeHandshake, UNCHANGED loader PROVE Open'
  BY <1>1 DEF ServeHandshake, Answer, game, session, calls, loader, link, nexusVars,
     Execute, Reconnect, Refresh, Close, Unlink, Open
<1>2. ASSUME ServeCommand, UNCHANGED loader PROVE Open'
  <2>1. phase \in Listening /\ phase' \in {phase, "leaving", "loading"} /\ live' = (live /\ phase' # "loading")
    BY <1>2, CommandServed DEF ServeCommand
  <2> QED  BY <2>1 DEF Open, Listening
<1>3. ASSUME ReachMenu, UNCHANGED loader PROVE Open'
  BY <1>3 DEF ReachMenu, Open, Listening
<1>4. ASSUME LoadCompletes, UNCHANGED loader PROVE Open'
  BY <1>4 DEF LoadCompletes, Open, Listening
<1>5. ASSUME DropLink, UNCHANGED loader PROVE Open'
  BY <1>5 DEF DropLink, session, calls, loader, Fault, link, game, nexusVars, Execute,
     Reconnect, Refresh, Close, Unlink, Open
<1>6. ASSUME Crash, UNCHANGED loader PROVE Open'
  BY <1>6 DEF Crash, session, calls, loader, Fault, link, game, nexusVars, Execute,
     Reconnect, Refresh, Close, Unlink, Open
<1>7. ASSUME NEW t \in Tasks, TakeLock(t), UNCHANGED loader PROVE Open'
  BY <1>7 DEF TakeLock, game, session, loader, link, nexusVars, Execute, Reconnect,
     Refresh, Close, Unlink, Open
<1>8. ASSUME NEW t \in Tasks, ReadOutput(t), UNCHANGED loader PROVE Open'
  BY <1>8 DEF ReadOutput, game, calls, loader, NextFrame, link, nexusVars, Execute,
     Reconnect, Refresh, Close, Unlink, Open
<1>9. ASSUME NEW t \in Tasks, SkipFrame(t), UNCHANGED loader PROVE Open'
  BY <1>9 DEF SkipFrame, game, session, calls, loader, NextFrame, link, nexusVars,
     Execute, Reconnect, Refresh, Close, Unlink, Open
<1>10. ASSUME NEW t \in Tasks, ReadTable(t), UNCHANGED loader PROVE Open'
  BY <1>10 DEF ReadTable, game, loader, NextFrame, link, nexusVars, Execute, Reconnect,
     Refresh, Close, Unlink, Open
<1>11. ASSUME NEW t \in Tasks, ReadGreeting(t), UNCHANGED loader PROVE Open'
  BY <1>11 DEF ReadGreeting, game, session, loader, NextFrame, link, nexusVars,
     Execute, Reconnect, Refresh, Close, Unlink, Open
<1>12. ASSUME NEW t \in Tasks, CommandTimesOut(t), UNCHANGED loader PROVE Open'
  BY <1>12 DEF CommandTimesOut, game, link, loader, nexusVars, Execute, Reconnect,
     Refresh, Close, Unlink, Open
<1>13. ASSUME NEW t \in Tasks, HandshakeTimesOut(t), UNCHANGED loader PROVE Open'
  BY <1>13 DEF HandshakeTimesOut, game, loader, link, nexusVars, Execute, Reconnect,
     Refresh, Close, Unlink, Open
<1>14. ASSUME NEW t \in Tasks, CommandFindsClosed(t), UNCHANGED loader PROVE Open'
  BY <1>14 DEF CommandFindsClosed, game, link, session, loader, nexusVars, Execute,
     Reconnect, Refresh, Close, Unlink, Open
<1>15. ASSUME NEW t \in Tasks, HandshakeFindsClosed(t), UNCHANGED loader PROVE Open'
  BY <1>15 DEF HandshakeFindsClosed, game, loader, link, nexusVars, Execute, Reconnect,
     Refresh, Close, Unlink, Open
<1>16. ASSUME NEW t \in Tasks, DialAccepted(t), UNCHANGED loader PROVE Open'
  BY <1>16 DEF DialAccepted, game, loader, link, nexusVars, Execute, Reconnect,
     Refresh, Close, Unlink, Open
<1>17. ASSUME NEW t \in Tasks, DialRefused(t), UNCHANGED loader PROVE Open'
  BY <1>17 DEF DialRefused, link, session, loader, game, nexusVars, Execute, Reconnect,
     Refresh, Close, Unlink, Open
<1>18. ASSUME NEW t \in Tasks, Receive(t) PROVE Open'
  BY <1>18 DEF Receive, game, link, session, loader, nexusVars, Execute, Reconnect,
     Refresh, Close, Unlink, Open
<1>19. ASSUME NEW t \in Tasks, CancelCall(t) PROVE Open'
  BY <1>19 DEF CancelCall, game, link, session, loader, nexusVars, Execute, Reconnect,
     Refresh, Close, Unlink, Open
<1>20. CASE Act
  BY <1>20 DEF Act, loader, link, game, nexusVars, Execute, Reconnect, Refresh, Close,
     Unlink, Open
<1>21. CASE Probe
  BY <1>21 DEF Probe, loader, link, game, nexusVars, Execute, Reconnect, Refresh,
     Close, Unlink, Open
<1>22. CASE BeginLoad
  BY <1>22 DEF BeginLoad, game, link, session, nexusVars, Execute, Reconnect, Refresh,
     Close, Unlink, Open
<1>23. CASE Poll
  BY <1>23 DEF Poll, loader, link, game, nexusVars, Execute, Reconnect, Refresh, Close,
     Unlink, Open
<1>24. CASE PollReturns
  BY <1>24 DEF PollReturns, Still, game, link, session, nexusVars, Execute, Reconnect,
     Refresh, Close, Unlink, Open
<1>25. CASE Issue
  BY <1>25 DEF Issue, loader, link, game, nexusVars, Execute, Reconnect, Refresh,
     Close, Unlink, Open
<1>26. CASE IssueReturns
  BY <1>26 DEF IssueReturns, Still, game, link, session, nexusVars, Execute, Reconnect,
     Refresh, Close, Unlink, Open
<1>27. CASE Verify
  BY <1>27 DEF Verify, loader, link, game, nexusVars, Execute, Reconnect, Refresh,
     Close, Unlink, Open
<1>28. CASE VerifyReturns
  BY <1>28 DEF VerifyReturns, Still, game, link, session, nexusVars, Execute,
     Reconnect, Refresh, Close, Unlink, Open
<1>29. CASE VerifyExpires
  BY <1>29 DEF VerifyExpires, nexusVars, game, link, session, calls, Execute,
     Reconnect, Refresh, Close, Unlink, Open
<1>30. CASE DeadlinePasses
  BY <1>30 DEF DeadlinePasses, nexusVars, game, link, session, calls, Execute,
     Reconnect, Refresh, Close, Unlink, Open
<1>31. CASE LoseFile
  BY <1>31 DEF LoseFile, link, session, calls, Fault, game, nexusVars, Execute,
     Reconnect, Refresh, Close, Unlink, Open
<1>32. CASE UNCHANGED vars
  BY <1>32 DEF vars, nexusVars, game, link, session, calls, loader, Execute, Reconnect,
     Refresh, Close, Unlink, Open
<1> QED
  BY <1>1, <1>2, <1>3, <1>4, <1>5, <1>6, <1>7, <1>8, <1>9, <1>10, <1>11, <1>12,
     <1>13, <1>14, <1>15, <1>16, <1>17, <1>18, <1>19, <1>20, <1>21, <1>22, <1>23,
     <1>24, <1>25, <1>26, <1>27, <1>28, <1>29, <1>30, <1>31, <1>32
     DEF Next, GameStep, ClientStep, LoaderStep

-----------------------------------------------------------------------------
(* Stage *)

(* What tells the state tables apart. *)
LEMMA TablesDiffer ==
  /\ \A p \in Listening : StateTable[p] \in Tables
  /\ "InGame" \in DOMAIN StateTable["game"] /\ "InGame" \notin DOMAIN StateTable["menu"]
  /\ \A tb \in Tables : "InGame" \notin DOMAIN tb => tb = StateTable["menu"]
  /\ \A p \in Listening : "InGame" \notin DOMAIN StateTable[p] => p = "menu"
  /\ DOMAIN NoTable = {}
BY TablesAssumption DEF Tables, Listening, NoTable

(* Where no one holds a handshake, the table is all that has been seen. *)
LEMMA QuietSeen ==
  ASSUME NEW rs, NEW w, Quiet(rs, w), NEW tb
  PROVE  Seen(tb, w) = {tb}
BY DEF Quiet, Seen

(* An empty wire holds no answer. *)
LEMMA NothingHeard ==
  Heard(<<>>) = {} /\ \A tb : Seen(tb, <<>>) = {tb}
BY DEF Heard, Seen

(* A step of the game keeps the loader's stage. *)
LEMMA GameStage ==
  ASSUME Shape, Stage, call' = call, got' = got, table' = table, ld' = ld,
         \A B : Sent(requests, B) => Sent(requests', B),
         requests = <<>> => requests' = <<>>,
         \/ /\ phase' = phase
            /\ \A tb \in Seen(table, wire') :
                 tb \in Seen(table, wire) \/ tb = NoTable \/ (phase \in Listening /\ tb = StateTable[phase])
         \/ /\ Seen(table, wire') = Seen(table, wire)
            /\ \/ phase' = "dead"
               \/ phase = "leaving" /\ phase' = "menu"
               \/ phase = "loading" /\ phase' = "game"
               \/ /\ phase = "game" /\ phase' = "leaving" /\ requests # <<>>
                  /\ ~Sent(requests, {"act", "probe"}) /\ ~Sent(requests, {"load"})
                  /\ ~Sent(requests, {"verify"})
               \/ /\ phase = "menu" /\ phase' = "loading" /\ requests # <<>>
                  /\ ~Sent(requests, {"act", "probe"}) /\ ~Sent(requests, {"exit"})
                  /\ ~Sent(requests, {"verify"})
  PROVE  Stage'
<1> DEFINE S == Seen(table, wire)
           R == Seen(table, wire')
<1>1. Turn' = Turn /\ Ready' = Ready
  BY DEF Turn, Ready
<1>2. Seen(table', wire') = R
  OBVIOUS
<1>3. CASE ld = "off"
  <2>1. OffStage
    BY <1>3 DEF Stage
  <2>2. OffStage'
    BY <2>1 DEF OffStage, Calling
  <2> QED  BY <1>3, <2>2 DEF Stage, Ends
<1>4. CASE ld = "missing"
  BY <1>4, <1>1 DEF Stage, Ends
<1>5. CASE ld = "phase"
  <2>1. PhaseStage /\ Turn.at # "output" /\ (Turn.at = "lock" => Turn.body = "LSQ")
    BY <1>5 DEF Stage
  <2>2. PhaseStage'
    BY <2>1, <1>2 DEF PhaseStage, Listening
  <2> QED  BY <1>5, <1>1, <2>1, <2>2 DEF Stage, Ends
<1>6. CASE ld = "exit"
  <2>1. ExitStage /\ Turn.at \in {"idle", "lock", "output"} /\ got["turn"].kind # "table"
    BY <1>6 DEF Stage
  <2>2. ExitStage'
    BY <2>1, <1>1 DEF ExitStage, Calling
  <2> QED  BY <1>6, <1>1, <2>1, <2>2 DEF Stage, Ends
<1>7. CASE ld = "front"
  <2>1. FrontStage /\ Turn.at # "output" /\ (Turn.at = "lock" => Turn.body = "LSQ")
    BY <1>7 DEF Stage
  <2>2. FrontStage'
    <3>1. phase' \in {"game", "leaving", "menu", "dead"} /\ Sent(requests', {"exit"})
      BY <2>1 DEF FrontStage
    <3>2. ASSUME NEW tb \in R \ {NoTable}, "InGame" \notin DOMAIN tb PROVE phase' \in {"menu", "dead"}
      BY <2>1, <3>2, TablesDiffer DEF FrontStage
    <3> QED  BY <3>1, <3>2, <1>2 DEF FrontStage
  <2> QED  BY <1>7, <1>1, <2>1, <2>2 DEF Stage, Ends
<1>8. CASE ld = "load"
  <2>1. LoadStage /\ Turn.at \in {"idle", "lock", "output"} /\ got["turn"].kind # "table"
    BY <1>8 DEF Stage
  <2>2. LoadStage'
    BY <2>1, <1>1 DEF LoadStage, Calling
  <2> QED  BY <1>8, <1>1, <2>1, <2>2 DEF Stage, Ends
<1>9. CASE ld = "await"
  <2>1. AwaitStage /\ Turn.at # "output" /\ (Turn.at = "lock" => Turn.body = "LSQ")
    BY <1>9 DEF Stage
  <2>2. AwaitStage'
    BY <2>1, <1>2, TablesDiffer DEF AwaitStage, Listening
  <2> QED  BY <1>9, <1>1, <2>1, <2>2 DEF Stage, Ends
<1>10. CASE ld \in {"verify", "loaded"}
  <2>1. VerifyStage /\ (ld = "verify" => Turn.at # "query" /\ Calling(Turn, "game", {"verify"}))
        /\ (ld = "loaded" => Turn.at = "idle")
    BY <1>10 DEF Stage, Ends
  <2>2. VerifyStage'
    BY <2>1, <1>2 DEF VerifyStage, Listening
  <2> QED  BY <1>10, <1>1, <2>1, <2>2 DEF Stage, Ends, Calling
<1>11. CASE ld = "failed"
  BY <1>11, <1>1 DEF Stage, Ends
<1>12. ld \in LdStates
  BY DEF Shape, Plain
<1> QED  BY <1>3, <1>4, <1>5, <1>6, <1>7, <1>8, <1>9, <1>10, <1>11, <1>12 DEF LdStates,
   Waits, Ends

(* During play: each task has at most one command for the game out. *)
LEMMA PlayStage ==
  ASSUME Shape, Stage, ld = "off", ld' = "off", phase' = phase, table' = table,
         Sent(requests', {"act", "probe"}), NEW t \in Tasks, NEW c,
         call' = [call EXCEPT ![t] = c], c.at \in {"idle", "lock", "output"},
         Calling(c, "game", {"act", "probe"}), \A s \in Tasks : got'[s].kind # "table"
  PROVE  Stage'
<1>1. OffStage
  BY DEF Stage
<1>2. \A s \in Tasks : call'[s] = IF s = t THEN c ELSE call[s]
  BY DEF Shape, OnCall
<1>3. OffStage'
  <2>1. phase' \in {"game", "dead"} /\ Sent(requests', {"act", "probe"}) /\ table' = StateTable["game"]
    BY <1>1 DEF OffStage
  <2>2. ASSUME NEW s \in Tasks
        PROVE  /\ Calling(call'[s], "game", {"act", "probe"})
               /\ call'[s].at \in {"idle", "lock", "output"} /\ got'[s].kind # "table"
    BY <1>1, <1>2 DEF OffStage
  <2> QED  BY <2>1, <2>2 DEF OffStage
<1> QED  BY <1>3 DEF Stage, Ends

(* A wait: what has been read says no more than what was there to be read. *)
LEMMA WaitStage ==
  ASSUME Shape, Stage, ld \in Waits, ld' = ld, phase' = phase,
         \A B : (ld = "verify" => "verify" \in B) /\ Sent(requests, B) => Sent(requests', B),
         \A tb \in Seen(table', wire') : tb \in Seen(table, wire) \/ tb = NoTable, NEW c,
         call' = [call EXCEPT !["turn"] = c],
         ld # "verify" => c.at # "output" /\ (c.at = "lock" => c.body = "LSQ"),
         ld = "verify" => c.at # "query" /\ Calling(c, "game", {"verify"})
  PROVE  Stage'
<1>1. Turn' = c
  BY Bounds DEF Turn, Shape, OnCall
<1>2. ld = "phase" => PhaseStage'
  BY DEF Stage, PhaseStage
<1>3. ld = "front" => FrontStage'
  BY DEF Stage, FrontStage
<1>4. ld = "await" => AwaitStage'
  <2>1. StateTable["game"] # NoTable
    BY TablesDiffer
  <2> QED  BY <2>1 DEF Stage, AwaitStage
<1>5. ld = "verify" => VerifyStage'
  BY DEF Stage, VerifyStage
<1> QED  BY <1>1, <1>2, <1>3, <1>4, <1>5, Zenon DEF Stage, Waits, Ends

(* A command that moves the game on is under way. *)
LEMMA IssueStage ==
  ASSUME Shape, Stage, ld \in {"exit", "load"}, ld' = ld, phase' = phase, table' = table,
         Sent(requests', {ld}), NEW c,
         call' = [call EXCEPT !["turn"] = c], c.at \in {"idle", "lock", "output"},
         Calling(c, IF ld = "exit" THEN "game" ELSE "menu", {ld}),
         got'["turn"].kind # "table",
         c.at = "lock" \/ (c.at = "idle" /\ got'["turn"] = Nothing) => requests' = <<>> /\ Ready
  PROVE  Stage'
<1>1. Turn' = c
  BY Bounds DEF Turn, Shape, OnCall
<1>2. Ready' <=> c.at = "lock" \/ (c.at = "idle" /\ got'["turn"] = Nothing)
  BY <1>1 DEF Ready
<1>3. CASE ld = "exit"
  <2>1. ExitStage
    BY <1>3 DEF Stage
  <2>2. ExitStage'
    BY <1>1, <1>2, <1>3, <2>1 DEF ExitStage, Calling
  <2> QED  BY <1>1, <1>3, <2>2 DEF Stage, Ends
<1>4. CASE ld = "load"
  <2>1. LoadStage
    BY <1>4 DEF Stage
  <2>2. LoadStage'
    BY <1>1, <1>2, <1>4, <2>1 DEF LoadStage, Calling
  <2> QED  BY <1>1, <1>4, <2>2 DEF Stage, Ends
<1> QED  BY <1>3, <1>4

(* Beyond play, a call is the turn's. *)
LEMMA Apart ==
  ASSUME Shape, Locked, NEW t \in Tasks, call[t].at # "idle", ld # "off"
  PROVE  t = "turn" /\ Turn = call["turn"] /\ call[t] = Turn
BY DEF Locked, Turn

(* Which call can be where. *)
LEMMA CallStage ==
  ASSUME Shape, Stage, ld # "off"
  PROVE  /\ Turn.at = "output" => ld \in {"exit", "load", "verify"}
         /\ Turn.at = "query" => ld \in {"phase", "front", "await"}
         /\ Turn.at \in {"dial", "greet", "shake"} => ld \in Waits
         /\ Turn.at = "lock" => ld \in Waits \cup {"exit", "load"}
BY DEF Stage, Shape, Plain, LdStates, Waits, Ends

(* In play nobody asks for a table. *)
LEMMA OffQuiet ==
  ASSUME Shape, Stage, Asking, ld = "off"
  PROVE  Quiet(requests, wire)
<1>1. Turn.at \in {"idle", "lock", "output"}
  BY Bounds DEF Stage, OffStage, Turn
<1> QED  BY <1>1 DEF Asking, Waits

(* Another request of a kind that may be sent. *)
LEMMA SentMore ==
  ASSUME NEW rs \in Seq(Requests), NEW r \in Requests, NEW B, r.body \in B \cup Handshakes,
         Sent(rs, B)
  PROVE  Sent(Append(rs, r), B)
<1>1. /\ DOMAIN Append(rs, r) = DOMAIN rs \cup {Len(rs) + 1}
      /\ \A i \in DOMAIN rs : Append(rs, r)[i] = rs[i]
      /\ Append(rs, r)[Len(rs) + 1] = r
  BY OneMore
<1> QED  BY <1>1 DEF Sent

(* No requests, nothing sent. *)
LEMMA NothingSent ==
  \A B : Sent(<<>>, B)
BY DEF Sent

(* Giving a link up sends nothing. *)
LEMMA UnlinkSent ==
  ASSUME requests \in Seq(Requests), Single(requests, wire), Unlink
  PROVE  /\ \A B : Sent(requests, B) => Sent(requests', B)
         /\ requests = <<>> => requests' = <<>>
<1>1. requests' \in Seq(Requests) /\ Fewer(requests', requests)
  BY UnlinkFewer
<1>2. requests = <<>> => requests' = <<>>
  <2>1. requests = <<>> => DOMAIN requests = {}
    OBVIOUS
  <2>2. ASSUME requests = <<>> PROVE DOMAIN requests' = {}
    BY <1>1, <2>1, <2>2 DEF Fewer
  <2> QED  BY <1>1, <2>2
<1> QED  BY <1>1, <1>2, FewerSent

(* The head of the queue waits. *)
LEMMA TakeAt ==
  ASSUME Shape, Locked, NEW t \in Tasks, TakeLock(t)
  PROVE  call[t].at = "lock" /\ waiters # <<>>
<1>1. waiters # <<>> /\ Head(waiters) = t
  BY DEF TakeLock
<1> QED  BY <1>1, Shorter DEF Shape, OnLock, Locked

(* A call left as it is. *)
LEMMA SameCall ==
  ASSUME Shape, NEW t \in Tasks
  PROVE  call = [call EXCEPT ![t] = call[t]]
BY DEF Shape, OnCall

(* A reading that ends the call ends it with a value of its own, or nothing of use. *)
LEMMA ReadIs ==
  ASSUME Shape, AllSealed(buffer, wire), NEW t \in Tasks, ReadOutput(t)
  PROVE  /\ call[t].at = "output" /\ wire # <<>> /\ wire' = Tail(wire)
         /\ \A l \in Out(buffer', wire') : l \in Out(buffer, wire)
         /\ AllSealed(buffer', wire')
         /\ \E c, r : /\ call' = [call EXCEPT ![t] = c] /\ c.nonce = call[t].nonce
                      /\ \/ c = call[t] /\ got' = got
                         \/ /\ c.at = "idle" /\ got' = [got EXCEPT ![t] = r]
                            /\ r \in Results /\ r.kind \in {"value", "invalid"}
                            /\ r.kind = "value" =>
                                 /\ r.nonce = call[t].nonce
                                 /\ \E l \in Out(buffer, wire) : l.nonce = r.nonce /\ l.value = r.value
<1> DEFINE fed == IF Head(wire).tag = "out" THEN buffer \o Head(wire).lines ELSE buffer
           n == call[t].nonce
<1>1. call[t].at = "output" /\ wire # <<>> /\ wire' = Tail(wire)
  BY DEF ReadOutput, NextFrame
<1>2. fed \in Seq(Lines) /\ Sealed(fed) /\ Spoken(fed) \subseteq Out(buffer, wire)
  BY <1>1, FedWell
<1>3. IF Complete(n, fed)
      THEN buffer' = After(n, fed) /\ Finish(t, Parsed(Body(n, fed)))
      ELSE buffer' = fed /\ UNCHANGED calls
  BY DEF ReadOutput
<1>4. n \in Nat
  BY CallForms
<1> HIDE DEF fed, n
<1>5. /\ Sealed(buffer') /\ Spoken(buffer') \subseteq Out(buffer, wire)
      /\ buffer' \in Seq(Lines)
  BY <1>2, <1>3, <1>4, ReadOwn
<1>6. AllSealed(buffer, Tail(wire)) /\ Out(buffer, Tail(wire)) \subseteq Out(buffer, wire)
  BY <1>1, LessIsOut DEF Shape, OnLink
<1>7. AllSealed(buffer', wire') /\ \A l \in Out(buffer', wire') : l \in Out(buffer, wire)
  BY <1>1, <1>5, <1>6 DEF AllSealed, Out
<1>8. CASE Complete(n, fed)
  <2> DEFINE r == Parsed(Body(n, fed))
  <2>1. /\ r \in Results /\ r.kind \in {"value", "invalid"}
        /\ r.kind = "value" =>
             r.nonce = n /\ \E l \in Spoken(fed) : l.nonce = n /\ l.value = r.value
    BY <1>2, <1>4, <1>8, ReadOwn
  <2>2. Finish(t, r)
    BY <1>3, <1>8
  <2> HIDE DEF r
  <2>3. PICK c : /\ call' = [call EXCEPT ![t] = c] /\ c.nonce = call[t].nonce /\ c.at = "idle"
                 /\ got' = [got EXCEPT ![t] = r]
    BY <2>2, FinishIs
  <2>4. r.kind = "value" => /\ r.nonce = call[t].nonce
                            /\ \E l \in Out(buffer, wire) : l.nonce = r.nonce /\ l.value = r.value
    BY <2>1, <1>2 DEF n
  <2>5. \E cc, rr : /\ call' = [call EXCEPT ![t] = cc] /\ cc.nonce = call[t].nonce
                    /\ cc.at = "idle" /\ got' = [got EXCEPT ![t] = rr]
                    /\ rr \in Results /\ rr.kind \in {"value", "invalid"}
                    /\ rr.kind = "value" =>
                         /\ rr.nonce = call[t].nonce
                         /\ \E l \in Out(buffer, wire) : l.nonce = rr.nonce /\ l.value = rr.value
    BY <2>1, <2>3, <2>4
  <2> QED  BY <1>1, <1>7, <2>5
<1>9. CASE ~Complete(n, fed)
  <2>1. call' = call /\ got' = got
    BY <1>3, <1>9 DEF calls
  <2> QED  BY <1>1, <1>7, <2>1, SameCall
<1> QED  BY <1>8, <1>9

(* A call that ends without a table leaves the loader where it is. *)
LEMMA EndStage ==
  ASSUME Shape, Stage, ld' = ld, phase' = phase, table' = table, ld \notin Ends,
         \A B : Sent(requests, B) => Sent(requests', B),
         \A tb \in Seen(table, wire') : tb \in Seen(table, wire),
         NEW t \in Tasks, ld # "off" => t = "turn", NEW c, NEW r,
         call' = [call EXCEPT ![t] = c], c.at = "idle",
         got' = [got EXCEPT ![t] = r], r.kind \notin {"nothing", "table"}
  PROVE  Stage'
<1>1. got'[t] = r /\ \A s \in Tasks \ {t} : got'[s] = got[s]
  BY DEF Shape, OnCall
<1>2. \A p, B : Calling(c, p, B)
  BY DEF Calling
<1>3. CASE ld = "off"
  <2>1. OffStage
    BY <1>3 DEF Stage
  <2>2. \A s \in Tasks : got'[s].kind # "table"
    BY <1>1, <2>1 DEF OffStage
  <2>3. Sent(requests', {"act", "probe"})
    BY <2>1 DEF OffStage
  <2> QED  BY <1>2, <1>3, <2>2, <2>3, PlayStage
<1>4. CASE ld \in Waits
  BY <1>2, <1>4, WaitStage DEF Waits
<1>5. CASE ld \in {"exit", "load"}
  <2>1. Sent(requests', {ld})
    BY <1>5 DEF Stage, ExitStage, LoadStage
  <2>2. got'["turn"] # Nothing /\ got'["turn"].kind # "table"
    BY <1>1, <1>5 DEF Nothing
  <2> QED  BY <1>2, <1>5, <2>1, <2>2, IssueStage
<1> QED  BY <1>3, <1>4, <1>5 DEF Shape, Plain, LdStates

(* The stage a wait begins with. *)
LEMMA NextStage ==
  ASSUME Shape, NEW p, ld' = p, call'["turn"].at = "idle", got'["turn"] = Nothing,
         p = "phase" => PhaseStage', p = "exit" => ExitStage', p = "front" => FrontStage',
         p = "load" => LoadStage', p = "await" => AwaitStage', p \in {"verify", "loaded"} => VerifyStage',
         p # "off", p = "missing" => phase' \in {"game", "dead"} /\ Sent(requests', {"act", "probe"})
  PROVE  Stage'
<1>1. Turn'.at = "idle" /\ got'["turn"].kind = "nothing"
  BY DEF Turn, Nothing
<1> QED  BY <1>1 DEF Stage, Ends, Calling

(* Every step leaves the game, the link and the loader in step. *)
LEMMA StageKept ==
  Shape /\ Locked /\ Linked /\ Open /\ Asking
    /\ Aimed(requests, phase) /\ Stage /\ Told /\ [Next]_vars => Stage'
<1> SUFFICES ASSUME Shape, Locked, Linked, Open, Asking, Aimed(requests, phase), Stage, Told, [Next]_vars
     PROVE Stage'
  OBVIOUS
<1>1. ASSUME ServeHandshake, UNCHANGED loader PROVE Stage'
  <2>1. /\ requests' = <<>> /\ phase \in Listening /\ Heard(wire) = {}
        /\ \/ wire' = wire
           \/ \E h \in Answers :
                wire' = wire \o <<h>> /\ (h.table = StateTable[phase] \/ h.table = NoTable)
    BY <1>1, HandshakeServed DEF Asking
  <2>2. UNCHANGED <<call, got, table, ld, phase>>
    BY <1>1 DEF ServeHandshake, game, session, calls, loader
  <2>3. \A tb \in Seen(table, wire') :
          tb \in Seen(table, wire) \/ tb = NoTable \/ tb = StateTable[phase]
    <3>1. CASE wire' = wire
      BY <3>1
    <3>2. ASSUME NEW h \in Answers, wire' = wire \o <<h>>, h.table = StateTable[phase] \/ h.table = NoTable
          PROVE  \A tb \in Seen(table, wire') :
                    tb \in Seen(table, wire) \/ tb = NoTable \/ tb = StateTable[phase]
      <4>0. wire \in Seq(Frames)
        BY DEF Shape, OnLink
      <4>1. Seen(table, wire \o <<h>>) = {table, h.table}
        BY <2>1, <4>0, AnswerBehind
      <4>2. table \in Seen(table, wire)
        BY DEF Seen
      <4>3. wire' = wire \o <<h>>
        BY <3>2
      <4> QED  BY <3>2, <4>1, <4>2, <4>3
    <3> QED  BY <2>1, <3>1, <3>2
  <2> QED  BY <2>1, <2>2, <2>3, NothingSent, GameStage
<1>2. ASSUME ServeCommand, UNCHANGED loader PROVE Stage'
  <2> DEFINE c == Head(requests)
  <2>1. /\ requests # <<>> /\ c.body \notin Handshakes
        /\ requests' = Tail(requests) \/ requests' = <<>>
        /\ \/ phase' = phase
           \/ c.body = "exit" /\ phase = "game" /\ phase' = "leaving"
           \/ c.body = "load" /\ phase = "menu" /\ phase' = "loading"
        /\ \/ wire' = wire
           \/ \E f \in Seq(Outputs) : wire' = wire \o f
    BY <1>2, CommandServed
  <2>2. c = requests[1] /\ 1 \in DOMAIN requests
    BY <2>1, Shorter DEF Shape, OnLink
  <2> HIDE DEF c
  <2>3. UNCHANGED <<call, got, table, ld>>
    BY <1>2 DEF ServeCommand, session, calls, loader
  <2>4. Seen(table, wire') = Seen(table, wire)
    BY <2>1, OutputBehind DEF Shape, OnLink
  <2>5. \A B : Sent(requests, B) => Sent(requests', B)
    BY <2>1, NothingSent, FewerTail, FewerSent DEF Shape, OnLink
  <2>6. /\ c.body = "exit" => \A B : "exit" \notin B => ~Sent(requests, B)
        /\ c.body = "load" => \A B : "load" \notin B => ~Sent(requests, B)
    BY <2>1, <2>2 DEF Sent
  <2>7. \/ phase' = phase
        \/ /\ phase = "game" /\ phase' = "leaving"
           /\ ~Sent(requests, {"act", "probe"}) /\ ~Sent(requests, {"load"})
                /\ ~Sent(requests, {"verify"})
        \/ /\ phase = "menu" /\ phase' = "loading"
           /\ ~Sent(requests, {"act", "probe"}) /\ ~Sent(requests, {"exit"})
                /\ ~Sent(requests, {"verify"})
    BY <2>1, <2>6
  <2> QED  BY <2>1, <2>3, <2>4, <2>5, <2>7, GameStage
<1>3. ASSUME ReachMenu, UNCHANGED loader PROVE Stage'
  <2>1. /\ phase = "leaving" /\ phase' = "menu" /\ UNCHANGED <<call, got, table, ld, wire>>
        /\ requests' = requests \/ Unlink
    BY <1>3 DEF ReachMenu, session, calls, loader
  <2>2. (\A B : Sent(requests, B) => Sent(requests', B)) /\ (requests = <<>> => requests' = <<>>)
    BY <2>1, UnlinkSent DEF Asking, Shape, OnLink
  <2>3. Seen(table, wire') = Seen(table, wire)
    BY <2>1
  <2> QED  BY <2>1, <2>2, <2>3, GameStage
<1>4. ASSUME LoadCompletes, UNCHANGED loader PROVE Stage'
  <2>1. phase = "loading" /\ phase' = "game" /\ UNCHANGED <<call, got, table, ld, wire, requests>>
    BY <1>4 DEF LoadCompletes, session, calls, loader, link
  <2>2. Seen(table, wire') = Seen(table, wire)
    BY <2>1
  <2> QED  BY <2>1, <2>2, GameStage
<1>5. ASSUME DropLink, UNCHANGED loader PROVE Stage'
  <2>1. Unlink /\ UNCHANGED <<call, got, table, ld, wire, phase>>
    BY <1>5 DEF DropLink, session, calls, loader
  <2>2. (\A B : Sent(requests, B) => Sent(requests', B)) /\ (requests = <<>> => requests' = <<>>)
    BY <2>1, UnlinkSent DEF Asking, Shape, OnLink
  <2> QED  BY <2>1, <2>2, GameStage
<1>6. ASSUME Crash, UNCHANGED loader PROVE Stage'
  <2>1. phase' = "dead" /\ requests' = <<>> /\ UNCHANGED <<call, got, table, ld, wire>>
    BY <1>6 DEF Crash, session, calls, loader
  <2>2. Seen(table, wire') = Seen(table, wire)
    BY <2>1
  <2> QED  BY <2>1, <2>2, NothingSent, GameStage
<1>7. ASSUME NEW t \in Tasks, TakeLock(t), UNCHANGED loader PROVE Stage'
  <2>1. call[t].at = "lock"
    BY <1>7, TakeAt
  <2>2. UNCHANGED <<phase, table, ld, wire, got>>
    BY <1>7 DEF TakeLock, game, session, loader
  <2>3. PICK c : /\ call' = [call EXCEPT ![t] = c] /\ c.aim = call[t].aim
                 /\ c.body = call[t].body /\ c.index = call[t].index
                 /\ c.at = (IF call[t].body = "LSQ" THEN "query" ELSE "output")
    BY <1>7, MoveIs
  <2>4. \A p, B : Calling(call[t], p, B) => Calling(c, p, B) /\ c.body \in B
    BY <2>1, <2>3 DEF Calling, AimedAt
  <2>5. \/ requests' = requests
        \/ \E r \in Requests : /\ requests' = Append(requests, r)
                               /\ \/ r.body = "LSQ" /\ ld \in {"phase", "front", "await"}
                                  \/ r.body \in {"act", "probe"} /\ ld = "off"
                                  \/ r.body = ld /\ ld \in {"verify", "exit", "load"}
    <3>1. ~DialAccepted(t) /\ ~ReadGreeting(t)
      BY <2>1 DEF DialAccepted, ReadGreeting
    <3>2. CASE requests' # requests
      <4>1. PICK r \in Requests :
               /\ requests' = Append(requests, r)
               /\ \/ r.body = "LSQ" /\ ld \in {"phase", "front", "await"}
                  \/ ld = "off" /\ r.body \in {"act", "probe"}
                  \/ ld = "verify" /\ r.body = "verify"
                  \/ ld = "exit" /\ r.body = "exit"
                  \/ ld = "load" /\ r.body = "load"
        BY <1>7, <3>1, <3>2, WhatIsSent, Zenon
      <4> QED  BY <4>1
    <3> QED  BY <3>2
  <2>6. CASE ld = "off"
    <3>1. OffStage
      BY <2>6 DEF Stage
    <3>2. Sent(requests', {"act", "probe"})
      BY <2>5, <2>6, <3>1, SentMore DEF OffStage, Shape, OnLink
    <3>3. Calling(c, "game", {"act", "probe"}) /\ c.at = "output"
      BY <2>3, <2>4, <3>1 DEF OffStage
    <3> QED  BY <2>2, <2>3, <2>6, <3>1, <3>2, <3>3, PlayStage DEF OffStage
  <2>7. CASE ld # "off"
    <3>1. t = "turn" /\ call[t] = Turn
      BY <2>1, <2>7, Apart
    <3>2. CASE ld \in {"phase", "front", "await"}
      <4>1. c.at = "query"
        BY <2>1, <2>3, <3>1, <3>2 DEF Stage
      <4>2. \A B : Sent(requests, B) => Sent(requests', B)
        BY <2>5, <3>2, SentMore DEF Shape, OnLink, Handshakes
      <4> QED  BY <2>2, <2>3, <3>1, <3>2, <4>1, <4>2, WaitStage DEF Waits
    <3>3. CASE ld = "verify"
      <4>1. Calling(c, "game", {"verify"}) /\ c.at = "output"
        BY <2>3, <2>4, <3>1, <3>3 DEF Stage
      <4>2. \A B : "verify" \in B /\ Sent(requests, B) => Sent(requests', B)
        BY <2>5, <3>3, SentMore DEF Shape, OnLink
      <4> QED  BY <2>2, <2>3, <3>1, <3>3, <4>1, <4>2, WaitStage DEF Waits
    <3>4. CASE ld \in {"exit", "load"}
      <4>0. /\ Calling(Turn, IF ld = "exit" THEN "game" ELSE "menu", {ld}) /\ Sent(requests, {ld})
        BY <3>4 DEF Stage, ExitStage, LoadStage
      <4>1. Calling(c, IF ld = "exit" THEN "game" ELSE "menu", {ld}) /\ c.at = "output" /\ Sent(requests, {ld})
        BY <2>3, <2>4, <3>1, <3>4, <4>0
      <4>2. Sent(requests', {ld})
        BY <2>5, <3>4, <4>1, SentMore DEF Shape, OnLink
      <4>3. got'["turn"].kind # "table"
        BY <2>2, <3>4 DEF Stage
      <4> QED  BY <2>2, <2>3, <3>1, <3>4, <4>1, <4>2, <4>3, IssueStage
    <3> QED  BY <2>1, <2>7, <3>1, <3>2, <3>3, <3>4, CallStage DEF Waits
  <2> QED  BY <2>6, <2>7
<1>8. ASSUME NEW t \in Tasks, ReadOutput(t), UNCHANGED loader PROVE Stage'
  <2>1. UNCHANGED <<phase, table, ld, requests>>
    BY <1>8 DEF ReadOutput, game, loader
  <2>2. PICK c, r : /\ call' = [call EXCEPT ![t] = c]
                    /\ \/ c = call[t] /\ got' = got
                       \/ /\ c.at = "idle" /\ got' = [got EXCEPT ![t] = r]
                          /\ r.kind \in {"value", "invalid"}
    BY <1>8, ReadIs, Zenon DEF Told
  <2>3. call[t].at = "output" /\ wire # <<>> /\ wire' = Tail(wire)
    BY <1>8, ReadIs DEF Told
  <2>4. Seen(table, wire') \subseteq Seen(table, wire)
    BY <2>3, LessIsSeen DEF Shape, OnLink
  <2>5. ld # "off" => t = "turn" /\ call[t] = Turn /\ ld \in {"exit", "load", "verify"}
    BY <2>3, Apart, CallStage
  <2>6. CASE c.at = "idle" /\ got' = [got EXCEPT ![t] = r] /\ r.kind \in {"value", "invalid"}
    BY <2>1, <2>2, <2>4, <2>5, <2>6, EndStage DEF Ends
  <2>7. CASE c = call[t] /\ got' = got
    <3>1. CASE ld = "off"
      <4>1. OffStage
        BY <3>1 DEF Stage
      <4> QED  BY <2>1, <2>2, <2>3, <2>7, <3>1, <4>1, PlayStage DEF OffStage
    <3>2. CASE ld = "verify"
      <4>1. Calling(c, "game", {"verify"})
        BY <2>5, <2>7, <3>2 DEF Stage
      <4> QED  BY <2>1, <2>2, <2>3, <2>4, <2>5, <2>7, <3>2, <4>1, WaitStage DEF Waits
    <3>3. CASE ld \in {"exit", "load"}
      <4>1. /\ Calling(c, IF ld = "exit" THEN "game" ELSE "menu", {ld}) /\ Sent(requests, {ld})
            /\ got["turn"].kind # "table"
        BY <2>5, <2>7, <3>3 DEF Stage, ExitStage, LoadStage
      <4> QED  BY <2>1, <2>2, <2>3, <2>5, <2>7, <3>3, <4>1, IssueStage
    <3> QED  BY <2>5, <3>1, <3>2, <3>3
  <2> QED  BY <2>2, <2>6, <2>7
<1>9. ASSUME NEW t \in Tasks, SkipFrame(t), UNCHANGED loader PROVE Stage'
  <2>1. call[t].at \in {"query", "greet", "shake"} /\ wire # <<>> /\ wire' = Tail(wire)
        /\ UNCHANGED <<phase, table, ld, requests, call, got>>
    BY <1>9 DEF SkipFrame, NextFrame, game, session, calls, loader
  <2>2. t = "turn" /\ ld \in Waits /\ Turn.at \in {"query", "greet", "shake"}
    BY <2>1, Alone, CallStage DEF Turn, Waits
  <2>3. Seen(table, wire') \subseteq Seen(table, wire)
    BY <2>1, LessIsSeen DEF Shape, OnLink
  <2>4. call' = [call EXCEPT !["turn"] = Turn]
    BY <2>1, Bounds, SameCall DEF Turn
  <2>5. ld = "verify" => Turn.at # "query" /\ Calling(Turn, "game", {"verify"})
    BY DEF Stage
  <2> QED  BY <2>1, <2>2, <2>3, <2>4, <2>5, WaitStage
<1>10. ASSUME NEW t \in Tasks, ReadTable(t), UNCHANGED loader PROVE Stage'
  <2>1. call[t].at \in {"query", "shake"} /\ wire # <<>> /\ wire' = Tail(wire)
        /\ Head(wire).tag = "hand" /\ table' = Head(wire).table
        /\ UNCHANGED <<phase, ld, requests>> /\ Finish(t, Ended("table"))
    BY <1>10 DEF ReadTable, NextFrame, game, loader
  <2>2. t = "turn" /\ ld \in Waits
    BY <2>1, Alone, CallStage DEF Turn, Waits
  <2>3. \A tb \in Seen(table', wire') : tb \in Seen(table, wire)
    <3>1. table' \in Seen(table, wire)
      BY <2>1, HeadTable DEF Seen, Shape, OnLink
    <3>2. Seen(table, wire') \subseteq Seen(table, wire)
      BY <2>1, LessIsSeen DEF Shape, OnLink
    <3> QED  BY <3>1, <3>2 DEF Seen
  <2>4. PICK c : call' = [call EXCEPT ![t] = c] /\ c.at = "idle"
    BY <2>1, FinishIs
  <2> QED  BY <2>1, <2>2, <2>3, <2>4, WaitStage DEF Calling
<1>11. ASSUME NEW t \in Tasks, ReadGreeting(t), UNCHANGED loader PROVE Stage'
  <2>1. call[t].at = "greet" /\ wire # <<>> /\ wire' = Tail(wire)
        /\ UNCHANGED <<phase, ld, table>>
    BY <1>11 DEF ReadGreeting, NextFrame, game, session, loader
  <2>2. t = "turn" /\ ld \in Waits
    BY <2>1, Alone, CallStage DEF Turn
  <2>3. Seen(table, wire') \subseteq Seen(table, wire)
    BY <2>1, LessIsSeen DEF Shape, OnLink
  <2>4. PICK c : call' = [call EXCEPT ![t] = c] /\ c.at = "shake"
    BY <1>11, MoveIs
  <2>5. requests' = requests \/ \E r \in Requests : requests' = Append(requests, r) /\ r.body = "LSQ"
    <3>1. ~DialAccepted(t) /\ ~TakeLock(t)
      BY <2>1, TakeAt DEF DialAccepted
    <3> QED  BY <1>11, <3>1, WhatIsSent, Zenon
  <2>6. \A B : Sent(requests, B) => Sent(requests', B)
    BY <2>5, SentMore DEF Shape, OnLink, Handshakes
  <2> QED  BY <2>1, <2>2, <2>3, <2>4, <2>6, WaitStage DEF Calling
<1>12. ASSUME NEW t \in Tasks, CommandTimesOut(t), UNCHANGED loader PROVE Stage'
  <2>1. UNCHANGED <<phase, table, ld, requests, wire>> /\ call[t].at # "idle"
          /\ Finish(t, Ended("timeout"))
    BY <1>12 DEF CommandTimesOut, game, link, session, loader, Close
  <2>2. PICK c : call' = [call EXCEPT ![t] = c] /\ c.at = "idle"
          /\ got' = [got EXCEPT ![t] = Ended("timeout")]
    BY <2>1, FinishIs
  <2>3. Ended("timeout").kind = "timeout"
    BY DEF Ended
  <2>4. \A B : Sent(requests, B) => Sent(requests', B)
    BY <2>1
  <2>5. \A tb \in Seen(table, wire') : tb \in Seen(table, wire)
    BY <2>1
  <2>6. ld \notin Ends /\ (ld # "off" => t = "turn")
    BY <2>1, Apart DEF Stage, Ends
  <2> QED  BY <2>1, <2>2, <2>3, <2>4, <2>5, <2>6, EndStage
<1>13. ASSUME NEW t \in Tasks, HandshakeTimesOut(t), UNCHANGED loader PROVE Stage'
  <2>1. UNCHANGED <<phase, table, ld>> /\ call[t].at # "idle" /\ Finish(t, Ended("timeout"))
          /\ Unlink /\ wire' = <<>>
    BY <1>13 DEF HandshakeTimesOut, game, link, session, loader, Close
  <2>2. PICK c : call' = [call EXCEPT ![t] = c] /\ c.at = "idle"
          /\ got' = [got EXCEPT ![t] = Ended("timeout")]
    BY <2>1, FinishIs
  <2>3. Ended("timeout").kind = "timeout"
    BY DEF Ended
  <2>4. \A B : Sent(requests, B) => Sent(requests', B)
    BY <2>1, UnlinkSent DEF Asking, Shape, OnLink
  <2>5. \A tb \in Seen(table, wire') : tb \in Seen(table, wire)
    BY <2>1, NothingHeard DEF Seen
  <2>6. ld \notin Ends /\ (ld # "off" => t = "turn")
    BY <2>1, Apart DEF Stage, Ends
  <2> QED  BY <2>1, <2>2, <2>3, <2>4, <2>5, <2>6, EndStage
<1>14. ASSUME NEW t \in Tasks, CommandFindsClosed(t), UNCHANGED loader PROVE Stage'
  <2>1. UNCHANGED <<phase, table, ld, requests, wire>> /\ call[t].at # "idle"
          /\ Finish(t, Ended("closed"))
    BY <1>14 DEF CommandFindsClosed, game, link, session, loader, Close
  <2>2. PICK c : call' = [call EXCEPT ![t] = c] /\ c.at = "idle"
          /\ got' = [got EXCEPT ![t] = Ended("closed")]
    BY <2>1, FinishIs
  <2>3. Ended("closed").kind = "closed"
    BY DEF Ended
  <2>4. \A B : Sent(requests, B) => Sent(requests', B)
    BY <2>1
  <2>5. \A tb \in Seen(table, wire') : tb \in Seen(table, wire)
    BY <2>1
  <2>6. ld \notin Ends /\ (ld # "off" => t = "turn")
    BY <2>1, Apart DEF Stage, Ends
  <2> QED  BY <2>1, <2>2, <2>3, <2>4, <2>5, <2>6, EndStage
<1>15. ASSUME NEW t \in Tasks, HandshakeFindsClosed(t), UNCHANGED loader PROVE Stage'
  <2>1. call[t].at \in {"dial", "greet", "shake"} /\ UNCHANGED <<phase, table, ld>> /\ Refused(t)
    BY <1>15 DEF HandshakeFindsClosed, game, session, loader
  <2>2. t = "turn" /\ ld \in Waits
    BY <2>1, Alone, CallStage DEF Turn
  <2>3. Unlink /\ wire' = <<>>
    BY <1>15 DEF HandshakeFindsClosed, Close
  <2>4. \A B : Sent(requests, B) => Sent(requests', B)
    BY <2>3, UnlinkSent DEF Asking, Shape, OnLink
  <2>5. \A tb \in Seen(table, wire') : tb \in Seen(table, wire)
    BY <2>3, NothingHeard DEF Seen
  <2>6. PICK c : call' = [call EXCEPT ![t] = c] /\ c.at \in {"dial", "idle"}
    BY <2>1, RefusedIs
  <2> QED  BY <2>1, <2>2, <2>4, <2>5, <2>6, WaitStage DEF Calling
<1>16. ASSUME NEW t \in Tasks, DialAccepted(t), UNCHANGED loader PROVE Stage'
  <2>1. call[t].at = "dial" /\ wire' = <<>> /\ UNCHANGED <<phase, ld, table>>
    BY <1>16 DEF DialAccepted, game, loader
  <2>2. t = "turn" /\ ld \in Waits
    BY <2>1, Alone, CallStage DEF Turn
  <2>3. \A tb \in Seen(table, wire') : tb \in Seen(table, wire)
    BY <2>1, NothingHeard DEF Seen
  <2>4. PICK c : call' = [call EXCEPT ![t] = c] /\ c.at = "greet"
    BY <1>16, MoveIs
  <2>5. \E r \in Requests : requests' = Append(requests, r) /\ r.body = "APP"
    <3>1. ~ReadGreeting(t) /\ ~TakeLock(t)
      BY <2>1, TakeAt DEF ReadGreeting
    <3> QED  BY <1>16, <3>1, WhatIsSent, Zenon
  <2>6. \A B : Sent(requests, B) => Sent(requests', B)
    BY <2>5, SentMore DEF Shape, OnLink, Handshakes
  <2> QED  BY <2>1, <2>2, <2>3, <2>4, <2>6, WaitStage DEF Calling
<1>17. ASSUME NEW t \in Tasks, DialRefused(t), UNCHANGED loader PROVE Stage'
  <2>1. call[t].at \in {"dial", "greet", "shake"} /\ UNCHANGED <<phase, table, ld>> /\ Refused(t)
    BY <1>17 DEF DialRefused, game, session, loader
  <2>2. t = "turn" /\ ld \in Waits
    BY <2>1, Alone, CallStage DEF Turn
  <2>3. UNCHANGED <<requests, wire>>
    BY <1>17 DEF DialRefused, link
  <2>4. \A B : Sent(requests, B) => Sent(requests', B)
    BY <2>3
  <2>5. \A tb \in Seen(table, wire') : tb \in Seen(table, wire)
    BY <2>3
  <2>6. PICK c : call' = [call EXCEPT ![t] = c] /\ c.at \in {"dial", "idle"}
    BY <2>1, RefusedIs
  <2> QED  BY <2>1, <2>2, <2>4, <2>5, <2>6, WaitStage DEF Calling
<1>18. ASSUME NEW t \in Tasks, Receive(t) PROVE Stage'
  <2>1. ld = "off" /\ UNCHANGED <<phase, table, ld, requests>> /\ got' = [got EXCEPT ![t] = Nothing]
        /\ call' = [call EXCEPT ![t] = Idle]
    BY <1>18 DEF Receive, Take, Cancel, game, link, session, loader
  <2>2. OffStage
    BY <2>1 DEF Stage
  <2>3. \A s \in Tasks : got'[s].kind # "table"
    <3>1. got'[t] = Nothing /\ Nothing.kind = "nothing" /\ \A s \in Tasks \ {t} : got'[s] = got[s]
      BY <2>1 DEF Shape, OnCall, Nothing
    <3> QED  BY <2>2, <3>1 DEF OffStage
  <2>4. Idle.at = "idle" /\ Calling(Idle, "game", {"act", "probe"})
    BY DEF Idle, Calling
  <2> QED  BY <2>1, <2>2, <2>3, <2>4, PlayStage DEF OffStage
<1>19. ASSUME NEW t \in Tasks, CancelCall(t) PROVE Stage'
  <2>1. ld = "off" /\ UNCHANGED <<phase, table, ld, requests>> /\ got' = [got EXCEPT ![t] = Nothing]
        /\ call' = [call EXCEPT ![t] = Idle]
    BY <1>19 DEF CancelCall, Take, Cancel, game, link, session, loader
  <2>2. OffStage
    BY <2>1 DEF Stage
  <2>3. \A s \in Tasks : got'[s].kind # "table"
    <3>1. got'[t] = Nothing /\ Nothing.kind = "nothing" /\ \A s \in Tasks \ {t} : got'[s] = got[s]
      BY <2>1 DEF Shape, OnCall, Nothing
    <3> QED  BY <2>2, <3>1 DEF OffStage
  <2>4. Idle.at = "idle" /\ Calling(Idle, "game", {"act", "probe"})
    BY DEF Idle, Calling
  <2> QED  BY <2>1, <2>2, <2>3, <2>4, PlayStage DEF OffStage
<1>20. CASE Act
  <2>1. ld = "off" /\ Execute("turn", "InGame", "act")
          /\ UNCHANGED <<phase, table, ld, requests, wire>> /\ "turn" \in Tasks
    BY <1>20, Bounds DEF Act, Execute, game, link, loader
  <2>2. OffStage
    BY <2>1 DEF Stage
  <2>3. PICK c : /\ call' = [call EXCEPT !["turn"] = c]
                 /\ \/ /\ "InGame" \in DOMAIN table /\ c.at = "lock" /\ c.aim = "InGame"
                       /\ c.body = "act" /\ c.index = table["InGame"] /\ UNCHANGED got
                    \/ c.at = "idle" /\ got' = [got EXCEPT !["turn"] = Ended("unresolved")]
    <3>1. "act" \in Bodies
      BY DEF Bodies
    <3> QED  BY <2>1, <3>1, ExecuteIs
  <2>4. CASE c.at = "idle" /\ got' = [got EXCEPT !["turn"] = Ended("unresolved")]
    <3>1. Ended("unresolved").kind = "unresolved"
      BY DEF Ended
    <3> QED  BY <2>1, <2>3, <2>4, <3>1, EndStage DEF Ends
  <2>5. CASE /\ "InGame" \in DOMAIN table /\ c.at = "lock" /\ c.aim = "InGame"
             /\ c.body = "act" /\ c.index = table["InGame"] /\ UNCHANGED got
    <3>1. Calling(c, "game", {"act", "probe"})
      BY <2>2, <2>5 DEF Calling, AimedAt, OffStage
    <3> QED  BY <2>1, <2>2, <2>3, <2>5, <3>1, PlayStage DEF OffStage
  <2> QED  BY <2>3, <2>4, <2>5
<1>21. CASE Probe
  <2>1. ld = "off" /\ Execute("watch", "GameCore_Tuner", "probe")
          /\ UNCHANGED <<phase, table, ld, requests, wire>> /\ "watch" \in Tasks
    BY <1>21, Bounds DEF Probe, Execute, game, link, loader
  <2>2. OffStage
    BY <2>1 DEF Stage
  <2>3. PICK c : /\ call' = [call EXCEPT !["watch"] = c]
                 /\ \/ /\ "GameCore_Tuner" \in DOMAIN table /\ c.at = "lock" /\ c.aim = "GameCore_Tuner"
                       /\ c.body = "probe" /\ c.index = table["GameCore_Tuner"] /\ UNCHANGED got
                    \/ c.at = "idle" /\ got' = [got EXCEPT !["watch"] = Ended("unresolved")]
    <3>1. "probe" \in Bodies
      BY DEF Bodies
    <3> QED  BY <2>1, <3>1, ExecuteIs
  <2>4. CASE c.at = "idle" /\ got' = [got EXCEPT !["watch"] = Ended("unresolved")]
    <3>1. Ended("unresolved").kind = "unresolved"
      BY DEF Ended
    <3> QED  BY <2>1, <2>3, <2>4, <3>1, EndStage DEF Ends
  <2>5. CASE /\ "GameCore_Tuner" \in DOMAIN table /\ c.at = "lock" /\ c.aim = "GameCore_Tuner"
             /\ c.body = "probe" /\ c.index = table["GameCore_Tuner"] /\ UNCHANGED got
    <3>1. Calling(c, "game", {"act", "probe"})
      BY <2>2, <2>5 DEF Calling, AimedAt, OffStage
    <3> QED  BY <2>1, <2>2, <2>3, <2>5, <3>1, PlayStage DEF OffStage
  <2> QED  BY <2>3, <2>4, <2>5
<1>22. CASE BeginLoad
  <2>1. /\ ld = "off" /\ UNCHANGED <<phase, table, requests, wire>> /\ ld' \in {"phase", "missing"}
        /\ call'["turn"].at = "idle" /\ got'["turn"] = Nothing
    BY <1>22, Bounds DEF BeginLoad, BeginWait, game, link, session, Idle
  <2>2. OffStage /\ Quiet(requests, wire)
    BY <2>1, OffQuiet DEF Stage
  <2>3. Seen(table', wire') = {StateTable["game"]}
    BY <2>1, <2>2, QuietSeen DEF OffStage
  <2>4. PhaseStage'
    BY <2>1, <2>2, <2>3 DEF PhaseStage, OffStage
  <2> QED  BY <2>1, <2>2, <2>4, NextStage DEF OffStage
<1>23. CASE Poll
  <2>1. ld \in {"phase", "front", "await"} /\ UNCHANGED <<ld, phase>>
    BY <1>23 DEF Poll, Waits, loader, Reconnect, Refresh, game
  <2>2. CASE Reconnect("turn")
    <3>1. Unlink /\ wire' = <<>> /\ table' = NoTable
      BY <2>2 DEF Reconnect, Close
    <3>2. \A B : Sent(requests, B) => Sent(requests', B)
      BY <3>1, UnlinkSent DEF Asking, Shape, OnLink
    <3>3. \A tb \in Seen(table', wire') : tb = NoTable
      BY <3>1, NothingHeard
    <3>4. PICK c : call' = [call EXCEPT !["turn"] = c] /\ c.at = "dial"
      BY <2>2, Bounds, ReconnectIs
    <3> QED  BY <2>1, <3>2, <3>3, <3>4, WaitStage DEF Waits
  <2>3. CASE Refresh("turn")
    <3>1. UNCHANGED <<requests, wire, table>>
      BY <2>3 DEF Refresh, link, session
    <3>2. PICK c : call' = [call EXCEPT !["turn"] = c] /\ (c.at = "idle" \/ (c.at = "lock" /\ c.body = "LSQ"))
      BY <2>3, Bounds, RefreshIs
    <3> QED  BY <2>1, <3>1, <3>2, WaitStage DEF Waits
  <2> QED  BY <1>23, <2>2, <2>3 DEF Poll
<1>24. CASE PollReturns
  <2>1. /\ ld \in {"phase", "front", "await"} /\ Turn.at = "idle" /\ got["turn"] # Nothing
        /\ UNCHANGED <<phase, table, requests, wire>>
        /\ call' = [call EXCEPT !["turn"] = Idle] /\ got' = [got EXCEPT !["turn"] = Nothing]
    BY <1>24 DEF PollReturns, Waits, Still, Take, Returned, Turn, game, link, session
  <2>2. call'["turn"].at = "idle" /\ got'["turn"] = Nothing /\ Idle.at = "idle"
    BY <2>1, Bounds DEF Shape, OnCall, Idle
  <2>3. CASE ~(got["turn"].kind = "table" /\ Awaited(table))
    <3>1. ld' \in {ld, "failed"}
      BY <1>24, <2>3 DEF PollReturns, Result, Retry
    <3>2. CASE ld' = ld
      BY <2>1, <2>2, <3>2, WaitStage DEF Waits
    <3>3. CASE ld' = "failed"
      BY <2>2, <3>3, NextStage
    <3> QED  BY <3>1, <3>2, <3>3
  <2>4. CASE got["turn"].kind = "table" /\ Awaited(table)
    <3>1. ld' = IF ld = "await" THEN "verify"
                ELSE IF ld = "phase" /\ "InGame" \in DOMAIN table THEN "exit" ELSE "load"
      BY <1>24, <2>4 DEF PollReturns, Result, BeginWait
    <3>2. requests = <<>> /\ table \in Tables /\ Quiet(requests, wire)
      BY <2>1, <2>4 DEF Asking, Stale
    <3>3. Seen(table, wire) = {table} /\ table # NoTable
      <4>1. DOMAIN table # {}
        BY <2>1, <2>4 DEF Awaited, IsFrontEnd, HasGameStates
      <4> QED  BY <3>2, <4>1, QuietSeen, TablesDiffer
    <3>4. \A B : Sent(requests', B)
      BY <2>1, <3>2, NothingSent
    <3>5. CASE ld = "phase"
      <4>1. phase \in {"game", "dead"} /\ table = StateTable["game"]
        BY <3>3, <3>5 DEF Stage, PhaseStage
      <4>2. ld' = "exit" /\ requests' = <<>>
        BY <2>1, <3>1, <3>2, <3>5, <4>1, TablesDiffer
      <4>3. ExitStage'
        BY <2>1, <2>2, <3>4, <4>1, <4>2 DEF ExitStage, Calling, Turn
      <4> QED  BY <2>2, <4>2, <4>3, NextStage
    <3>6. CASE ld = "front"
      <4>1. "InGame" \notin DOMAIN table
        BY <2>4, <3>6 DEF Awaited, IsFrontEnd
      <4>2. phase \in {"menu", "dead"} /\ table = StateTable["menu"]
        BY <3>2, <3>3, <3>6, <4>1, TablesDiffer DEF Stage, FrontStage
      <4>3. ld' = "load" /\ requests' = <<>>
        BY <2>1, <3>1, <3>2, <3>6
      <4>4. LoadStage'
        BY <2>1, <2>2, <3>4, <4>2, <4>3 DEF LoadStage, Calling, Turn
      <4> QED  BY <2>2, <4>3, <4>4, NextStage
    <3>7. CASE ld = "await"
      <4>1. "InGame" \in DOMAIN table
        BY <2>4, <3>7 DEF Awaited, HasGameStates
      <4>2. table = StateTable["game"] /\ phase \in {"game", "dead"}
        BY <3>3, <3>7, <4>1, TablesDiffer DEF Stage, AwaitStage
      <4>3. VerifyStage'
        BY <2>1, <3>3, <3>4, <4>2 DEF VerifyStage
      <4> QED  BY <2>2, <3>1, <3>7, <4>3, NextStage
    <3> QED  BY <2>1, <3>5, <3>6, <3>7
  <2> QED  BY <2>3, <2>4
<1>25. CASE Issue
  <2>1. /\ ld \in {"exit", "load"} /\ Turn.at = "idle" /\ got["turn"] = Nothing
        /\ UNCHANGED <<phase, table, ld, requests, wire>>
        /\ Execute("turn", IF ld = "exit" THEN "InGame" ELSE "MainMenu", ld)
    BY <1>25 DEF Issue, Free, Execute, game, link, loader, Turn
  <2> DEFINE name == IF ld = "exit" THEN "InGame" ELSE "MainMenu"
             p == IF ld = "exit" THEN "game" ELSE "menu"
  <2>2. Execute("turn", name, ld) /\ ld \in Bodies
    BY <2>1 DEF Bodies
  <2>3. /\ requests = <<>> /\ Ready /\ Sent(requests, {ld}) /\ table = StateTable[p]
        /\ got["turn"].kind # "table"
    BY <2>1 DEF Stage, ExitStage, LoadStage, Ready
  <2> HIDE DEF name, p
  <2>4. PICK c : /\ call' = [call EXCEPT !["turn"] = c]
                 /\ \/ /\ name \in DOMAIN table /\ c.at = "lock" /\ c.aim = name
                       /\ c.body = ld /\ c.index = table[name] /\ UNCHANGED got
                    \/ c.at = "idle" /\ got' = [got EXCEPT !["turn"] = Ended("unresolved")]
    BY <2>2, Bounds, ExecuteIs
  <2>5. CASE c.at = "idle" /\ got' = [got EXCEPT !["turn"] = Ended("unresolved")]
    <3>1. Ended("unresolved").kind = "unresolved"
      BY DEF Ended
    <3> QED  BY <2>1, <2>4, <2>5, <3>1, Bounds, EndStage DEF Ends
  <2>6. CASE /\ name \in DOMAIN table /\ c.at = "lock" /\ c.aim = name
             /\ c.body = ld /\ c.index = table[name] /\ UNCHANGED got
    <3>1. Calling(c, p, {ld})
      BY <2>3, <2>6 DEF Calling, AimedAt
    <3> QED  BY <2>1, <2>3, <2>4, <2>6, <3>1, IssueStage DEF p
  <2> QED  BY <2>4, <2>5, <2>6
<1>26. CASE IssueReturns
  <2>1. /\ ld \in {"exit", "load"} /\ Turn.at = "idle"
        /\ UNCHANGED <<phase, table, requests, wire>>
        /\ call' = [call EXCEPT !["turn"] = Idle] /\ got' = [got EXCEPT !["turn"] = Nothing]
        /\ ld' \in {"failed", IF ld = "exit" THEN "front" ELSE "await"}
    BY <1>26 DEF IssueReturns, Still, Take, Returned, Turn, game, link, session, BeginWait
  <2>2. call'["turn"].at = "idle" /\ got'["turn"] = Nothing
    BY <2>1, Bounds DEF Shape, OnCall, Idle
  <2>3. Seen(table', wire') = {table}
    BY <2>1, QuietSeen DEF Asking, Waits
  <2>4. ld = "exit" => FrontStage'
    BY <2>1, <2>3, TablesDiffer DEF Stage, ExitStage, FrontStage
  <2>5. ld = "load" => AwaitStage'
    <3>1. StateTable["menu"] # StateTable["game"]
      BY TablesDiffer
    <3> QED  BY <2>1, <2>3, <3>1 DEF Stage, LoadStage, AwaitStage
  <2> QED  BY <2>1, <2>2, <2>4, <2>5, NextStage
<1>27. CASE Verify
  <2>1. ld = "verify" /\ UNCHANGED <<ld, phase>>
    BY <1>27 DEF Verify, loader, Reconnect, Execute, game
  <2>2. CASE Reconnect("turn")
    <3>1. Unlink /\ wire' = <<>> /\ table' = NoTable
      BY <2>2 DEF Reconnect, Close
    <3>2. \A B : Sent(requests, B) => Sent(requests', B)
      BY <3>1, UnlinkSent DEF Asking, Shape, OnLink
    <3>3. \A tb \in Seen(table', wire') : tb = NoTable
      BY <3>1, NothingHeard
    <3>4. PICK c : call' = [call EXCEPT !["turn"] = c] /\ c.at = "dial"
      BY <2>2, Bounds, ReconnectIs
    <3> QED  BY <2>1, <3>2, <3>3, <3>4, WaitStage DEF Waits, Calling
  <2>3. CASE Execute("turn", "InGame", "verify")
    <3>1. UNCHANGED <<requests, wire, table>>
      BY <2>3 DEF Execute, link
    <3>2. PICK c : /\ call' = [call EXCEPT !["turn"] = c]
                   /\ \/ /\ "InGame" \in DOMAIN table /\ c.at = "lock" /\ c.aim = "InGame"
                         /\ c.body = "verify" /\ c.index = table["InGame"]
                      \/ c.at = "idle"
      <4>1. "verify" \in Bodies
        BY DEF Bodies
      <4> QED  BY <2>3, <4>1, Bounds, ExecuteIs
    <3>3. Calling(c, "game", {"verify"}) /\ c.at # "query"
      <4>1. "InGame" \in DOMAIN table => table = StateTable["game"]
        BY <2>1, TablesDiffer DEF Stage, VerifyStage, Seen
      <4> QED  BY <3>2, <4>1 DEF Calling, AimedAt
    <3> QED  BY <2>1, <3>1, <3>2, <3>3, WaitStage DEF Waits
  <2> QED  BY <1>27, <2>2, <2>3 DEF Verify
<1>28. CASE VerifyReturns
  <2>1. /\ ld = "verify" /\ UNCHANGED <<phase, table, requests, wire>>
        /\ call' = [call EXCEPT !["turn"] = Idle] /\ got' = [got EXCEPT !["turn"] = Nothing]
        /\ ld' \in {"verify", "loaded", "failed"}
    BY <1>28 DEF VerifyReturns, Still, Take, game, link, session, Retry, CheckPosition
  <2>2. call'["turn"].at = "idle" /\ got'["turn"] = Nothing
    BY <2>1, Bounds DEF Shape, OnCall, Idle
  <2>3. VerifyStage'
    BY <2>1 DEF Stage, VerifyStage
  <2> QED  BY <2>1, <2>2, <2>3, NextStage
<1>29. CASE VerifyExpires
  <2>1. /\ ld = "verify" /\ UNCHANGED <<phase, table, requests, wire, call, got>>
        /\ ld' \in {"verify", "failed"} /\ Turn.at = "idle" /\ got["turn"] = Nothing
    BY <1>29 DEF VerifyExpires, nexusVars, game, link, session, calls, Retry, Free, Turn
  <2>2. VerifyStage'
    BY <2>1 DEF Stage, VerifyStage
  <2> QED  BY <2>1, <2>2, NextStage DEF Turn
<1>30. CASE DeadlinePasses
  <2>1. UNCHANGED <<phase, table, requests, wire, call, got, ld>>
    BY <1>30 DEF DeadlinePasses, vars, nexusVars, game, link, session, calls, loader, Fault
  <2> QED  BY <2>1 DEF Stage, OffStage, PhaseStage, ExitStage, FrontStage, LoadStage,
     AwaitStage, VerifyStage, Turn, Ready
<1>31. CASE LoseFile
  <2>1. UNCHANGED <<phase, table, requests, wire, call, got, ld>>
    BY <1>31 DEF LoseFile, vars, nexusVars, game, link, session, calls, loader, Fault
  <2> QED  BY <2>1 DEF Stage, OffStage, PhaseStage, ExitStage, FrontStage, LoadStage,
     AwaitStage, VerifyStage, Turn, Ready
<1>32. CASE UNCHANGED vars
  <2>1. UNCHANGED <<phase, table, requests, wire, call, got, ld>>
    BY <1>32 DEF vars, vars, nexusVars, game, link, session, calls, loader, Fault
  <2> QED  BY <2>1 DEF Stage, OffStage, PhaseStage, ExitStage, FrontStage, LoadStage,
     AwaitStage, VerifyStage, Turn, Ready
<1> QED
  BY <1>1, <1>2, <1>3, <1>4, <1>5, <1>6, <1>7, <1>8, <1>9, <1>10, <1>11, <1>12,
     <1>13, <1>14, <1>15, <1>16, <1>17, <1>18, <1>19, <1>20, <1>21, <1>22, <1>23,
     <1>24, <1>25, <1>26, <1>27, <1>28, <1>29, <1>30, <1>31, <1>32
     DEF Next, GameStep, ClientStep, LoaderStep

-----------------------------------------------------------------------------
(* Asking *)

(* Nobody asks, and nobody is answered. *)
LEMMA QuietAsks ==
  ASSUME Quiet(requests', wire'), Turn'.at = "dial" => Turn'.body = "APP",
         Turn'.at = "idle" /\ got'["turn"].kind = "table" => requests' = <<>> /\ table' \in Tables
  PROVE  Asking'
BY DEF Asking, Quiet, Single, Asked

(* The loader asks. *)
LEMMA ShakeAsks ==
  ASSUME Single(requests', wire'),
         \/ Turn'.at = "greet" /\ Asked(requests', wire', "APP", {NoTable})
         \/ Turn'.at \in {"query", "shake"} /\ Asked(requests', wire', "LSQ", Tables)
  PROVE  Asking'
BY DEF Asking

(* The loader has given a question up, and knows. *)
LEMMA StaleAsks ==
  ASSUME Single(requests', wire'), Turn'.at = "idle", got'["turn"].kind # "table",
         ld' = "failed" \/ (ld' \in Waits /\ Stale')
  PROVE  Asking'
BY DEF Asking

(* In play nobody asks. *)
LEMMA OffAsks ==
  ASSUME Quiet(requests', wire'), ld' = "off", Stage'
  PROVE  Asking'
<1>1. Turn'.at \in {"idle", "lock", "output"} /\ got'["turn"].kind # "table"
  BY Bounds DEF Stage, OffStage, Turn
<1> QED  BY <1>1, QuietAsks

(* A step of the link that answers what is asked, and asks nothing. *)
LEMMA LinkAsks ==
  ASSUME Asking, call' = call, got' = got, need' = need, ld' = ld, table' = table,
         Single(requests', wire'), Quiet(requests, wire) => Quiet(requests', wire'),
         Asked(requests, wire, "APP", {NoTable}) =>
            Asked(requests', wire', "APP", {NoTable}),
         Asked(requests, wire, "LSQ", Tables) => Asked(requests', wire', "LSQ", Tables),
         requests = <<>> => requests' = <<>>
  PROVE  Asking'
<1>1. Turn' = Turn /\ Stale' = Stale
  BY DEF Turn, Stale
<1> QED  BY <1>1 DEF Asking

(* Serving a request asks nothing new. *)
LEMMA TailAsks ==
  ASSUME NEW rs \in Seq(Requests), rs # <<>>, NEW w, NEW v, Heard(v) = {}, Single(rs, w)
  PROVE  /\ Single(Tail(rs), v)
         /\ Quiet(rs, w) => Quiet(Tail(rs), v)
         /\ \A b, ans : Asked(rs, w, b, ans) => Asked(Tail(rs), v, b, ans)
<1>1. /\ DOMAIN Tail(rs) = 1 .. Len(rs) - 1 /\ Len(Tail(rs)) = Len(rs) - 1 /\ Len(rs) \in Nat \ {0}
      /\ \A i \in DOMAIN Tail(rs) : i \in Nat /\ i + 1 \in DOMAIN rs /\ Tail(rs)[i] = rs[i + 1]
  BY Shorter
<1>2. \A i \in DOMAIN Tail(rs) : i + 1 = Len(rs) => i = Len(Tail(rs))
  BY <1>1
<1> QED  BY <1>1, <1>2 DEF Single, Quiet, Asked

(* With no request and no answer, nothing is asked. *)
LEMMA NothingAsked ==
  ASSUME NEW v, Heard(v) = {}
  PROVE  /\ Single(<<>>, v) /\ Quiet(<<>>, v)
         /\ \A b, ans : Asked(<<>>, v, b, ans)
BY DEF Single, Quiet, Asked

(* Behind commands, a command or a question. *)
LEMMA AskOne ==
  ASSUME NEW rs \in Seq(Requests), NEW r \in Requests, NEW w, NEW v, Quiet(rs, w),
         Heard(v) = {}
  PROVE  /\ Single(Append(rs, r), v)
         /\ r.body \notin Handshakes => Quiet(Append(rs, r), v)
         /\ \A ans : Asked(Append(rs, r), v, r.body, ans)
<1>1. /\ DOMAIN Append(rs, r) = DOMAIN rs \cup {Len(rs) + 1} /\ Len(Append(rs, r)) = Len(rs) + 1
      /\ \A i \in DOMAIN rs : Append(rs, r)[i] = rs[i]
      /\ Append(rs, r)[Len(rs) + 1] = r
  BY OneMore
<1> QED  BY <1>1 DEF Single, Quiet, Asked

(* Giving a link up gives its questions up. *)
LEMMA UnlinkAsks ==
  ASSUME requests \in Seq(Requests), Single(requests, wire), Unlink
  PROVE  /\ Heard(wire') = {} => Quiet(requests', wire')
         /\ wire' = wire => /\ Single(requests', wire')
                            /\ Quiet(requests, wire) => Quiet(requests', wire')
                            /\ \A b, ans : Asked(requests, wire, b, ans) => Asked(requests', wire', b, ans)
<1>1. \A i \in DOMAIN requests' : requests'[i].body \notin Handshakes
  BY UnlinkFewer
<1>2. requests = <<>> => requests' = <<>>
  BY UnlinkSent
<1> QED  BY <1>1, <1>2 DEF Quiet, Single, Asked

(* The answer that is read is the only one. *)
LEMMA OnlyAnswer ==
  ASSUME wire \in Seq(Frames), wire # <<>>, Single(requests, wire), Head(wire).tag = "hand"
  PROVE  requests = <<>> /\ Heard(Tail(wire)) = {} /\ 1 \in Heard(wire) /\ Head(wire) = wire[1]
<1>1. 1 \in Heard(wire) /\ Head(wire) = wire[1]
  BY HeadTable
<1>2. requests = <<>> /\ \A k \in Heard(wire) : k = 1
  BY <1>1 DEF Single
<1>3. \A k \in Heard(Tail(wire)) : k + 1 \in Heard(wire) /\ k # 0 /\ k \in Nat
  <2>1. Tail(wire) \in Seq(Frames)
    BY Shorter
  <2> QED  BY <2>1, FrameRead DEF Heard
<1> QED  BY <1>1, <1>2, <1>3

(* A frame read asks nothing new. *)
LEMMA SkipAsks ==
  ASSUME NEW w \in Seq(Frames), w # <<>>, NEW rs
  PROVE  /\ Heard(w) = {} => Heard(Tail(w)) = {}
         /\ Single(rs, w) => Single(rs, Tail(w))
         /\ Quiet(rs, w) => Quiet(rs, Tail(w))
         /\ \A b, ans : Asked(rs, w, b, ans) => Asked(rs, Tail(w), b, ans)
<1>1. \A k \in Heard(Tail(w)) : k + 1 \in Heard(w) /\ k \in Nat /\ Tail(w)[k] = w[k + 1]
  <2>1. Tail(w) \in Seq(Frames)
    BY Shorter
  <2> QED  BY <2>1, FrameRead DEF Heard
<1>2. Single(rs, w) => Single(rs, Tail(w))
  <2>1. SUFFICES ASSUME Single(rs, w), NEW k \in Heard(Tail(w))
                 PROVE  rs = <<>> /\ \A l \in Heard(Tail(w)) : k = l
    BY DEF Single
  <2>2. rs = <<>> /\ \A i, j \in Heard(w) : i = j
    BY <1>1, <2>1 DEF Single
  <2>3. \A l \in Heard(Tail(w)) : k + 1 = l + 1 /\ k \in Nat /\ l \in Nat
    BY <1>1, <2>1, <2>2
  <2> QED  BY <2>2, <2>3
<1> QED  BY <1>1, <1>2 DEF Quiet, Asked

(* A question is answered once, to the one who asked it, or given up with its link. *)
LEMMA AskingKept ==
  Shape /\ Locked /\ Linked /\ Open /\ Asking
    /\ Aimed(requests, phase) /\ Stage /\ Told /\ Stage' /\ [Next]_vars => Asking'
<1> SUFFICES ASSUME Shape, Locked, Linked, Open, Asking, Aimed(requests, phase), Stage, Told, Stage', [Next]_vars
     PROVE Asking'
  OBVIOUS
<1>1. ASSUME ServeHandshake, UNCHANGED loader PROVE Asking'
  <2>1. /\ requests # <<>> /\ requests' = <<>> /\ Heard(wire) = {} /\ 1 \in DOMAIN requests
        /\ requests[1].body \in Handshakes /\ phase \in Listening
        /\ \/ wire' = wire
           \/ \E h \in Answers :
                /\ wire' = wire \o <<h>>
                /\ h.table = IF requests[1].body = "LSQ" THEN StateTable[phase] ELSE NoTable
    BY <1>1, HandshakeServed DEF Asking
  <2>2. UNCHANGED <<call, got, table, ld, need>>
    BY <1>1 DEF ServeHandshake, session, calls, loader
  <2>3. CASE wire' = wire
    BY <2>1, <2>2, <2>3, NothingAsked, LinkAsks
  <2>4. ASSUME NEW h \in Answers, wire' = wire \o <<h>>,
               h.table = IF requests[1].body = "LSQ" THEN StateTable[phase] ELSE NoTable
        PROVE  Asking'
    <3>1. wire \in Seq(Frames)
      BY DEF Shape, OnLink
    <3>2. Heard(wire \o <<h>>) = {Len(wire) + 1} /\ (wire \o <<h>>)[Len(wire) + 1] = h
      BY <2>1, <3>1, AnswerBehind
    <3>3. Single(requests', wire')
      BY <2>1, <2>4, <3>2 DEF Single
    <3>4. ~Quiet(requests, wire)
      BY <2>1 DEF Quiet
    <3>5. ASSUME NEW b, NEW ans, Asked(requests, wire, b, ans), h.table \in ans
          PROVE  Asked(requests', wire', b, ans)
      BY <2>1, <2>4, <3>2, <3>5 DEF Asked
    <3>6. Asked(requests, wire, "APP", {NoTable}) => h.table \in {NoTable}
      BY <2>1, <2>4 DEF Asked
    <3>7. Asked(requests, wire, "LSQ", Tables) => h.table \in Tables
      BY <2>1, <2>4, TablesDiffer DEF Asked
    <3> QED  BY <2>1, <2>2, <3>3, <3>4, <3>5, <3>6, <3>7, LinkAsks
  <2> QED  BY <2>1, <2>3, <2>4
<1>2. ASSUME ServeCommand, UNCHANGED loader PROVE Asking'
  <2>1. /\ requests # <<>> /\ requests' \in {Tail(requests), <<>>}
        /\ wire' = wire \/ \E f \in Seq(Outputs) : wire' = wire \o f
    BY <1>2, CommandServed
  <2>2. UNCHANGED <<call, got, table, ld, need>>
    BY <1>2 DEF ServeCommand, session, calls, loader
  <2>3. Heard(wire') = {} /\ Single(requests, wire)
    <3>1. Heard(wire) = {} /\ Single(requests, wire)
      BY <2>1 DEF Asking, Single
    <3>2. wire \in Seq(Frames)
      BY DEF Shape, OnLink
    <3>3. \A f \in Seq(Outputs) : Heard(wire \o f) = Heard(wire)
      BY <3>2, OutputBehind
    <3> QED  BY <2>1, <3>1, <3>3
  <2>4. requests \in Seq(Requests)
    BY DEF Shape, OnLink
  <2>5. /\ Single(requests', wire') /\ (Quiet(requests, wire) => Quiet(requests', wire'))
        /\ \A b, ans : Asked(requests, wire, b, ans) => Asked(requests', wire', b, ans)
    <3>1. CASE requests' = Tail(requests)
      <4>1. /\ Single(Tail(requests), wire') /\ (Quiet(requests, wire) => Quiet(Tail(requests), wire'))
            /\ \A b, ans : Asked(requests, wire, b, ans) => Asked(Tail(requests), wire', b, ans)
        BY <2>1, <2>3, <2>4, TailAsks
      <4> QED  BY <3>1, <4>1
    <3>2. CASE requests' = <<>>
      BY <2>3, <3>2, NothingAsked
    <3> QED  BY <2>1, <3>1, <3>2
  <2> QED  BY <2>1, <2>2, <2>5, LinkAsks
<1>3. ASSUME ReachMenu, UNCHANGED loader PROVE Asking'
  <2>1. /\ UNCHANGED <<call, got, table, ld, need, wire>> /\ (requests' = requests \/ Unlink)
    BY <1>3 DEF ReachMenu, session, calls, loader
  <2>2. Single(requests, wire) /\ requests \in Seq(Requests)
    BY DEF Asking, Shape, OnLink
  <2>3. CASE requests' = requests
    BY <2>1, <2>3, LinkAsks DEF Asking
  <2>4. CASE Unlink
    <3>1. requests = <<>> => requests' = <<>>
      BY <2>2, <2>4, UnlinkSent
    <3>2. Single(requests', wire') /\ (Quiet(requests, wire) => Quiet(requests', wire'))
      BY <2>1, <2>2, <2>4, UnlinkAsks
    <3>3. \A b, ans : Asked(requests, wire, b, ans) => Asked(requests', wire', b, ans)
      BY <2>1, <2>2, <2>4, UnlinkAsks
    <3> QED  BY <2>1, <3>1, <3>2, <3>3, LinkAsks
  <2> QED  BY <2>1, <2>3, <2>4
<1>4. ASSUME LoadCompletes, UNCHANGED loader PROVE Asking'
  <2>1. UNCHANGED <<requests, wire, call, got, ld, need, table>>
    BY <1>4 DEF LoadCompletes, vars, nexusVars, game, link, session, calls, loader, Fault
  <2> QED  BY <2>1, LinkAsks DEF Asking
<1>5. ASSUME DropLink, UNCHANGED loader PROVE Asking'
  <2>1. /\ UNCHANGED <<call, got, table, ld, need, wire>> /\ (requests' = requests \/ Unlink)
    BY <1>5 DEF DropLink, session, calls, loader
  <2>2. Single(requests, wire) /\ requests \in Seq(Requests)
    BY DEF Asking, Shape, OnLink
  <2>3. CASE requests' = requests
    BY <2>1, <2>3, LinkAsks DEF Asking
  <2>4. CASE Unlink
    <3>1. requests = <<>> => requests' = <<>>
      BY <2>2, <2>4, UnlinkSent
    <3>2. Single(requests', wire') /\ (Quiet(requests, wire) => Quiet(requests', wire'))
      BY <2>1, <2>2, <2>4, UnlinkAsks
    <3>3. \A b, ans : Asked(requests, wire, b, ans) => Asked(requests', wire', b, ans)
      BY <2>1, <2>2, <2>4, UnlinkAsks
    <3> QED  BY <2>1, <3>1, <3>2, <3>3, LinkAsks
  <2> QED  BY <2>1, <2>3, <2>4
<1>6. ASSUME Crash, UNCHANGED loader PROVE Asking'
  <2>1. /\ UNCHANGED <<call, got, table, ld, need, wire>> /\ requests' = <<>>
    BY <1>6 DEF Crash, session, calls, loader
  <2>2. Single(requests', wire') /\ (Quiet(requests, wire) => Quiet(requests', wire'))
    BY <2>1 DEF Asking, Single, Quiet
  <2>3. \A b, ans : Asked(requests, wire, b, ans) => Asked(requests', wire', b, ans)
    BY <2>1 DEF Asked
  <2> QED  BY <2>1, <2>2, <2>3, LinkAsks
<1>7. ASSUME NEW t \in Tasks, TakeLock(t), UNCHANGED loader PROVE Asking'
  <2>1. call[t].at = "lock"
    BY <1>7, TakeAt
  <2>2. UNCHANGED <<ld, wire, got>>
    BY <1>7 DEF TakeLock, loader
  <2>3. PICK c : /\ call' = [call EXCEPT ![t] = c] /\ c.body = call[t].body
                 /\ c.at = (IF call[t].body = "LSQ" THEN "query" ELSE "output")
    BY <1>7, MoveIs
  <2>4. Quiet(requests, wire) /\ (ld # "off" => t = "turn" /\ call[t] = Turn)
    BY <2>1, OffQuiet, Apart DEF Asking
  <2>5. \/ requests' = requests
        \/ \E r \in Requests : /\ requests' = Append(requests, r)
                               /\ \/ r.body = "LSQ" /\ ld \in {"phase", "front", "await"}
                                  \/ r.body \notin Handshakes
    <3>1. ~DialAccepted(t) /\ ~ReadGreeting(t)
      BY <2>1 DEF DialAccepted, ReadGreeting
    <3>2. CASE requests' # requests
      <4>1. PICK r \in Requests :
               /\ requests' = Append(requests, r)
               /\ \/ r.body = "LSQ" /\ ld \in {"phase", "front", "await"}
                  \/ ld = "off" /\ r.body \in {"act", "probe"}
                  \/ ld = "verify" /\ r.body = "verify"
                  \/ ld = "exit" /\ r.body = "exit"
                  \/ ld = "load" /\ r.body = "load"
        BY <1>7, <3>1, <3>2, WhatIsSent, Zenon
      <4> QED  BY <4>1 DEF Handshakes
    <3> QED  BY <3>2
  <2>6. ld # "off" => Turn' = c
    BY <2>3, <2>4 DEF Turn, Shape, OnCall
  <2>7. CASE requests' = requests
    <3>1. Quiet(requests', wire')
      BY <2>2, <2>4, <2>7
    <3> QED  BY <2>2, <2>3, <2>6, <3>1, OffAsks, QuietAsks
  <2>8. ASSUME NEW r \in Requests, requests' = Append(requests, r),
               \/ r.body = "LSQ" /\ ld \in {"phase", "front", "await"}
               \/ r.body \notin Handshakes
        PROVE  Asking'
    <3>1. /\ Single(requests', wire') /\ (r.body \notin Handshakes => Quiet(requests', wire'))
          /\ \A ans : Asked(requests', wire', r.body, ans)
      BY <2>2, <2>4, <2>8, AskOne DEF Shape, OnLink, Quiet
    <3>2. CASE r.body \notin Handshakes
      BY <2>2, <2>3, <2>6, <3>1, <3>2, OffAsks, QuietAsks
    <3>3. CASE r.body = "LSQ" /\ ld \in {"phase", "front", "await"}
      <4>1. c.at = "query"
        BY <2>1, <2>3, <2>4, <3>3 DEF Stage
      <4> QED  BY <2>6, <3>1, <3>3, <4>1, ShakeAsks
    <3> QED  BY <2>8, <3>2, <3>3
  <2> QED  BY <2>5, <2>7, <2>8
<1>8. ASSUME NEW t \in Tasks, ReadOutput(t), UNCHANGED loader PROVE Asking'
  <2>1. UNCHANGED <<ld, requests>>
    BY <1>8 DEF ReadOutput, loader
  <2>2. PICK c, r : /\ call' = [call EXCEPT ![t] = c]
                    /\ \/ c = call[t] /\ got' = got
                       \/ /\ c.at = "idle" /\ got' = [got EXCEPT ![t] = r]
                          /\ r.kind \in {"value", "invalid"}
    BY <1>8, ReadIs, Zenon DEF Told
  <2>3. call[t].at = "output" /\ wire # <<>> /\ wire' = Tail(wire)
    BY <1>8, ReadIs DEF Told
  <2>4. Quiet(requests, wire) /\ (ld # "off" => t = "turn" /\ call[t] = Turn)
    BY <2>3, OffQuiet, Apart DEF Asking
  <2>5. Quiet(requests', wire')
    BY <2>1, <2>3, <2>4, SkipAsks DEF Shape, OnLink
  <2>6. CASE ld # "off"
    <3>1. Turn' = c /\ (c = call[t] \/ got'["turn"] = r)
      BY <2>2, <2>4, <2>6 DEF Turn, Shape, OnCall
    <3> QED  BY <2>2, <2>3, <2>5, <3>1, QuietAsks
  <2> QED  BY <2>1, <2>5, <2>6, OffAsks
<1>9. ASSUME NEW t \in Tasks, SkipFrame(t), UNCHANGED loader PROVE Asking'
  <2>1. /\ UNCHANGED <<call, got, table, ld, need, requests>> /\ wire # <<>> /\ wire' = Tail(wire)
    BY <1>9 DEF SkipFrame, NextFrame, session, calls, loader
  <2> QED  BY <2>1, SkipAsks, LinkAsks DEF Asking, Shape, OnLink
<1>10. ASSUME NEW t \in Tasks, ReadTable(t), UNCHANGED loader PROVE Asking'
  <2>1. /\ call[t].at \in {"query", "shake"} /\ wire # <<>> /\ wire' = Tail(wire)
        /\ Head(wire).tag = "hand" /\ table' = Head(wire).table
        /\ UNCHANGED <<ld, requests>> /\ Finish(t, Ended("table"))
    BY <1>10 DEF ReadTable, NextFrame, loader
  <2>2. t = "turn" /\ Turn.at \in {"query", "shake"}
    BY <2>1, Alone DEF Turn
  <2>3. requests = <<>> /\ Heard(Tail(wire)) = {} /\ 1 \in Heard(wire) /\ Head(wire) = wire[1]
    BY <2>1, OnlyAnswer DEF Asking, Shape, OnLink
  <2>4. table' \in Tables
    BY <2>1, <2>2, <2>3 DEF Asking, Asked
  <2>5. PICK c : call' = [call EXCEPT ![t] = c] /\ c.at = "idle"
    BY <2>1, FinishIs
  <2>6. Turn'.at = "idle"
    BY <2>2, <2>5 DEF Turn, Shape, OnCall
  <2>7. Quiet(requests', wire') /\ requests' = <<>>
    BY <2>1, <2>3, NothingAsked
  <2> QED  BY <2>4, <2>6, <2>7, QuietAsks
<1>11. ASSUME NEW t \in Tasks, ReadGreeting(t), UNCHANGED loader PROVE Asking'
  <2>1. /\ call[t].at = "greet" /\ wire # <<>> /\ wire' = Tail(wire) /\ Head(wire).tag = "hand"
    BY <1>11 DEF ReadGreeting, NextFrame
  <2>2. t = "turn"
    BY <2>1, Alone
  <2>3. requests = <<>> /\ Heard(wire') = {}
    BY <2>1, OnlyAnswer DEF Asking, Shape, OnLink
  <2>4. PICK c : call' = [call EXCEPT ![t] = c] /\ c.at = "shake"
    BY <1>11, MoveIs
  <2>5. Turn'.at = "shake"
    BY <2>2, <2>4 DEF Turn, Shape, OnCall
  <2>6. requests' = requests \/ \E r \in Requests : requests' = Append(requests, r) /\ r.body = "LSQ"
    <3>1. ~DialAccepted(t) /\ ~TakeLock(t)
      BY <2>1, TakeAt DEF DialAccepted
    <3> QED  BY <1>11, <3>1, WhatIsSent, Zenon
  <2>7. Quiet(requests, wire') /\ requests \in Seq(Requests)
    BY <2>3, NothingAsked DEF Shape, OnLink
  <2>8. Single(requests', wire') /\ Asked(requests', wire', "LSQ", Tables)
    <3>1. CASE requests' = requests
      BY <2>3, <3>1, NothingAsked
    <3>2. ASSUME NEW r \in Requests, requests' = Append(requests, r), r.body = "LSQ"
          PROVE  Single(requests', wire') /\ Asked(requests', wire', "LSQ", Tables)
      BY <2>3, <2>7, <3>2, AskOne
    <3> QED  BY <2>6, <3>1, <3>2
  <2> QED  BY <2>5, <2>8, ShakeAsks
<1>12. ASSUME NEW t \in Tasks, CommandTimesOut(t), UNCHANGED loader PROVE Asking'
  <2>1. /\ UNCHANGED <<ld, need, requests, wire>> /\ call[t].at \in {"output", "query"}
             /\ Finish(t, Ended("timeout"))
    BY <1>12 DEF CommandTimesOut, link, loader
  <2>2. PICK c : call' = [call EXCEPT ![t] = c] /\ c.at = "idle"
          /\ got' = [got EXCEPT ![t] = Ended("timeout")]
    BY <2>1, FinishIs
  <2>3. CASE ld = "off"
    BY <2>1, <2>3, OffQuiet, OffAsks
  <2>4. CASE ld # "off"
    <3>1. t = "turn" /\ call[t] = Turn
      BY <2>1, <2>4, Apart
    <3>2. Turn'.at = "idle" /\ got'["turn"] = Ended("timeout")
      BY <2>2, <3>1 DEF Turn, Shape, OnCall
    <3>3. got'["turn"].kind = "timeout" /\ got'["turn"] # Nothing
      BY <3>2 DEF Ended, Nothing
    <3>4. CASE Turn.at = "output"
      BY <2>1, <3>2, <3>3, <3>4, QuietAsks DEF Asking
    <3>5. CASE Turn.at = "query"
      <4>1. ld' \in Waits
        BY <2>1, <2>4, <3>5, CallStage DEF Waits
      <4> QED  BY <2>1, <3>2, <3>3, <4>1, StaleAsks DEF Asking, Stale
    <3> QED  BY <2>1, <3>1, <3>4, <3>5
  <2> QED  BY <2>3, <2>4
<1>13. ASSUME NEW t \in Tasks, HandshakeTimesOut(t), UNCHANGED loader PROVE Asking'
  <2>1. call[t].at \in {"greet", "shake"} /\ Unlink /\ wire' = <<>> /\ Finish(t, Ended("timeout"))
    BY <1>13 DEF HandshakeTimesOut, Close
  <2>2. t = "turn"
    BY <2>1, Alone
  <2>3. Quiet(requests', wire')
    BY <2>1, NothingHeard, UnlinkAsks DEF Asking, Shape, OnLink
  <2>4. PICK c : call' = [call EXCEPT ![t] = c] /\ c.at = "idle"
          /\ got' = [got EXCEPT ![t] = Ended("timeout")]
    BY <2>1, FinishIs
  <2>5. Turn'.at = "idle" /\ got'["turn"].kind = "timeout"
    BY <2>2, <2>4 DEF Turn, Shape, OnCall, Ended
  <2> QED  BY <2>3, <2>5, QuietAsks
<1>14. ASSUME NEW t \in Tasks, CommandFindsClosed(t), UNCHANGED loader PROVE Asking'
  <2>1. /\ UNCHANGED <<ld, need, requests, wire>> /\ call[t].at \in {"output", "query"}
             /\ Finish(t, Ended("closed"))
    BY <1>14 DEF CommandFindsClosed, link, loader
  <2>2. PICK c : call' = [call EXCEPT ![t] = c] /\ c.at = "idle"
          /\ got' = [got EXCEPT ![t] = Ended("closed")]
    BY <2>1, FinishIs
  <2>3. CASE ld = "off"
    BY <2>1, <2>3, OffQuiet, OffAsks
  <2>4. CASE ld # "off"
    <3>1. t = "turn" /\ call[t] = Turn
      BY <2>1, <2>4, Apart
    <3>2. Turn'.at = "idle" /\ got'["turn"] = Ended("closed")
      BY <2>2, <3>1 DEF Turn, Shape, OnCall
    <3>3. got'["turn"].kind = "closed" /\ got'["turn"] # Nothing
      BY <3>2 DEF Ended, Nothing
    <3>4. CASE Turn.at = "output"
      BY <2>1, <3>2, <3>3, <3>4, QuietAsks DEF Asking
    <3>5. CASE Turn.at = "query"
      <4>1. ld' \in Waits
        BY <2>1, <2>4, <3>5, CallStage DEF Waits
      <4> QED  BY <2>1, <3>2, <3>3, <4>1, StaleAsks DEF Asking, Stale
    <3> QED  BY <2>1, <3>1, <3>4, <3>5
  <2> QED  BY <2>3, <2>4
<1>15. ASSUME NEW t \in Tasks, HandshakeFindsClosed(t), UNCHANGED loader PROVE Asking'
  <2>1. call[t].at \in {"dial", "greet", "shake"} /\ Refused(t)
    BY <1>15 DEF HandshakeFindsClosed
  <2>2. t = "turn"
    BY <2>1, Alone
  <2>3. Quiet(requests', wire')
    <3>1. Unlink /\ wire' = <<>>
      BY <1>15 DEF HandshakeFindsClosed, Close
    <3> QED  BY <3>1, NothingHeard, UnlinkAsks DEF Asking, Shape, OnLink
  <2>4. PICK c : /\ call' = [call EXCEPT ![t] = c]
                 /\ \/ c.at = "dial" /\ c.body = "APP"
                    \/ c.at = "idle" /\ got' = [got EXCEPT ![t] = Ended("refused")]
    BY <2>1, RefusedIs
  <2>5. Turn' = c /\ (got' = [got EXCEPT ![t] = Ended("refused")] => got'["turn"].kind = "refused")
    BY <2>2, <2>4 DEF Turn, Shape, OnCall, Ended
  <2> QED  BY <2>3, <2>4, <2>5, QuietAsks
<1>16. ASSUME NEW t \in Tasks, DialAccepted(t), UNCHANGED loader PROVE Asking'
  <2>1. call[t].at = "dial" /\ wire' = <<>>
    BY <1>16 DEF DialAccepted
  <2>2. t = "turn" /\ Turn.at = "dial"
    BY <2>1, Alone DEF Turn
  <2>3. PICK c : call' = [call EXCEPT ![t] = c] /\ c.at = "greet"
    BY <1>16, MoveIs
  <2>4. Turn'.at = "greet"
    BY <2>2, <2>3 DEF Turn, Shape, OnCall
  <2>5. \E r \in Requests : requests' = Append(requests, r) /\ r.body = "APP"
    <3>1. ~ReadGreeting(t) /\ ~TakeLock(t)
      BY <2>1, TakeAt DEF ReadGreeting
    <3> QED  BY <1>16, <3>1, WhatIsSent, Zenon
  <2>6. Quiet(requests, wire) /\ Heard(wire') = {} /\ requests \in Seq(Requests)
    BY <2>1, <2>2, NothingHeard DEF Asking, Shape, OnLink
  <2>7. Single(requests', wire') /\ Asked(requests', wire', "APP", {NoTable})
    BY <2>5, <2>6, AskOne
  <2> QED  BY <2>4, <2>7, ShakeAsks
<1>17. ASSUME NEW t \in Tasks, DialRefused(t), UNCHANGED loader PROVE Asking'
  <2>1. call[t].at \in {"dial", "greet", "shake"} /\ Refused(t)
    BY <1>17 DEF DialRefused
  <2>2. t = "turn"
    BY <2>1, Alone
  <2>3. Quiet(requests', wire')
    <3>1. UNCHANGED <<requests, wire>> /\ Turn.at = "dial"
      BY <1>17, <2>2 DEF DialRefused, link, Turn
    <3> QED  BY <3>1 DEF Asking
  <2>4. PICK c : /\ call' = [call EXCEPT ![t] = c]
                 /\ \/ c.at = "dial" /\ c.body = "APP"
                    \/ c.at = "idle" /\ got' = [got EXCEPT ![t] = Ended("refused")]
    BY <2>1, RefusedIs
  <2>5. Turn' = c /\ (got' = [got EXCEPT ![t] = Ended("refused")] => got'["turn"].kind = "refused")
    BY <2>2, <2>4 DEF Turn, Shape, OnCall, Ended
  <2> QED  BY <2>3, <2>4, <2>5, QuietAsks
<1>18. ASSUME NEW t \in Tasks, Receive(t) PROVE Asking'
  <2>1. ld = "off" /\ UNCHANGED <<ld, requests, wire>>
    BY <1>18 DEF Receive, link, loader, Execute
  <2> QED  BY <2>1, OffQuiet, OffAsks
<1>19. ASSUME NEW t \in Tasks, CancelCall(t) PROVE Asking'
  <2>1. ld = "off" /\ UNCHANGED <<ld, requests, wire>>
    BY <1>19 DEF CancelCall, link, loader, Execute
  <2> QED  BY <2>1, OffQuiet, OffAsks
<1>20. CASE Act
  <2>1. ld = "off" /\ UNCHANGED <<ld, requests, wire>>
    BY <1>20 DEF Act, link, loader, Execute
  <2> QED  BY <2>1, OffQuiet, OffAsks
<1>21. CASE Probe
  <2>1. ld = "off" /\ UNCHANGED <<ld, requests, wire>>
    BY <1>21 DEF Probe, link, loader, Execute
  <2> QED  BY <2>1, OffQuiet, OffAsks
<1>22. CASE BeginLoad
  <2>1. /\ ld = "off" /\ UNCHANGED <<requests, wire>>
        /\ call'["turn"].at = "idle" /\ got'["turn"] = Nothing
    BY <1>22, Bounds DEF BeginLoad, link, Idle
  <2>2. Turn'.at = "idle" /\ got'["turn"].kind = "nothing"
    BY <2>1 DEF Turn, Nothing
  <2> QED  BY <2>1, <2>2, OffQuiet, QuietAsks
<1>23. CASE Poll
  <2>1. ld \in {"phase", "front", "await"} /\ Turn.at = "idle" /\ got["turn"] = Nothing
    BY <1>23 DEF Poll, Waits, Free, Turn
  <2>2. CASE Reconnect("turn")
    <3>1. Unlink /\ wire' = <<>>
      BY <2>2 DEF Reconnect, Close
    <3>2. Quiet(requests', wire')
      BY <3>1, NothingHeard, UnlinkAsks DEF Asking, Shape, OnLink
    <3>3. PICK c : call' = [call EXCEPT !["turn"] = c] /\ c.at = "dial" /\ c.body = "APP"
      BY <2>2, Bounds, ReconnectIs
    <3>4. Turn' = c
      BY <3>3, Bounds DEF Turn, Shape, OnCall
    <3> QED  BY <3>2, <3>3, <3>4, QuietAsks
  <2>3. CASE ~need /\ Refresh("turn")
    <3>1. UNCHANGED <<requests, wire>>
      BY <2>3 DEF Refresh, link
    <3>2. Quiet(requests, wire)
      BY <2>1, <2>3 DEF Asking, Stale
    <3>3. PICK c : /\ call' = [call EXCEPT !["turn"] = c]
                   /\ \/ c.at = "lock" /\ c.body = "LSQ"
                      \/ c.at = "idle" /\ got' = [got EXCEPT !["turn"] = Ended("unresolved")]
      BY <2>3, Bounds, RefreshIs
    <3>4. Turn' = c /\ (got' = [got EXCEPT !["turn"] = Ended("unresolved")] => got'["turn"].kind = "unresolved")
      BY <3>3, Bounds DEF Turn, Shape, OnCall, Ended
    <3> QED  BY <3>1, <3>2, <3>3, <3>4, QuietAsks
  <2> QED  BY <1>23, <2>2, <2>3 DEF Poll
<1>24. CASE PollReturns
  <2>1. /\ ld \in {"phase", "front", "await"} /\ Turn.at = "idle" /\ got["turn"] # Nothing
        /\ UNCHANGED <<requests, wire>>
        /\ call' = [call EXCEPT !["turn"] = Idle] /\ got' = [got EXCEPT !["turn"] = Nothing]
    BY <1>24 DEF PollReturns, Waits, Still, Take, Returned, Turn, link
  <2>2. Turn'.at = "idle" /\ got'["turn"].kind = "nothing"
    BY <2>1, Bounds DEF Turn, Shape, OnCall, Idle, Nothing
  <2>3. CASE got["turn"].kind = "table"
    <3>1. Quiet(requests, wire)
      BY <2>1, <2>3 DEF Asking, Stale
    <3> QED  BY <2>1, <2>2, <3>1, QuietAsks
  <2>4. CASE got["turn"].kind # "table"
    <3>1. ld' \in {ld, "failed"} /\ need' = TRUE
      BY <1>24, <2>4 DEF PollReturns, Result, Retry
    <3>2. Stale'
      BY <2>2, <3>1 DEF Stale
    <3> QED  BY <2>1, <2>2, <3>1, <3>2, StaleAsks DEF Asking, Waits
  <2> QED  BY <2>3, <2>4
<1>25. CASE Issue
  <2>1. /\ ld \in {"exit", "load"} /\ Turn.at = "idle" /\ UNCHANGED <<requests, wire>>
        /\ \E name : Execute("turn", name, ld)
    BY <1>25 DEF Issue, Free, Execute, link, Turn
  <2>2. Quiet(requests, wire)
    BY <2>1 DEF Asking, Waits
  <2>3. PICK c : /\ call' = [call EXCEPT !["turn"] = c]
                 /\ c.at = "lock" \/ (c.at = "idle" /\ got' = [got EXCEPT !["turn"] = Ended("unresolved")])
    <3>1. ld \in Bodies
      BY <2>1 DEF Bodies
    <3> QED  BY <2>1, <3>1, Bounds, ExecuteIs
  <2>4. Turn' = c /\ (got' = [got EXCEPT !["turn"] = Ended("unresolved")] => got'["turn"].kind = "unresolved")
    BY <2>3, Bounds DEF Turn, Shape, OnCall, Ended
  <2> QED  BY <2>1, <2>2, <2>3, <2>4, QuietAsks
<1>26. CASE IssueReturns
  <2>1. /\ ld \in {"exit", "load"} /\ Turn.at = "idle" /\ UNCHANGED <<requests, wire>>
        /\ call' = [call EXCEPT !["turn"] = Idle] /\ got' = [got EXCEPT !["turn"] = Nothing]
    BY <1>26 DEF IssueReturns, Still, Take, Returned, Turn, link
  <2>2. Turn'.at = "idle" /\ got'["turn"].kind = "nothing"
    BY <2>1, Bounds DEF Turn, Shape, OnCall, Idle, Nothing
  <2>3. Quiet(requests, wire)
    BY <2>1 DEF Asking, Waits
  <2> QED  BY <2>1, <2>2, <2>3, QuietAsks
<1>27. CASE Verify
  <2>1. ld = "verify" /\ Turn.at = "idle" /\ got["turn"] = Nothing
    BY <1>27 DEF Verify, Free, Turn
  <2>2. CASE Reconnect("turn")
    <3>1. Unlink /\ wire' = <<>>
      BY <2>2 DEF Reconnect, Close
    <3>2. Quiet(requests', wire')
      BY <3>1, NothingHeard, UnlinkAsks DEF Asking, Shape, OnLink
    <3>3. PICK c : call' = [call EXCEPT !["turn"] = c] /\ c.at = "dial" /\ c.body = "APP"
      BY <2>2, Bounds, ReconnectIs
    <3>4. Turn' = c
      BY <3>3, Bounds DEF Turn, Shape, OnCall
    <3> QED  BY <3>2, <3>3, <3>4, QuietAsks
  <2>3. CASE ~need /\ Execute("turn", "InGame", "verify")
    <3>1. UNCHANGED <<requests, wire>>
      BY <2>3 DEF Execute, link
    <3>2. Quiet(requests, wire)
      BY <2>1, <2>3 DEF Asking, Stale
    <3>3. PICK c : /\ call' = [call EXCEPT !["turn"] = c]
                   /\ c.at = "lock" \/ (c.at = "idle" /\ got' = [got EXCEPT !["turn"] = Ended("unresolved")])
      <4>1. "verify" \in Bodies
        BY DEF Bodies
      <4> QED  BY <2>3, <4>1, Bounds, ExecuteIs
    <3>4. Turn' = c /\ (got' = [got EXCEPT !["turn"] = Ended("unresolved")] => got'["turn"].kind = "unresolved")
      BY <3>3, Bounds DEF Turn, Shape, OnCall, Ended
    <3> QED  BY <3>1, <3>2, <3>3, <3>4, QuietAsks
  <2> QED  BY <1>27, <2>2, <2>3 DEF Verify
<1>28. CASE VerifyReturns
  <2>1. /\ ld = "verify" /\ Turn.at = "idle" /\ UNCHANGED <<requests, wire>>
        /\ call' = [call EXCEPT !["turn"] = Idle] /\ got' = [got EXCEPT !["turn"] = Nothing]
    BY <1>28 DEF VerifyReturns, Still, Take, Returned, Turn, link
  <2>2. Turn'.at = "idle" /\ got'["turn"].kind = "nothing"
    BY <2>1, Bounds DEF Turn, Shape, OnCall, Idle, Nothing
  <2>3. CASE got["turn"].kind \in {"table", "value"}
    <3>1. Quiet(requests, wire)
      BY <2>1, <2>3 DEF Asking, Stale
    <3> QED  BY <2>1, <2>2, <3>1, QuietAsks
  <2>4. CASE got["turn"].kind \notin {"table", "value"}
    <3>1. ld' \in {ld, "failed"} /\ need' = TRUE
      BY <1>28, <2>4 DEF VerifyReturns, Result, Retry
    <3>2. Stale'
      BY <2>2, <3>1 DEF Stale
    <3> QED  BY <2>1, <2>2, <3>1, <3>2, StaleAsks DEF Asking, Waits
  <2> QED  BY <2>3, <2>4
<1>29. CASE VerifyExpires
  <2>1. /\ ld' = "failed" /\ UNCHANGED <<requests, wire, call, got>> /\ Turn.at = "idle"
             /\ got["turn"] = Nothing
    BY <1>29 DEF VerifyExpires, nexusVars, link, calls, Retry, Free, Turn
  <2>2. Turn'.at = "idle" /\ got'["turn"].kind = "nothing"
    BY <2>1 DEF Turn, Nothing
  <2> QED  BY <2>1, <2>2, StaleAsks DEF Asking
<1>30. CASE DeadlinePasses
  <2>1. UNCHANGED <<requests, wire, call, got, ld, need, table>>
    BY <1>30 DEF DeadlinePasses, vars, nexusVars, game, link, session, calls, loader, Fault
  <2> QED  BY <2>1, LinkAsks DEF Asking
<1>31. CASE LoseFile
  <2>1. UNCHANGED <<requests, wire, call, got, ld, need, table>>
    BY <1>31 DEF LoseFile, vars, nexusVars, game, link, session, calls, loader, Fault
  <2> QED  BY <2>1, LinkAsks DEF Asking
<1>32. CASE UNCHANGED vars
  <2>1. UNCHANGED <<requests, wire, call, got, ld, need, table>>
    BY <1>32 DEF vars, vars, nexusVars, game, link, session, calls, loader, Fault
  <2> QED  BY <2>1, LinkAsks DEF Asking
<1> QED
  BY <1>1, <1>2, <1>3, <1>4, <1>5, <1>6, <1>7, <1>8, <1>9, <1>10, <1>11, <1>12,
     <1>13, <1>14, <1>15, <1>16, <1>17, <1>18, <1>19, <1>20, <1>21, <1>22, <1>23,
     <1>24, <1>25, <1>26, <1>27, <1>28, <1>29, <1>30, <1>31, <1>32
     DEF Next, GameStep, ClientStep, LoaderStep

-----------------------------------------------------------------------------
(* Told *)

(* What is printed carries a nonce. *)
LEMMA OutNonces ==
  ASSUME Shape, NEW l \in Out(buffer, wire)
  PROVE  l.nonce \in Nat
<1>1. \A s \in Seq(Lines) : \A m \in Spoken(s) : m.nonce \in Nat
  <2>1. SUFFICES ASSUME NEW s \in Seq(Lines), NEW k \in DOMAIN s PROVE s[k].nonce \in Nat
    BY DEF Spoken
  <2>2. s[k] \in Lines
    OBVIOUS
  <2> QED  BY <2>2 DEF Lines
<1>2. \A k \in DOMAIN wire \ Heard(wire) : wire[k].lines \in Seq(Lines)
  <2>1. SUFFICES ASSUME NEW k \in DOMAIN wire, wire[k].tag # "hand" PROVE wire[k].lines \in Seq(Lines)
    BY DEF Heard
  <2>2. wire[k] \in Frames
    BY DEF Shape, OnLink
  <2> QED  BY <2>1, <2>2 DEF Frames, Outputs, Answers
<1>3. buffer \in Seq(Lines)
  BY DEF Shape, OnLink
<1> QED  BY <1>1, <1>2, <1>3 DEF Out

(* A step of the link says nothing of a command to come, nor of another board. *)
LEMMA ToldLink ==
  ASSUME Told, call' = call, got' = got, nonce' = nonce, ld' = ld,
         ld \in {"verify", "loaded"} => board' = board, AllSealed(buffer', wire'),
         \A l \in Out(buffer', wire') :
            l \in Out(buffer, wire) \/ (l.nonce <= nonce /\ l.value.turn = board')
  PROVE  Told'
<1>1. Turn' = Turn
  BY DEF Turn
<1> QED  BY <1>1 DEF Told, OwnResult

(* A step of a call: what it ends with is its own; a new command has a new nonce. *)
LEMMA ToldCall ==
  ASSUME Shape, Told, AllSealed(buffer', wire'),
         \A l \in Out(buffer', wire') : l \in Out(buffer, wire),
         nonce' \in Nat, nonce <= nonce', board' = board, ld' = ld, NEW t \in Tasks, NEW c, NEW r,
         call' = [call EXCEPT ![t] = c],
         \/ got' = got /\ got[t].kind # "value"
         \/ /\ got' = [got EXCEPT ![t] = r]
            /\ r.kind = "value" => /\ r.nonce = c.nonce
                                   /\ ld = "verify" => r.value.turn = board,
         ld = "verify" /\ t = "turn" /\ c.at \in {"lock", "output"} =>
            (call[t].at \in {"lock", "output"} /\ c.nonce = call[t].nonce) \/ c.nonce = nonce + 1
  PROVE  Told'
<1>1. /\ \A s \in Tasks : call'[s] = IF s = t THEN c ELSE call[s]
      /\ \A s \in Tasks \ {t} : got'[s] = got[s]
      /\ \/ got'[t] = got[t] /\ got[t].kind # "value"
         \/ got'[t] = r /\ (r.kind = "value" => r.nonce = c.nonce)
  BY DEF Shape, OnCall
<1>2. \A l \in Out(buffer', wire') : l.nonce \in Nat /\ l.nonce <= nonce
  BY OutNonces DEF Told
<1>3. nonce \in Nat
  BY Bounds DEF Shape, Plain
<1>4. \A l \in Out(buffer', wire') : l.nonce <= nonce' /\ l.nonce # nonce + 1
  BY <1>2, <1>3
<1>5. OwnResult'
  BY <1>1 DEF Told, OwnResult
<1>6. ASSUME ld' = "verify", Turn'.at \in {"lock", "output"}, NEW l \in Out(buffer', wire'), l.nonce = Turn'.nonce
      PROVE  l.value.turn = board'
  <2>1. CASE t = "turn"
    <3>1. Turn' = c /\ call[t] = Turn
      BY <1>1, <2>1 DEF Turn
    <3>2. Turn.at \in {"lock", "output"} /\ c.nonce = Turn.nonce
      BY <1>4, <1>6, <2>1, <3>1
    <3> QED  BY <1>6, <3>1, <3>2 DEF Told
  <2>2. CASE t # "turn"
    <3>1. Turn' = Turn
      BY <1>1, <2>2, Bounds DEF Turn
    <3> QED  BY <1>6, <3>1 DEF Told
  <2> QED  BY <2>1, <2>2
<1>7. ld' = "verify" /\ got'["turn"].kind = "value" => got'["turn"].value.turn = board'
  BY <1>1, Bounds DEF Told
<1>8. ld' = "loaded" => board' = Save
  BY DEF Told
<1> QED  BY <1>4, <1>5, <1>6, <1>7, <1>8 DEF Told

(* A step of the loader, which has taken its result. *)
LEMMA ToldStep ==
  ASSUME Shape, Told, UNCHANGED <<buffer, wire, nonce, board>>,
         \/ got' = [got EXCEPT !["turn"] = Nothing] /\ call' = [call EXCEPT !["turn"] = Idle]
         \/ got' = [s \in Tasks |-> Nothing] /\ call' = [s \in Tasks |-> Idle],
         ld' = "loaded" => board = Save
  PROVE  Told'
<1>1. /\ got'["turn"] = Nothing /\ call'["turn"] = Idle
      /\ \A s \in Tasks : got'[s] = Nothing \/ (got'[s] = got[s] /\ call'[s] = call[s])
  BY Bounds DEF Shape, OnCall
<1>2. Nothing.kind = "nothing" /\ Turn'.at = "idle"
  BY <1>1 DEF Nothing, Idle, Turn
<1> QED  BY <1>1, <1>2 DEF Told, OwnResult

(* The link is closed and its frames dropped, or the buffer is emptied. *)
LEMMA LessSaid ==
  /\ AllSealed(buffer, wire) => AllSealed(buffer, <<>>) /\ AllSealed(<<>>, wire) /\ AllSealed(<<>>, <<>>)
  /\ \A l : l \in Out(buffer, <<>>) \/ l \in Out(<<>>, wire) \/ l \in Out(<<>>, <<>>) => l \in Out(buffer, wire)
<1>1. Sealed(<<>>) /\ Spoken(<<>>) = {}
  BY DEF Sealed, Spoken
<1> QED  BY <1>1 DEF AllSealed, Out, Heard

(* While it waits, a call has no result. *)
LEMMA NoValueYet ==
  ASSUME Locked, NEW t \in Tasks, call[t].at # "idle"
  PROVE  got[t].kind # "value"
BY DEF Locked, Nothing

(* What an ended call is told. *)
LEMMA EndedKind ==
  \A k : Ended(k).kind = k
BY DEF Ended

(* What the output says is what the commands did, and every caller is told its own. *)
LEMMA ToldKept ==
  Shape /\ Locked /\ Linked /\ Open /\ Asking
    /\ Aimed(requests, phase) /\ Stage /\ Told /\ [Next]_vars => Told'
<1> SUFFICES ASSUME Shape, Locked, Linked, Open, Asking, Aimed(requests, phase), Stage, Told, [Next]_vars
     PROVE Told'
  OBVIOUS
<1>1. ASSUME ServeHandshake, UNCHANGED loader PROVE Told'
  <2>1. /\ Heard(wire) = {}
        /\ wire' = wire \/ \E h \in Answers : wire' = wire \o <<h>>
    BY <1>1, HandshakeServed DEF Asking
  <2>2. UNCHANGED <<call, got, nonce, ld, board, buffer>>
    BY <1>1 DEF ServeHandshake, game, session, calls, loader
  <2>3. AllSealed(buffer, wire) /\ nonce \in Nat /\ wire \in Seq(Frames)
    BY Bounds DEF Told, Shape, Plain, OnLink
  <2>4. AllSealed(buffer, wire') /\ Out(buffer, wire') = Out(buffer, wire)
    <3>1. ASSUME NEW h \in Answers
          PROVE  AllSealed(buffer, wire \o <<h>>) /\
                 Out(buffer, wire \o <<h>>) = Out(buffer, wire)
      BY <2>1, <2>3, AnswerBehind
    <3>2. CASE wire' = wire
      BY <2>3, <3>2
    <3>3. ASSUME NEW h \in Answers, wire' = wire \o <<h>>
          PROVE  AllSealed(buffer, wire') /\ Out(buffer, wire') = Out(buffer, wire)
      BY <3>1, <3>3
    <3> QED  BY <2>1, <3>2, <3>3
  <2> QED  BY <2>2, <2>4, ToldLink
<1>2. ASSUME ServeCommand, UNCHANGED loader PROVE Told'
  <2> DEFINE c == Head(requests)
  <2>1. /\ requests # <<>> /\ c.body \notin Handshakes
        /\ board' = board \/ c.body = "act"
        /\ \/ wire' = wire
           \/ \E f \in Seq(Outputs) :
                /\ wire' = wire \o f /\ \A k \in DOMAIN f : Sealed(f[k].lines)
                /\ \A k \in DOMAIN f : \A l \in Spoken(f[k].lines) :
                     l.nonce = c.nonce /\ l.value.turn = board'
    BY <1>2, CommandServed
  <2>2. UNCHANGED <<call, got, nonce, ld, buffer>>
    BY <1>2 DEF ServeCommand, session, calls, loader
  <2>3. AllSealed(buffer, wire) /\ nonce \in Nat /\ wire \in Seq(Frames)
    BY Bounds DEF Told, Shape, Plain, OnLink
  <2>4. c = requests[1] /\ 1 \in DOMAIN requests
    BY <2>1, Shorter DEF Shape, OnLink
  <2>5. c.nonce <= nonce
    BY <2>4, RequestAt
  <2>6. ld \in {"verify", "loaded"} => board' = board
    BY <2>1, <2>4 DEF Stage, VerifyStage, Sent
  <2> HIDE DEF c
  <2>7. /\ AllSealed(buffer, wire')
        /\ \A l \in Out(buffer, wire') :
             l \in Out(buffer, wire) \/ (l.nonce <= nonce /\ l.value.turn = board')
    <3>1. CASE wire' = wire
      BY <2>3, <3>1
    <3>2. ASSUME NEW f \in Seq(Outputs), wire' = wire \o f, \A k \in DOMAIN f : Sealed(f[k].lines),
                 \A k \in DOMAIN f : \A l \in Spoken(f[k].lines) : l.nonce = c.nonce /\ l.value.turn = board'
          PROVE  /\ AllSealed(buffer, wire')
                 /\ \A l \in Out(buffer, wire') :
                      l \in Out(buffer, wire) \/ (l.nonce <= nonce /\ l.value.turn = board')
      <4>1. AllSealed(buffer, wire \o f)
        BY <2>3, <3>2, OutputBehind
      <4>2. \A l \in Out(buffer, wire \o f) :
               l \in Out(buffer, wire) \/ \E k \in DOMAIN f : l \in Spoken(f[k].lines)
        BY <2>3, OutputBehind
      <4> QED  BY <2>5, <3>2, <4>1, <4>2
    <3> QED  BY <2>1, <3>1, <3>2
  <2> QED  BY <2>2, <2>6, <2>7, ToldLink
<1>3. ASSUME ReachMenu, UNCHANGED loader PROVE Told'
  <2>1. UNCHANGED <<call, got, nonce, ld, buffer, wire, board>>
    BY <1>3 DEF ReachMenu, vars, nexusVars, game, link, session, calls, loader, Fault
  <2>2. ld \in {"verify", "loaded"} => board' = board
    BY <2>1 DEF Stage, VerifyStage
  <2> QED  BY <2>1, <2>2, ToldLink DEF Told
<1>4. ASSUME LoadCompletes, UNCHANGED loader PROVE Told'
  <2>1. UNCHANGED <<call, got, nonce, ld, buffer, wire>> /\ phase = "loading"
    BY <1>4 DEF LoadCompletes, vars, nexusVars, game, link, session, calls, loader, Fault
  <2>2. ld \in {"verify", "loaded"} => board' = board
    BY <2>1 DEF Stage, VerifyStage
  <2> QED  BY <2>1, <2>2, ToldLink DEF Told
<1>5. ASSUME DropLink, UNCHANGED loader PROVE Told'
  <2>1. UNCHANGED <<call, got, nonce, ld, buffer, wire, board>>
    BY <1>5 DEF DropLink, vars, nexusVars, game, link, session, calls, loader, Fault
  <2>2. ld \in {"verify", "loaded"} => board' = board
    BY <2>1 DEF Stage, VerifyStage
  <2> QED  BY <2>1, <2>2, ToldLink DEF Told
<1>6. ASSUME Crash, UNCHANGED loader PROVE Told'
  <2>1. UNCHANGED <<call, got, nonce, ld, buffer, wire, board>>
    BY <1>6 DEF Crash, vars, nexusVars, game, link, session, calls, loader, Fault
  <2>2. ld \in {"verify", "loaded"} => board' = board
    BY <2>1 DEF Stage, VerifyStage
  <2> QED  BY <2>1, <2>2, ToldLink DEF Told
<1>7. ASSUME NEW t \in Tasks, TakeLock(t), UNCHANGED loader PROVE Told'
  <2>1. UNCHANGED <<nonce, ld, board, buffer, wire, got>> /\ call[t].at = "lock"
    BY <1>7, TakeAt DEF TakeLock, game, session, loader
  <2>2. nonce' \in Nat /\ nonce <= nonce' /\ got[t].kind # "value"
    BY <2>1, Bounds, NoValueYet DEF Shape, Plain
  <2>3. PICK c : call' = [call EXCEPT ![t] = c] /\ c.nonce = call[t].nonce
    BY <1>7, MoveIs
  <2> QED  BY <2>1, <2>2, <2>3, ToldCall DEF Told
<1>8. ASSUME NEW t \in Tasks, ReadOutput(t), UNCHANGED loader PROVE Told'
  <2>1. UNCHANGED <<nonce, ld, board>> /\ call[t].at = "output"
    BY <1>8 DEF ReadOutput, game, loader
  <2>2. nonce' \in Nat /\ nonce <= nonce' /\ got[t].kind # "value"
    BY <2>1, Bounds, NoValueYet DEF Shape, Plain
  <2>3. AllSealed(buffer', wire') /\ \A l \in Out(buffer', wire') : l \in Out(buffer, wire)
    BY <1>8, ReadIs DEF Told
  <2>4. PICK c, r : /\ call' = [call EXCEPT ![t] = c] /\ c.nonce = call[t].nonce
                    /\ \/ c = call[t] /\ got' = got
                       \/ /\ c.at = "idle" /\ got' = [got EXCEPT ![t] = r]
                          /\ r.kind = "value" =>
                               /\ r.nonce = call[t].nonce
                               /\ \E l \in Out(buffer, wire) : l.nonce = r.nonce /\ l.value = r.value
    BY <1>8, ReadIs, Zenon DEF Told
  <2>5. ASSUME ld = "verify", r.kind = "value", got' = [got EXCEPT ![t] = r], c.at = "idle"
        PROVE  r.value.turn = board
    <3>1. t = "turn" /\ call[t] = Turn
      BY <2>1, <2>5, Apart
    <3>2. PICK l \in Out(buffer, wire) : l.nonce = Turn.nonce /\ l.value = r.value
      BY <2>1, <2>4, <2>5, <3>1
    <3> QED  BY <2>1, <2>5, <3>1, <3>2 DEF Told
  <2>6. CASE c = call[t] /\ got' = got
    BY <2>1, <2>2, <2>3, <2>4, <2>6, ToldCall
  <2>7. CASE /\ c.at = "idle" /\ got' = [got EXCEPT ![t] = r]
             /\ r.kind = "value" => r.nonce = call[t].nonce
    BY <2>1, <2>2, <2>3, <2>4, <2>5, <2>7, ToldCall
  <2> QED  BY <2>4, <2>6, <2>7
<1>9. ASSUME NEW t \in Tasks, SkipFrame(t), UNCHANGED loader PROVE Told'
  <2>1. /\ UNCHANGED <<call, got, nonce, ld, board, buffer>> /\ wire # <<>> /\ wire' = Tail(wire)
    BY <1>9 DEF SkipFrame, NextFrame, game, session, calls, loader
  <2>2. AllSealed(buffer, wire) /\ nonce \in Nat /\ wire \in Seq(Frames)
    BY Bounds DEF Told, Shape, Plain, OnLink
  <2>3. AllSealed(buffer, wire') /\ Out(buffer, wire') \subseteq Out(buffer, wire)
    BY <2>1, <2>2, LessIsOut
  <2> QED  BY <2>1, <2>3, ToldLink
<1>10. ASSUME NEW t \in Tasks, ReadTable(t), UNCHANGED loader PROVE Told'
  <2>1. /\ UNCHANGED <<nonce, ld, board, buffer>> /\ wire # <<>> /\ wire' = Tail(wire)
        /\ Finish(t, Ended("table"))
    BY <1>10 DEF ReadTable, NextFrame, game, loader
  <2>2. AllSealed(buffer, wire) /\ nonce \in Nat /\ wire \in Seq(Frames)
    BY Bounds DEF Told, Shape, Plain, OnLink
  <2>3. AllSealed(buffer, wire') /\ Out(buffer, wire') \subseteq Out(buffer, wire)
    BY <2>1, <2>2, LessIsOut
  <2>4. PICK c : call' = [call EXCEPT ![t] = c] /\ c.at = "idle"
          /\ got' = [got EXCEPT ![t] = Ended("table")]
    BY <2>1, FinishIs
  <2>5. nonce' \in Nat /\ nonce <= nonce' /\ Ended("table").kind # "value"
    BY <2>1, <2>2, EndedKind
  <2> QED  BY <2>1, <2>3, <2>4, <2>5, ToldCall
<1>11. ASSUME NEW t \in Tasks, ReadGreeting(t), UNCHANGED loader PROVE Told'
  <2>1. /\ UNCHANGED <<nonce, ld, board, buffer, got>> /\ wire # <<>> /\ wire' = Tail(wire)
        /\ call[t].at = "greet"
    BY <1>11 DEF ReadGreeting, NextFrame, game, session, loader
  <2>2. nonce' \in Nat /\ nonce <= nonce' /\ got[t].kind # "value"
    BY <2>1, Bounds, NoValueYet DEF Shape, Plain
  <2>3. AllSealed(buffer, wire) /\ nonce \in Nat /\ wire \in Seq(Frames)
    BY Bounds DEF Told, Shape, Plain, OnLink
  <2>4. AllSealed(buffer, wire') /\ Out(buffer, wire') \subseteq Out(buffer, wire)
    BY <2>1, <2>3, LessIsOut
  <2>5. PICK c : call' = [call EXCEPT ![t] = c] /\ c.at = "shake"
    BY <1>11, MoveIs
  <2> QED  BY <2>1, <2>2, <2>4, <2>5, ToldCall
<1>12. ASSUME NEW t \in Tasks, CommandTimesOut(t), UNCHANGED loader PROVE Told'
  <2>1. UNCHANGED <<nonce, ld, board>> /\ Finish(t, Ended("timeout"))
    BY <1>12 DEF CommandTimesOut, game, session, loader
  <2>2. buffer' \in {buffer, <<>>} /\ wire' \in {wire, <<>>}
    BY <1>12 DEF CommandTimesOut, Close, link, session
  <2>3. AllSealed(buffer', wire') /\ \A l \in Out(buffer', wire') : l \in Out(buffer, wire)
    BY <2>2, LessSaid DEF Told
  <2>4. PICK c : call' = [call EXCEPT ![t] = c] /\ c.at = "idle"
          /\ got' = [got EXCEPT ![t] = Ended("timeout")]
    BY <2>1, FinishIs
  <2>5. nonce' \in Nat /\ nonce <= nonce' /\ Ended("timeout").kind # "value"
    BY <2>1, Bounds, EndedKind DEF Shape, Plain
  <2> QED  BY <2>1, <2>3, <2>4, <2>5, ToldCall
<1>13. ASSUME NEW t \in Tasks, HandshakeTimesOut(t), UNCHANGED loader PROVE Told'
  <2>1. UNCHANGED <<nonce, ld, board>> /\ Finish(t, Ended("timeout"))
    BY <1>13 DEF HandshakeTimesOut, game, session, loader
  <2>2. buffer' \in {buffer, <<>>} /\ wire' \in {wire, <<>>}
    BY <1>13 DEF HandshakeTimesOut, Close, link, session
  <2>3. AllSealed(buffer', wire') /\ \A l \in Out(buffer', wire') : l \in Out(buffer, wire)
    BY <2>2, LessSaid DEF Told
  <2>4. PICK c : call' = [call EXCEPT ![t] = c] /\ c.at = "idle"
          /\ got' = [got EXCEPT ![t] = Ended("timeout")]
    BY <2>1, FinishIs
  <2>5. nonce' \in Nat /\ nonce <= nonce' /\ Ended("timeout").kind # "value"
    BY <2>1, Bounds, EndedKind DEF Shape, Plain
  <2> QED  BY <2>1, <2>3, <2>4, <2>5, ToldCall
<1>14. ASSUME NEW t \in Tasks, CommandFindsClosed(t), UNCHANGED loader PROVE Told'
  <2>1. UNCHANGED <<nonce, ld, board>> /\ Finish(t, Ended("closed"))
    BY <1>14 DEF CommandFindsClosed, game, session, loader
  <2>2. buffer' \in {buffer, <<>>} /\ wire' \in {wire, <<>>}
    BY <1>14 DEF CommandFindsClosed, Close, link, session
  <2>3. AllSealed(buffer', wire') /\ \A l \in Out(buffer', wire') : l \in Out(buffer, wire)
    BY <2>2, LessSaid DEF Told
  <2>4. PICK c : call' = [call EXCEPT ![t] = c] /\ c.at = "idle"
          /\ got' = [got EXCEPT ![t] = Ended("closed")]
    BY <2>1, FinishIs
  <2>5. nonce' \in Nat /\ nonce <= nonce' /\ Ended("closed").kind # "value"
    BY <2>1, Bounds, EndedKind DEF Shape, Plain
  <2> QED  BY <2>1, <2>3, <2>4, <2>5, ToldCall
<1>15. ASSUME NEW t \in Tasks, HandshakeFindsClosed(t), UNCHANGED loader PROVE Told'
  <2>1. UNCHANGED <<nonce, ld, board, buffer>> /\ Refused(t) /\ call[t].at # "idle"
    BY <1>15 DEF HandshakeFindsClosed, game, session, loader
  <2>2. wire' \in {wire, <<>>}
    BY <1>15 DEF HandshakeFindsClosed, Close, link
  <2>3. AllSealed(buffer', wire') /\ \A l \in Out(buffer', wire') : l \in Out(buffer, wire)
    BY <2>1, <2>2, LessSaid DEF Told
  <2>4. PICK c : /\ call' = [call EXCEPT ![t] = c]
                 /\ \/ c.at = "dial" /\ got' = got
                    \/ c.at = "idle" /\ got' = [got EXCEPT ![t] = Ended("refused")]
    BY <2>1, RefusedIs
  <2>5. nonce' \in Nat /\ nonce <= nonce' /\ Ended("refused").kind # "value" /\ got[t].kind # "value"
    BY <2>1, Bounds, EndedKind, NoValueYet DEF Shape, Plain
  <2> QED  BY <2>1, <2>3, <2>4, <2>5, ToldCall
<1>16. ASSUME NEW t \in Tasks, DialAccepted(t), UNCHANGED loader PROVE Told'
  <2>1. UNCHANGED <<nonce, ld, board, got>> /\ call[t].at = "dial" /\ wire' = <<>> /\ buffer' = <<>>
    BY <1>16 DEF DialAccepted, game, loader
  <2>2. nonce' \in Nat /\ nonce <= nonce' /\ got[t].kind # "value"
    BY <2>1, Bounds, NoValueYet DEF Shape, Plain
  <2>3. AllSealed(buffer', wire') /\ \A l \in Out(buffer', wire') : l \in Out(buffer, wire)
    BY <2>1, LessSaid DEF Told
  <2>4. PICK c : call' = [call EXCEPT ![t] = c] /\ c.at = "greet"
    BY <1>16, MoveIs
  <2> QED  BY <2>1, <2>2, <2>3, <2>4, ToldCall
<1>17. ASSUME NEW t \in Tasks, DialRefused(t), UNCHANGED loader PROVE Told'
  <2>1. UNCHANGED <<nonce, ld, board, buffer>> /\ Refused(t) /\ call[t].at # "idle"
    BY <1>17 DEF DialRefused, game, session, loader
  <2>2. wire' \in {wire, <<>>}
    BY <1>17 DEF DialRefused, Close, link
  <2>3. AllSealed(buffer', wire') /\ \A l \in Out(buffer', wire') : l \in Out(buffer, wire)
    BY <2>1, <2>2, LessSaid DEF Told
  <2>4. PICK c : /\ call' = [call EXCEPT ![t] = c]
                 /\ \/ c.at = "dial" /\ got' = got
                    \/ c.at = "idle" /\ got' = [got EXCEPT ![t] = Ended("refused")]
    BY <2>1, RefusedIs
  <2>5. nonce' \in Nat /\ nonce <= nonce' /\ Ended("refused").kind # "value" /\ got[t].kind # "value"
    BY <2>1, Bounds, EndedKind, NoValueYet DEF Shape, Plain
  <2> QED  BY <2>1, <2>3, <2>4, <2>5, ToldCall
<1>18. ASSUME NEW t \in Tasks, Receive(t) PROVE Told'
  <2>1. UNCHANGED <<nonce, ld, board, buffer, wire>> /\ got' = [got EXCEPT ![t] = Nothing]
        /\ call' = [call EXCEPT ![t] = Idle] /\ ld = "off"
    BY <1>18 DEF Receive, Take, Cancel, game, link, session, loader
  <2>2. AllSealed(buffer', wire') /\ \A l \in Out(buffer', wire') : l \in Out(buffer, wire)
    BY <2>1 DEF Told
  <2>3. nonce' \in Nat /\ nonce <= nonce' /\ Nothing.kind # "value"
    BY <2>1, Bounds DEF Shape, Plain, Nothing
  <2> QED  BY <2>1, <2>2, <2>3, ToldCall
<1>19. ASSUME NEW t \in Tasks, CancelCall(t) PROVE Told'
  <2>1. UNCHANGED <<nonce, ld, board, buffer, wire>> /\ got' = [got EXCEPT ![t] = Nothing]
        /\ call' = [call EXCEPT ![t] = Idle] /\ ld = "off"
    BY <1>19 DEF CancelCall, Take, Cancel, game, link, session, loader
  <2>2. AllSealed(buffer', wire') /\ \A l \in Out(buffer', wire') : l \in Out(buffer, wire)
    BY <2>1 DEF Told
  <2>3. nonce' \in Nat /\ nonce <= nonce' /\ Nothing.kind # "value"
    BY <2>1, Bounds DEF Shape, Plain, Nothing
  <2> QED  BY <2>1, <2>2, <2>3, ToldCall
<1>20. CASE Act
  <2>1. /\ ld' = ld /\ "turn" \in Tasks /\ got["turn"].kind # "value"
        /\ \E name : \E body \in Bodies : Execute("turn", name, body)
    BY <1>20, Bounds DEF Act, loader, Bodies, Nothing, Free
  <2>2. PICK name, body : body \in Bodies /\ Execute("turn", name, body)
    BY <2>1
  <2>3. UNCHANGED <<board, buffer, wire>>
    BY <2>2 DEF Execute, game, link
  <2>4. PICK c : /\ call' = [call EXCEPT !["turn"] = c]
                 /\ \/ c.at = "lock" /\ c.nonce = nonce + 1 /\ nonce' = nonce + 1 /\ UNCHANGED got
                    \/ /\ c.at = "idle" /\ nonce' = nonce
                            /\ got' = [got EXCEPT !["turn"] = Ended("unresolved")]
    BY <2>1, <2>2, ExecuteIs
  <2>5. nonce' \in Nat /\ nonce <= nonce' /\ Ended("unresolved").kind # "value"
    BY <2>4, Bounds, EndedKind DEF Shape, Plain
  <2>6. AllSealed(buffer', wire') /\ \A l \in Out(buffer', wire') : l \in Out(buffer, wire)
    BY <2>3 DEF Told
  <2> QED  BY <2>1, <2>3, <2>4, <2>5, <2>6, ToldCall
<1>21. CASE Probe
  <2>1. /\ ld' = ld /\ "watch" \in Tasks /\ got["watch"].kind # "value"
        /\ \E name : \E body \in Bodies : Execute("watch", name, body)
    BY <1>21, Bounds DEF Probe, loader, Bodies, Nothing, Free
  <2>2. PICK name, body : body \in Bodies /\ Execute("watch", name, body)
    BY <2>1
  <2>3. UNCHANGED <<board, buffer, wire>>
    BY <2>2 DEF Execute, game, link
  <2>4. PICK c : /\ call' = [call EXCEPT !["watch"] = c]
                 /\ \/ c.at = "lock" /\ c.nonce = nonce + 1 /\ nonce' = nonce + 1 /\ UNCHANGED got
                    \/ /\ c.at = "idle" /\ nonce' = nonce
                            /\ got' = [got EXCEPT !["watch"] = Ended("unresolved")]
    BY <2>1, <2>2, ExecuteIs
  <2>5. nonce' \in Nat /\ nonce <= nonce' /\ Ended("unresolved").kind # "value"
    BY <2>4, Bounds, EndedKind DEF Shape, Plain
  <2>6. AllSealed(buffer', wire') /\ \A l \in Out(buffer', wire') : l \in Out(buffer, wire)
    BY <2>3 DEF Told
  <2> QED  BY <2>1, <2>3, <2>4, <2>5, <2>6, ToldCall
<1>22. CASE BeginLoad
  <2>1. UNCHANGED <<buffer, wire, nonce, board>>
    BY <1>22 DEF BeginLoad, game, link, session
  <2>2. /\ got' = [s \in Tasks |-> Nothing] /\ call' = [s \in Tasks |-> Idle] /\ ld' # "loaded"
    BY <1>22 DEF BeginLoad, BeginWait
  <2> QED  BY <2>1, <2>2, ToldStep
<1>23. CASE Poll
  <2>1. ld \in {"phase", "front", "await"} /\ ld' = ld /\ got["turn"].kind # "value"
    BY <1>23 DEF Poll, Waits, loader, Free, Nothing
  <2>2. CASE Reconnect("turn")
    <3>1. UNCHANGED <<nonce, board, buffer>> /\ wire' = <<>>
      BY <2>2 DEF Reconnect, Close, game
    <3>2. AllSealed(buffer', wire') /\ \A l \in Out(buffer', wire') : l \in Out(buffer, wire)
      BY <3>1, LessSaid DEF Told
    <3>3. PICK c : call' = [call EXCEPT !["turn"] = c] /\ c.at = "dial" /\ UNCHANGED got
      BY <2>2, Bounds, ReconnectIs
    <3>4. nonce' \in Nat /\ nonce <= nonce'
      BY <3>1, Bounds DEF Shape, Plain
    <3> QED  BY <2>1, <3>1, <3>2, <3>3, <3>4, Bounds, ToldCall
  <2>3. CASE Refresh("turn")
    <3>1. UNCHANGED <<nonce, board, buffer, wire>>
      BY <2>3 DEF Refresh, game, link, session
    <3>2. AllSealed(buffer', wire') /\ \A l \in Out(buffer', wire') : l \in Out(buffer, wire)
      BY <3>1 DEF Told
    <3>3. PICK c : /\ call' = [call EXCEPT !["turn"] = c]
                   /\ \/ UNCHANGED got
                      \/ got' = [got EXCEPT !["turn"] = Ended("unresolved")]
      BY <2>3, Bounds, RefreshIs
    <3>4. nonce' \in Nat /\ nonce <= nonce' /\ Ended("unresolved").kind # "value"
      BY <3>1, Bounds, EndedKind DEF Shape, Plain
    <3> QED  BY <2>1, <3>1, <3>2, <3>3, <3>4, Bounds, ToldCall
  <2> QED  BY <1>23, <2>2, <2>3 DEF Poll
<1>24. CASE PollReturns
  <2>1. UNCHANGED <<buffer, wire, nonce, board>>
    BY <1>24 DEF PollReturns, Still, game, link, session
  <2>2. /\ got' = [got EXCEPT !["turn"] = Nothing] /\ call' = [call EXCEPT !["turn"] = Idle]
        /\ ld' # "loaded"
    BY <1>24 DEF PollReturns, Take, BeginWait, Retry, Waits
  <2> QED  BY <2>1, <2>2, ToldStep
<1>25. CASE Issue
  <2>1. /\ ld' = ld /\ "turn" \in Tasks /\ got["turn"].kind # "value"
        /\ \E name : \E body \in Bodies : Execute("turn", name, body)
    BY <1>25, Bounds DEF Issue, loader, Bodies, Nothing, Free
  <2>2. PICK name, body : body \in Bodies /\ Execute("turn", name, body)
    BY <2>1
  <2>3. UNCHANGED <<board, buffer, wire>>
    BY <2>2 DEF Execute, game, link
  <2>4. PICK c : /\ call' = [call EXCEPT !["turn"] = c]
                 /\ \/ c.at = "lock" /\ c.nonce = nonce + 1 /\ nonce' = nonce + 1 /\ UNCHANGED got
                    \/ /\ c.at = "idle" /\ nonce' = nonce
                            /\ got' = [got EXCEPT !["turn"] = Ended("unresolved")]
    BY <2>1, <2>2, ExecuteIs
  <2>5. nonce' \in Nat /\ nonce <= nonce' /\ Ended("unresolved").kind # "value"
    BY <2>4, Bounds, EndedKind DEF Shape, Plain
  <2>6. AllSealed(buffer', wire') /\ \A l \in Out(buffer', wire') : l \in Out(buffer, wire)
    BY <2>3 DEF Told
  <2> QED  BY <2>1, <2>3, <2>4, <2>5, <2>6, ToldCall
<1>26. CASE IssueReturns
  <2>1. UNCHANGED <<buffer, wire, nonce, board>>
    BY <1>26 DEF IssueReturns, Still, game, link, session
  <2>2. /\ got' = [got EXCEPT !["turn"] = Nothing] /\ call' = [call EXCEPT !["turn"] = Idle]
        /\ ld' # "loaded"
    BY <1>26 DEF IssueReturns, Take, BeginWait, Retry, Waits
  <2> QED  BY <2>1, <2>2, ToldStep
<1>27. CASE Verify
  <2>1. ld = "verify" /\ ld' = ld /\ got["turn"].kind # "value"
    BY <1>27 DEF Verify, loader, Free, Nothing
  <2>2. CASE Reconnect("turn")
    <3>1. UNCHANGED <<nonce, board, buffer>> /\ wire' = <<>>
      BY <2>2 DEF Reconnect, Close, game
    <3>2. AllSealed(buffer', wire') /\ \A l \in Out(buffer', wire') : l \in Out(buffer, wire)
      BY <3>1, LessSaid DEF Told
    <3>3. PICK c : call' = [call EXCEPT !["turn"] = c] /\ c.at = "dial" /\ UNCHANGED got
      BY <2>2, Bounds, ReconnectIs
    <3>4. nonce' \in Nat /\ nonce <= nonce'
      BY <3>1, Bounds DEF Shape, Plain
    <3> QED  BY <2>1, <3>1, <3>2, <3>3, <3>4, Bounds, ToldCall
  <2>3. CASE Execute("turn", "InGame", "verify")
    <3>1. UNCHANGED <<board, buffer, wire>>
      BY <2>3 DEF Execute, game, link
    <3>2. PICK c : /\ call' = [call EXCEPT !["turn"] = c]
                   /\ \/ c.at = "lock" /\ c.nonce = nonce + 1 /\ nonce' = nonce + 1 /\ UNCHANGED got
                      \/ /\ c.at = "idle" /\ nonce' = nonce
                         /\ got' = [got EXCEPT !["turn"] = Ended("unresolved")]
      <4>1. "verify" \in Bodies
        BY DEF Bodies
      <4> QED  BY <2>3, <4>1, Bounds, ExecuteIs
    <3>3. nonce' \in Nat /\ nonce <= nonce' /\ Ended("unresolved").kind # "value"
      BY <3>2, Bounds, EndedKind DEF Shape, Plain
    <3>4. AllSealed(buffer', wire') /\ \A l \in Out(buffer', wire') : l \in Out(buffer, wire)
      BY <3>1 DEF Told
    <3> QED  BY <2>1, <3>1, <3>2, <3>3, <3>4, Bounds, ToldCall
  <2> QED  BY <1>27, <2>2, <2>3 DEF Verify
<1>28. CASE VerifyReturns
  <2>1. UNCHANGED <<buffer, wire, nonce, board>>
    BY <1>28 DEF VerifyReturns, Still, game, link, session
  <2>2. /\ got' = [got EXCEPT !["turn"] = Nothing] /\ call' = [call EXCEPT !["turn"] = Idle]
             /\ ld = "verify"
    BY <1>28 DEF VerifyReturns, Take
  <2>3. ld' = "loaded" => board = Save
    <3>1. ld' = "loaded" => got["turn"].kind = "value" /\ got["turn"].value.turn = Save
      BY <1>28, <2>2 DEF VerifyReturns, Retry, CheckPosition, Result
    <3> QED  BY <2>2, <3>1 DEF Told
  <2> QED  BY <2>1, <2>2, <2>3, ToldStep
<1>29. CASE VerifyExpires
  <2>1. UNCHANGED <<call, got, nonce, buffer, wire, board>> /\ ld' = "failed"
    BY <1>29 DEF VerifyExpires, nexusVars, game, link, session, calls, Retry
  <2> QED  BY <2>1 DEF Told, OwnResult
<1>30. CASE DeadlinePasses
  <2>1. UNCHANGED <<call, got, nonce, ld, buffer, wire, board>>
    BY <1>30 DEF DeadlinePasses, vars, nexusVars, game, link, session, calls, loader, Fault
  <2>2. ld \in {"verify", "loaded"} => board' = board
    BY <2>1 DEF Stage, VerifyStage
  <2> QED  BY <2>1, <2>2, ToldLink DEF Told
<1>31. CASE LoseFile
  <2>1. UNCHANGED <<call, got, nonce, ld, buffer, wire, board>>
    BY <1>31 DEF LoseFile, vars, nexusVars, game, link, session, calls, loader, Fault
  <2>2. ld \in {"verify", "loaded"} => board' = board
    BY <2>1 DEF Stage, VerifyStage
  <2> QED  BY <2>1, <2>2, ToldLink DEF Told
<1>32. CASE UNCHANGED vars
  <2>1. UNCHANGED <<call, got, nonce, ld, buffer, wire, board>>
    BY <1>32 DEF vars, vars, nexusVars, game, link, session, calls, loader, Fault
  <2>2. ld \in {"verify", "loaded"} => board' = board
    BY <2>1 DEF Stage, VerifyStage
  <2> QED  BY <2>1, <2>2, ToldLink DEF Told
<1> QED
  BY <1>1, <1>2, <1>3, <1>4, <1>5, <1>6, <1>7, <1>8, <1>9, <1>10, <1>11, <1>12,
     <1>13, <1>14, <1>15, <1>16, <1>17, <1>18, <1>19, <1>20, <1>21, <1>22, <1>23,
     <1>24, <1>25, <1>26, <1>27, <1>28, <1>29, <1>30, <1>31, <1>32
     DEF Next, GameStep, ClientStep, LoaderStep

-----------------------------------------------------------------------------
(* The invariant *)

(* A command that is aimed runs where it was aimed. *)
LEMMA NotStrayed ==
  Shape /\ Aimed(requests, phase) /\ ~strayed /\ [Next]_vars => ~strayed'
<1> SUFFICES ASSUME Shape, Aimed(requests, phase), ~strayed, [Next]_vars PROVE ~strayed'
  OBVIOUS
<1>1. ASSUME ServeCommand PROVE ~strayed'
  <2> DEFINE c == requests[1]
  <2>1. /\ requests # <<>> /\ c.body \notin Handshakes /\ phase \in Listening
        /\ strayed' = (strayed \/ StateAt(c.index) # c.aim) /\ 1 \in DOMAIN requests
    <3>1. requests # <<>> => Head(requests) = c /\ 1 \in DOMAIN requests
      BY Shorter DEF Shape, OnLink
    <3> QED  BY <1>1, <3>1, CommandServed
  <2>2. c.body \in Bodies
    BY <2>1, RequestAt DEF Requests
  <2>3. AimedAt(c, phase)
    BY <2>1, <2>2 DEF Aimed, Bodies, InGameBodies
  <2> HIDE DEF c
  <2>4. StateAt(c.index) = c.aim
    <3> DEFINE names == {s \in DOMAIN StateTable[phase] : StateTable[phase][s] = c.index}
    <3>1. names = {c.aim}
      BY <2>1, <2>3, TablesAssumption DEF AimedAt
    <3> QED  BY <3>1 DEF StateAt
  <2> QED  BY <2>1, <2>4
<1>2. ASSUME ~ServeCommand PROVE strayed' = strayed
  <2>1. Act \/ Probe \/ Issue \/ Poll \/ Verify => UNCHANGED strayed
    BY DEF Act, Probe, Issue, Poll, Verify, Execute, Refresh, Reconnect
  <2>2. ASSUME NEW t \in Tasks, ClientStep(t) \/ Receive(t) \/ CancelCall(t) PROVE UNCHANGED strayed
    BY <2>2 DEF ClientStep, TakeLock, ReadOutput, SkipFrame, ReadTable, ReadGreeting,
       CommandTimesOut,
       HandshakeTimesOut, CommandFindsClosed, HandshakeFindsClosed, DialAccepted,
       DialRefused,
       Receive, CancelCall
  <2>3. ServeHandshake \/ ReachMenu \/ LoadCompletes \/ DropLink \/ Crash => UNCHANGED strayed
    BY DEF ServeHandshake, ReachMenu, LoadCompletes, DropLink, Crash
  <2>4. PollReturns \/ IssueReturns \/ VerifyReturns \/ VerifyExpires \/ BeginLoad \/ DeadlinePasses
          \/ LoseFile \/ UNCHANGED vars => UNCHANGED strayed
    BY DEF PollReturns, IssueReturns, VerifyReturns, VerifyExpires, BeginLoad,
       DeadlinePasses,
       LoseFile, Still, vars, nexusVars
  <2> QED  BY <1>2, <2>1, <2>2, <2>3, <2>4 DEF Next, GameStep, LoaderStep
<1> QED  BY <1>1, <1>2

(* The invariant holds at the start. *)
LEMMA SlInit ==
  Init => SlInv
<1> SUFFICES ASSUME Init PROVE SlInv
  OBVIOUS
<1>1. /\ phase = "game" /\ board = Save /\ faults = 0 /\ requests = <<>> /\ wire = <<>> /\ live = TRUE
      /\ writer = TRUE /\ table = StateTable["game"] /\ buffer = <<>> /\ nonce = 0
      /\ lock = "free" /\ waiters = <<>> /\ strayed = FALSE
      /\ ld = "off" /\ need = FALSE /\ overdue = FALSE /\ onDisk \in BOOLEAN
      /\ \A t \in Tasks : call[t] = Idle /\ got[t] = Nothing
      /\ call = [t \in Tasks |-> Idle] /\ got = [t \in Tasks |-> Nothing]
  BY DEF Init, NexusInit
<1>2. /\ Idle.at = "idle" /\ Idle.nonce = 0 /\ Nothing.kind = "nothing"
  BY DEF Idle, Nothing
<1>3. Heard(<<>>) = {} /\ \A tb : Seen(tb, <<>>) = {tb}
  BY NothingHeard
<1>4. Shape
  <2>1. Plain
    <3>1. 0 \in 0..MaxFaults /\ 0 \in 0..MaxCommands /\ Save \in Nat
      BY Bounds
    <3>2. "off" \in LdStates /\ "game" \in Phases
      BY DEF LdStates, Phases
    <3> QED  BY <1>1, <3>1, <3>2, CallTypes DEF Plain
  <2>2. OnLock
    BY <1>1, NoneOf DEF OnLock
  <2>3. OnCall
    BY <1>1, <1>2, CallTypes DEF OnCall
  <2>4. OnLink
    BY <1>1, NoneOf DEF OnLink
  <2> QED  BY <2>1, <2>2, <2>3, <2>4 DEF Shape
<1>5. Locked
  <2>1. DOMAIN waiters = {}
    BY <1>1
  <2> QED  BY <1>1, <1>2, <2>1, Bounds DEF Locked
<1>6. Linked
  BY <1>1, <1>2 DEF Linked
<1>7. Open
  BY <1>1 DEF Open, Listening
<1>8. Quiet(requests, wire)
  BY <1>1, <1>3 DEF Quiet
<1>9. Asking
  BY <1>1, <1>2, <1>3, <1>8, Bounds, NothingAsked DEF Asking, Turn
<1>10. Aimed(requests, phase)
  BY <1>1, NothingAimed
<1>11. Stage
  <2>1. OffStage
    BY <1>1, <1>2, NothingSent DEF OffStage, Calling
  <2> QED  BY <1>1, <2>1 DEF Stage, Ends
<1>12. Told
  <2>1. Sealed(<<>>) /\ Spoken(<<>>) = {}
    BY DEF Sealed, Spoken
  <2>2. AllSealed(<<>>, <<>>) /\ Out(<<>>, <<>>) = {}
    BY <2>1 DEF AllSealed, Out
  <2> QED  BY <1>1, <1>2, <2>2 DEF Told, OwnResult
<1> QED  BY <1>1, <1>4, <1>5, <1>6, <1>7, <1>9, <1>10, <1>11, <1>12 DEF SlInv

(* Every step keeps the invariant. *)
LEMMA SlStep ==
  SlInv /\ [Next]_vars => SlInv'
<1> SUFFICES ASSUME SlInv, [Next]_vars PROVE SlInv'
  OBVIOUS
<1>1. /\ Shape /\ Locked /\ Linked /\ Open /\ Asking /\ Aimed(requests, phase) /\ Stage /\ Told
           /\ ~strayed
  BY DEF SlInv
<1>2. AllSealed(buffer, wire) /\ Single(requests, wire)
  BY <1>1 DEF Told, Asking
<1>3. Shape'
  BY <1>1, <1>2, PlainKept, OnLockKept, OnCallKept, OnLinkKept DEF Shape
<1>4. Locked' /\ Linked' /\ Open'
  BY <1>1, LockedKept, LinkedKept, OpenKept
<1>5. Stage'
  BY <1>1, StageKept
<1>6. Asking'
  BY <1>1, <1>5, AskingKept
<1>7. Aimed(requests', phase')
  BY <1>1, AimedKept
<1>8. Told' /\ ~strayed'
  BY <1>1, ToldKept, NotStrayed
<1> QED  BY <1>3, <1>4, <1>5, <1>6, <1>7, <1>8 DEF SlInv

(* The invariant holds throughout. *)
LEMMA SlAlways ==
  Spec => []SlInv
BY SlInit, SlStep, PTL DEF Spec

-----------------------------------------------------------------------------
(* What follows from it *)

(* Shape is at least the type invariant. *)
LEMMA Typed ==
  Shape => TypeOK
<1> SUFFICES ASSUME Shape PROVE TypeOK
  OBVIOUS
<1>1. ASSUME NEW t \in Tasks
      PROVE  /\ call[t].at \in CallStates /\ call[t].nonce \in 0..nonce
             /\ call[t].tries \in 0..(ReconnectMax - 1)
             /\ got[t].kind \in {"nothing", "value", "invalid", "table", "timeout",
                                 "closed", "refused", "unresolved"}
  <2>1. call[t] \in Calls /\ call[t].nonce <= nonce /\ got[t] \in Results
    BY DEF Shape, OnCall
  <2>2. call[t].nonce \in 0..nonce
    <3>1. call[t].nonce \in Nat /\ nonce \in Nat
      BY CallForms
    <3> QED  BY <2>1, <3>1
  <2> QED  BY <2>1, <2>2 DEF Calls, Results
<1> QED  BY <1>1 DEF TypeOK, Shape, Plain, OnLock, Tables, CallStates

(* One question, or one answer to it. *)
LEMMA OneQuestion ==
  Shape /\ Single(requests, wire) => TableIsFresh
<1> SUFFICES ASSUME Shape, Single(requests, wire)
             PROVE  Queries + Cardinality(Heard(wire)) <= 1
  BY DEF TableIsFresh, Heard
<1> DEFINE Q == {i \in DOMAIN requests : requests[i].here /\ requests[i].body = "LSQ"}
<1>1. Queries = Cardinality(Q)
  BY DEF Queries
<1>2. Q \subseteq {Len(requests)}
  BY DEF Single, Handshakes
<1>3. Heard(wire) # {} => Q = {} /\ \A k \in Heard(wire) : Heard(wire) = {k}
  BY DEF Single
<1> HIDE DEF Q
<1>4. Cardinality({}) = 0 /\ \A x : Cardinality({x}) = 1
  BY FS_EmptySet, FS_Singleton
<1>5. CASE Heard(wire) # {}
  <2>1. PICK k : Heard(wire) = {k}
    BY <1>3, <1>5
  <2>2. Cardinality(Heard(wire)) = 1
    BY <1>4, <2>1
  <2>3. Queries = 0
    BY <1>1, <1>3, <1>4, <1>5
  <2> QED  BY <2>2, <2>3
<1>6. CASE Heard(wire) = {}
  <2>1. Q = {} \/ Q = {Len(requests)}
    BY <1>2
  <2>2. Queries = 0 \/ Queries = 1
    BY <1>1, <1>4, <2>1
  <2>3. Cardinality(Heard(wire)) = 0
    BY <1>4, <1>6
  <2> QED  BY <2>2, <2>3
<1> QED  BY <1>5, <1>6

(* The client never hands a caller the answer to another: output by its nonce, a state
   table by there being one question at a time, and no table beyond its link. *)
THEOREM AnswersAreOwn == Spec => []OwnAnswers
<1>1. SlInv => OwnAnswers
  <2> SUFFICES ASSUME SlInv PROVE OwnAnswers
    OBVIOUS
  <2>1. Shape /\ Linked /\ Single(requests, wire) /\ OwnResult
    BY DEF SlInv, Asking, Told
  <2>2. TableOfThisLink
    BY <2>1 DEF Linked, TableOfThisLink
  <2> QED  BY <2>1, <2>2, Typed, OneQuestion DEF OwnAnswers
<1> QED  BY <1>1, SlAlways, PTL

(* Commands run in the Lua state they name, and LoadGame is on its way to the front end
   or not at all. *)
THEOREM CommandsReach == Spec => []CommandsLand
<1>1. SlInv => CommandsLand
  BY DEF SlInv, CommandsLand, RanWhereAimed, LoadFromFrontEnd, Aimed
<1> QED  BY <1>1, SlAlways, PTL

(* A load that returns has left the game at the turn of the save it was given. *)
THEOREM NamedIsLoaded == Spec => []LoadedIsNamed
<1>1. SlInv => LoadedIsNamed
  BY DEF SlInv, LoadedIsNamed, Stage, VerifyStage, Told
<1> QED  BY <1>1, SlAlways, PTL
=============================================================================
