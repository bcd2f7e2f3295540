---------------------------- MODULE NexusClient ----------------------------
(***************************************************************************)
(* The one tuner connection a run has: nexus/client.py (NexusClient) with  *)
(* its framing (nexus/codec.py) and result matching (nexus/sentinels.py),  *)
(* shared by the coroutines in Tasks, and the game at its far end as the   *)
(* code meets it (external).                                               *)
(*                                                                         *)
(* An element of wire is what arrives together and is read together.  A    *)
(* command prints BEGIN, its JSON line and END, and may do so in two       *)
(* arrivals.  An index of a state table means a Lua state by name only in  *)
(* the phase that reported the table.                                      *)
(***************************************************************************)
EXTENDS Naturals, Sequences, FiniteSets

CONSTANTS
    Tasks,           \* coroutines that use the client
    StateTable,      \* external: the Lua state table of each phase, name to index
    ReconnectMax,    \* reconnect_max_attempts
    Save,            \* the turn of the save that is loaded
    MaxCommands,     \* bound: commands issued
    MaxFaults        \* bound: dropped links, refusals, errors in the game

VARIABLES
    phase,           \* external: the phase of the game
    board,           \* external: the turn the game is at
    faults,          \* bound
    requests,        \* sent and not yet served by the game
    wire,            \* frames of the current link not yet read (decoder, pending)
    live,            \* external: the game's end of the current link is open
    writer,          \* is_connected
    table,           \* state_indices
    buffer,          \* SentinelCorrelator._buffer
    nonce,           \* the last nonce drawn
    lock, waiters,   \* _lock and the tasks queued on it
    call,            \* what each task is doing in the client
    got,             \* what its last call returned or raised
    strayed          \* history: a command ran in another Lua state than it named

game == <<phase, board, faults>>
link == <<requests, wire, live>>
session == <<writer, table, buffer, nonce>>
calls == <<lock, waiters, call, got>>
nexusVars == <<game, link, session, calls, strayed>>

Phases == {"menu", "leaving", "loading", "game", "dead"}
Listening == {"menu", "leaving", "game"}
NoTable == <<>>

ASSUME NexusAssumption ==
    /\ DOMAIN StateTable = Listening
    /\ {ReconnectMax, MaxCommands} \subseteq Nat \ {0}
    /\ {MaxFaults, Save} \subseteq Nat
    /\ "free" \notin Tasks

(* External, as measured on the live client: an index names one state, and *)
(* InGame is there exactly while a game is.                                *)
ASSUME TablesAssumption ==
    /\ \A p \in Listening : \A s, q \in DOMAIN StateTable[p] :
          StateTable[p][s] = StateTable[p][q] => s = q
    /\ \A p \in Listening : "InGame" \in DOMAIN StateTable[p] <=> p # "menu"

Nothing == [kind |-> "nothing"]
Ended(how) == [kind |-> how]
Idle == [at |-> "idle", nonce |-> 0, aim |-> "none", body |-> "none", index |-> 0,
         tries |-> 0]

NexusInit ==
    /\ phase = "game" /\ board = Save /\ faults = 0
    /\ requests = <<>> /\ wire = <<>> /\ live = TRUE
    /\ writer = TRUE /\ table = StateTable["game"] /\ buffer = <<>> /\ nonce = 0
    /\ lock = "free" /\ waiters = <<>>
    /\ call = [t \in Tasks |-> Idle] /\ got = [t \in Tasks |-> Nothing]
    /\ strayed = FALSE

Fault == faults < MaxFaults /\ faults' = faults + 1

-----------------------------------------------------------------------------
(* Calls: entering, leaving, the lock                                      *)

(* The call of t ends with result r; a lock it holds is released.  The     *)
(* nonce stays until the result is taken.                                  *)
Finish(t, r) ==
    /\ call' = [call EXCEPT ![t] = [Idle EXCEPT !.nonce = call[t].nonce]]
    /\ got' = [got EXCEPT ![t] = r]
    /\ lock' = IF lock = t THEN "free" ELSE lock
    /\ UNCHANGED waiters

Queue(t, c) ==
    /\ call' = [call EXCEPT ![t] = c]
    /\ waiters' = Append(waiters, t)
    /\ UNCHANGED <<lock, got>>

(* execute_command of a body in the Lua state called name, its index taken *)
(* from the client's table at the call; an index outside the table, or no  *)
(* connection, is refused before the lock is asked for.                    *)
Execute(t, name, body) ==
    /\ call[t].at = "idle" /\ nonce < MaxCommands
    /\ IF writer /\ name \in DOMAIN table
       THEN /\ nonce' = nonce + 1
            /\ Queue(t, [Idle EXCEPT !.at = "lock", !.nonce = nonce + 1, !.aim = name,
                                     !.body = body, !.index = table[name]])
       ELSE Finish(t, Ended("unresolved")) /\ UNCHANGED nonce
    /\ UNCHANGED <<game, link, writer, table, buffer, strayed>>

(* refresh_state_indices.                                                  *)
Refresh(t) ==
    /\ call[t].at = "idle"
    /\ IF writer THEN Queue(t, [Idle EXCEPT !.at = "lock", !.body = "LSQ"])
                 ELSE Finish(t, Ended("unresolved"))
    /\ UNCHANGED <<game, link, session, strayed>>

(* Writing to a link whose far end is gone is noticed at the next read.    *)
Request(c) == [body |-> c.body, nonce |-> c.nonce, aim |-> c.aim, index |-> c.index,
               here |-> TRUE]
Send(t) ==
    requests' = IF live THEN Append(requests, Request(call'[t])) ELSE requests

TakeLock(t) ==
    /\ lock = "free" /\ waiters # <<>> /\ Head(waiters) = t
    /\ lock' = t /\ waiters' = Tail(waiters)
    /\ call' = [call EXCEPT ![t].at = IF call[t].body = "LSQ" THEN "query" ELSE "output"]
    /\ Send(t)
    /\ UNCHANGED <<game, wire, live, session, got, strayed>>

-----------------------------------------------------------------------------
(* Reading                                                                 *)

(* take_result: from the first BEGIN of the nonce to the first END of it;  *)
(* what lies before is discarded, what lies after is kept.                 *)
Position_AnyNonce(part, n, b, from) == {i \in from..Len(b) : b[i].part = part}
Position(part, n, b, from) ==
    {i \in from..Len(b) : b[i].part = part /\ b[i].nonce = n}
Least(S) == CHOOSE i \in S : \A j \in S : i <= j
Complete(n, b) ==
    /\ Position("begin", n, b, 1) # {}
    /\ Position("end", n, b, Least(Position("begin", n, b, 1))) # {}
Body(n, b) ==
    LET i == Least(Position("begin", n, b, 1))
    IN  SubSeq(b, i + 1, Least(Position("end", n, b, i)) - 1)
After(n, b) ==
    SubSeq(b, Least(Position("end", n, b, Least(Position("begin", n, b, 1)))) + 1, Len(b))

(* json.loads of what was printed: one value and nothing else.             *)
Parsed(lines) ==
    IF Len(lines) = 1 /\ lines[1].part = "json"
    THEN [kind |-> "value", nonce |-> lines[1].nonce, value |-> lines[1].value]
    ELSE Ended("invalid")

Reads(t) == call[t].at \in {"output", "query", "greet", "shake"}
NextFrame == wire # <<>> /\ wire' = Tail(wire)

(* _await_result: output is fed to the correlator, the rest is skipped.    *)
ReadOutput(t) ==
    /\ call[t].at = "output" /\ NextFrame
    /\ LET fed == IF Head(wire).tag = "out" THEN buffer \o Head(wire).lines ELSE buffer
           n == call[t].nonce
       IN  IF Complete(n, fed)
           THEN buffer' = After(n, fed) /\ Finish(t, Parsed(Body(n, fed)))
           ELSE buffer' = fed /\ UNCHANGED calls
    /\ UNCHANGED <<game, requests, live, writer, table, nonce, strayed>>

(* _read_handshake_frame: skips output and acknowledgements and takes the  *)
(* next handshake frame for the answer.                                    *)
SkipFrame(t) ==
    /\ call[t].at \in {"query", "greet", "shake"} /\ NextFrame
    /\ Head(wire).tag # "hand"
    /\ UNCHANGED <<game, requests, live, session, calls, strayed>>

ReadTable(t) ==
    /\ call[t].at \in {"query", "shake"} /\ NextFrame
    /\ Head(wire).tag = "hand"
    /\ table' = Head(wire).table
    /\ Finish(t, Ended("table"))
    /\ UNCHANGED <<game, requests, live, writer, buffer, nonce, strayed>>

(* _handshake: the greeting is consumed, then the states are queried.      *)
ReadGreeting(t) ==
    /\ call[t].at = "greet" /\ NextFrame
    /\ Head(wire).tag = "hand"
    /\ call' = [call EXCEPT ![t].at = "shake", ![t].body = "LSQ"]
    /\ Send(t)
    /\ UNCHANGED <<game, live, session, lock, waiters, got, strayed>>

-----------------------------------------------------------------------------
(* Timeouts, a lost link, cancellation                                     *)

(* The link is gone: what was sent on it is lost, or a command of it still *)
(* reaches the game and is never answered.  Nothing is sent behind a       *)
(* handshake until it is answered or its link is given up.                 *)
Shaking == requests # <<>> /\ requests[Len(requests)].body \in {"APP", "LSQ"}
Commands == IF Shaking THEN SubSeq(requests, 1, Len(requests) - 1) ELSE requests
Unlink ==
    /\ live' = FALSE
    /\ requests' \in {<<>>, [i \in DOMAIN Commands |-> [Commands[i] EXCEPT !.here = FALSE]]}
Close == writer' = FALSE /\ wire' = <<>> /\ Unlink

CommandTimesOut(t) ==
    /\ call[t].at \in {"output", "query"}
    /\ buffer' = IF call[t].at = "output" THEN <<>> ELSE buffer
    /\ Finish(t, Ended("timeout"))
    /\ UNCHANGED <<game, link, writer, table, nonce, strayed>>

HandshakeTimesOut(t) ==
    /\ call[t].at \in {"greet", "shake"}
    /\ Close /\ Finish(t, Ended("timeout"))
    /\ UNCHANGED <<game, table, buffer, nonce, strayed>>

CommandFindsClosed(t) ==
    /\ call[t].at \in {"output", "query"} /\ ~live /\ wire = <<>>
    /\ Finish(t, Ended("closed"))
    /\ UNCHANGED <<game, link, session, strayed>>

(* The task is cancelled inside the client: the lock is released, what was *)
(* sent or printed for it stays where it is.                               *)
Without(queue, t) ==
    IF \E i \in DOMAIN queue : queue[i] = t
    THEN LET i == CHOOSE i \in DOMAIN queue : queue[i] = t
         IN  SubSeq(queue, 1, i - 1) \o SubSeq(queue, i + 1, Len(queue))
    ELSE queue
Cancel(t) ==
    /\ call[t].at # "idle"
    /\ call' = [call EXCEPT ![t] = Idle]
    /\ lock' = IF lock = t THEN "free" ELSE lock
    /\ waiters' = Without(waiters, t)
    /\ got' = [got EXCEPT ![t] = Nothing]

-----------------------------------------------------------------------------
(* reconnect                                                               *)

Reconnect(t) ==
    /\ call[t].at = "idle"
    /\ Close /\ table' = NoTable
    /\ call' = [call EXCEPT ![t] = [Idle EXCEPT !.at = "dial", !.body = "APP"]]
    /\ UNCHANGED <<game, buffer, nonce, lock, waiters, got, strayed>>

DialAccepted(t) ==
    /\ call[t].at = "dial" /\ phase \in Listening
    /\ call' = [call EXCEPT ![t].at = "greet"]
    /\ live' = TRUE /\ writer' = TRUE /\ wire' = <<>> /\ buffer' = <<>>
    /\ requests' = Append(requests, Request(call'[t]))
    /\ UNCHANGED <<game, table, nonce, lock, waiters, got, strayed>>

(* A refused attempt is retried within the budget.                         *)
Refused(t) ==
    IF call[t].tries + 1 < ReconnectMax
    THEN /\ call' = [call EXCEPT ![t].at = "dial", ![t].body = "APP", ![t].tries = @ + 1]
         /\ UNCHANGED <<lock, waiters, got>>
    ELSE Finish(t, Ended("refused"))

(* The port is shut, or still busy with the previous socket.               *)
DialRefused(t) ==
    /\ call[t].at = "dial"
    /\ phase \in Listening => faults < MaxFaults
    /\ faults' = IF phase \in Listening THEN faults + 1 ELSE faults
    /\ Refused(t)
    /\ UNCHANGED <<phase, board, link, session, strayed>>

HandshakeFindsClosed(t) ==
    /\ call[t].at \in {"greet", "shake"} /\ ~live /\ wire = <<>>
    /\ Close /\ Refused(t)
    /\ UNCHANGED <<game, table, buffer, nonce, strayed>>

-----------------------------------------------------------------------------
(* The game (external): it serves one request at a time, in order          *)

Answer(r, frames) ==
    wire' = IF r.here /\ live THEN wire \o frames ELSE wire

ServeHandshake ==
    /\ phase \in Listening /\ requests # <<>>
    /\ LET r == Head(requests)
       IN  /\ r.body \in {"APP", "LSQ"}
           /\ Answer(r, <<[tag |-> "hand",
                           table |-> IF r.body = "LSQ" THEN StateTable[phase] ELSE NoTable]>>)
    /\ requests' = Tail(requests)
    /\ UNCHANGED <<game, live, session, calls, strayed>>

(* The Lua state an index names now.                                       *)
StateAt(i) ==
    LET names == {s \in DOMAIN StateTable[phase] : StateTable[phase][s] = i}
    IN  IF names = {} THEN "none" ELSE CHOOSE s \in names : TRUE

(* What a command prints, with an engine line among it when noisy.         *)
Printed(n, value, noisy) ==
    LET begin == [part |-> "begin", nonce |-> n]
        json == [part |-> "json", nonce |-> n, value |-> value]
        end == [part |-> "end", nonce |-> n]
    IN  IF noisy THEN <<begin, [part |-> "log", nonce |-> 0], json, end>>
                 ELSE <<begin, json, end>>
Arrivals(lines) ==
    {<<[tag |-> "out", lines |-> lines]>>,
     <<[tag |-> "out", lines |-> <<Head(lines)>>], [tag |-> "out", lines |-> Tail(lines)]>>}

(* One command runs in whatever Lua state its index names.  ok: the call   *)
(* inside it succeeded; LoadGame is accepted from the front end only.      *)
ServeCommand ==
    /\ phase \in Listening /\ requests # <<>>
    /\ LET c == Head(requests)
           where == StateAt(c.index)
       IN  /\ c.body \notin {"APP", "LSQ"}
           /\ strayed' = (strayed \/ where # c.aim)
           /\ \E ok, noisy \in BOOLEAN :
                /\ (c.body = "load" /\ phase # "menu") => ~ok
                /\ IF noisy \/ (~ok /\ (c.body = "load" => phase = "menu"))
                   THEN Fault ELSE UNCHANGED faults
                /\ board' = IF c.body = "act" /\ ok THEN board + 1 ELSE board
                /\ phase' = IF c.body = "exit" /\ ok /\ phase = "game" THEN "leaving"
                            ELSE IF c.body = "load" /\ ok THEN "loading" ELSE phase
                /\ live' = (live /\ phase' # "loading")
                /\ requests' = IF phase' = "loading" THEN <<>> ELSE Tail(requests)
                /\ \/ \E out \in Arrivals(Printed(c.nonce, [ok |-> ok, turn |-> board'], noisy)) :
                        Answer(c, out)
                   \/ phase' # phase /\ UNCHANGED wire
    /\ UNCHANGED <<session, calls>>

(* The game moves on by itself: to the menu, out of a load (onto the named *)
(* save or, by a fault, elsewhere), and its link may drop on the way.      *)
ReachMenu ==
    /\ phase = "leaving" /\ phase' = "menu"
    /\ Unlink \/ UNCHANGED <<live, requests>>
    /\ UNCHANGED <<board, faults, wire, session, calls, strayed>>
LoadCompletes ==
    /\ phase = "loading" /\ phase' = "game"
    /\ \/ board' = Save /\ UNCHANGED faults
       \/ board' = Save + 1 /\ Fault
    /\ UNCHANGED <<link, session, calls, strayed>>
DropLink ==
    /\ live /\ Unlink /\ Fault
    /\ UNCHANGED <<phase, board, wire, session, calls, strayed>>
Crash ==
    /\ phase # "dead" /\ phase' = "dead" /\ Fault
    /\ live' = FALSE /\ requests' = <<>>
    /\ UNCHANGED <<board, wire, session, calls, strayed>>
GameStep ==
    \/ ServeHandshake \/ ServeCommand \/ ReachMenu \/ LoadCompletes
    \/ DropLink \/ Crash

(* A call that is waiting moves: answered, timed out or found closed.      *)
ClientStep(t) ==
    \/ TakeLock(t)
    \/ ReadOutput(t) \/ SkipFrame(t) \/ ReadTable(t) \/ ReadGreeting(t)
    \/ CommandTimesOut(t) \/ HandshakeTimesOut(t)
    \/ CommandFindsClosed(t) \/ HandshakeFindsClosed(t)
    \/ DialAccepted(t) \/ DialRefused(t)

-----------------------------------------------------------------------------
(* A caller is never handed the output of another command, however late    *)
(* and interleaved the output of timed-out and cancelled commands arrives  *)
(* (the nonces of sentinels.py, and the lock).                             *)
OwnResult ==
    \A t \in Tasks : got[t].kind = "value" => got[t].nonce = call[t].nonce

(* A command runs in the Lua state its caller named: an index is never     *)
(* used in a phase in which it means another state.                        *)
RanWhereAimed == ~strayed

(* No caller can take the answer to an earlier state query for its own:    *)
(* handshake replies carry no nonce, so at most one may be outstanding.    *)
Queries == Cardinality({i \in DOMAIN requests :
                           requests[i].here /\ requests[i].body = "LSQ"})
TableIsFresh ==
    \A t \in Tasks : call[t].at \in {"query", "shake"} =>
        Queries + Cardinality({i \in DOMAIN wire : wire[i].tag = "hand"}) <= 1

(* A state table outlives neither the connection that reported it nor the  *)
(* start of a new one.                                                     *)
TableOfThisLink ==
    table # NoTable => writer /\ \A t \in Tasks : call[t].at \notin {"dial", "greet", "shake"}
=============================================================================
