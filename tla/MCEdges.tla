------------------------------- MODULE MCEdges ------------------------------
(***************************************************************************)
(* The components at the edge of the system, instantiated for TLC: the two *)
(* transport fronts, the PTY wrapper with and without keyspace events, the *)
(* OpenCode session owner, the Codex socket and the actor directory.  They *)
(* share no state, so one run explores the behaviours of each of them in   *)
(* turn: part says which one moves, the others stay as they started.       *)
(***************************************************************************)
EXTENDS Integers, TLC

CONSTANTS
  Ids, MaxSessions, MaxOpen,                    \* transports
  MaxInbox, MaxFaults,                          \* the PTY wrapper
  Hosts, Dirs, Entries, ToolCalls,              \* OpenCode
  Requests, MaxConns,                           \* the Codex socket
  Registrations, Sessions, Launches, None       \* the actor directory; None is OpenCode's too

VARIABLES
  part,  \* the component this behaviour is about; never changes
  transports, activity, requests, counted, quiet, receiving, clients, stray, used, closing,
  inbox, events, link, faults, watch, asking, running, busy, armed, idle, notice,
  listeners, noticed, process, child,
  owned, entry, closers, calls, disposal, awaiting,
  sock, opening, closed, pending, req, wire, asked, conns, cause,
  stored, allowed, call

front == <<transports, activity, requests, counted, quiet, receiving, clients, stray, used, closing>>
pty == <<inbox, events, link, faults, watch, asking, running, busy, armed, idle, notice,
         listeners, noticed, process, child>>
opencode == <<owned, entry, closers, calls, disposal, awaiting>>
codex == <<sock, opening, closed, pending, req, wire, asked, conns, cause>>
actors == <<stored, allowed, call>>
vars == <<part, front, pty, opencode, codex, actors>>

Http == INSTANCE Transports WITH Front <- "http", idle <- quiet
Bridge == INSTANCE Transports WITH Front <- "bridge", idle <- quiet
Keyspace == INSTANCE Pty WITH Managed <- FALSE, pending <- notice, phase <- process
Polling == INSTANCE Pty WITH Managed <- TRUE, pending <- notice, phase <- process
OpenCode == INSTANCE OpenCodeSessions WITH Calls <- ToolCalls,
              Faulty <- {"session", "runtime", "client", "dispatcher"}
Codex == INSTANCE CodexSocket WITH phase <- opening
Actors == INSTANCE ActorDirectory WITH Calls <- Registrations

\* None is told apart from what stands in its place.
ASSUME NoneIsNoValue ==
  None \notin Sessions /\ None \notin Actors!Record /\ None \notin Hosts \cup Entries

Parts == {"http", "bridge", "keyspace", "polling", "opencode", "codex", "actors"}

Init ==
  /\ part \in Parts
  /\ Http!Init /\ Keyspace!Init /\ OpenCode!Init /\ Codex!Init /\ Actors!Init
  /\ inbox > 0 => part \in {"keyspace", "polling"}
  /\ allowed # {} => part = "actors"

HttpMoves == part = "http" /\ Http!Next /\ UNCHANGED <<part, pty, opencode, codex, actors>>
BridgeMoves == part = "bridge" /\ Bridge!Next /\ UNCHANGED <<part, pty, opencode, codex, actors>>
KeyspaceMoves ==
  part = "keyspace" /\ Keyspace!Next /\ UNCHANGED <<part, front, opencode, codex, actors>>
PollingMoves ==
  part = "polling" /\ Polling!Next /\ UNCHANGED <<part, front, opencode, codex, actors>>
OpenCodeMoves ==
  part = "opencode" /\ OpenCode!Next /\ UNCHANGED <<part, front, pty, codex, actors>>
CodexMoves == part = "codex" /\ Codex!Next /\ UNCHANGED <<part, front, pty, opencode, actors>>
ActorsMove == part = "actors" /\ Actors!Next /\ UNCHANGED <<part, front, pty, opencode, codex>>

Next ==
  \/ HttpMoves \/ BridgeMoves \/ KeyspaceMoves \/ PollingMoves
  \/ OpenCodeMoves \/ CodexMoves \/ ActorsMove

Spec == Init /\ [][Next]_vars

Symmetry == Permutations(Hosts) \cup Permutations(Entries)

-----------------------------------------------------------------------------
(***************************************************************************)
(* The properties of the parts, by the names they have there.              *)
(***************************************************************************)

\* The fronts let go of what they hold: the reaper of the shared server can reach every
\* Redis client but those of rejected initializes and failed closes (http.ts), and no
\* receive is parked, or on its way there, once the bridge closes (bridge.ts).
FrontsLetGo ==
  /\ part = "http" => Http!ReaperReachesClients
  /\ part = "bridge" => Bridge!ReceivesEndWithBridge

\* The reaper of the shared server closes no session with a request open (http.ts).
ReapSparesOpen == [][part = "http" => Http!SparesOpen]_vars

\* The PTY wrapper types into a quiet terminal only, and while the child writes a burst of
\* messages makes one notice: an injection is pending exactly while one callback waits for
\* the child to fall silent.  To a child that is idle each event is typed at once
\* (pty-wrapper/index.ts, idle-detector.ts).
NoticeIsTimely == [][Keyspace!OneNoticeWaits' /\ Keyspace!TypedQuietly]_vars

\* No OpenCode backend is out of its owner's reach, and a retired or disposed one leaves
\* nothing open but what failed to close and, when its registration threw half way, the
\* session that had made (opencode-sessions.ts, opencode-backend.ts).
NoBackendOrphaned ==
  OpenCode!OwnedWhileOpen /\ OpenCode!RetiredLeavesNothing /\ OpenCode!DisposedLeavesNothing

\* A Codex request is resolved by its own answer, is pending only while its connection
\* lives, and is settled once (codex-socket.ts).
RequestsAreAnswered ==
  [](Codex!ResolvedByItsAnswer /\ Codex!PendingIsLive) /\ Codex!SettledForGood

\* The owner of an actor's profile never changes, what actor_register answered stays
\* true, and a lost race is always explained (actor-directory.ts).
OwnerIsKept == Actors!OwnerForever /\ [](Actors!AnswerIsTrue /\ Actors!RaceIsExplained)
=============================================================================
