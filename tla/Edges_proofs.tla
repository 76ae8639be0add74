---------------------------- MODULE Edges_proofs ----------------------------
(***************************************************************************)
(* Theorems about the components of MCEdges, for any number of sessions,   *)
(* requests, registrations and messages and any bounds.  Each component    *)
(* has an invariant of its own; the others leave its variables alone.      *)
(***************************************************************************)
EXTENDS MCEdges, TLAPS

\* The parts move one at a time, and none becomes another.
LEMMA OnePartMoves ==
  ASSUME [Next]_vars
  PROVE  /\ part' = part
         /\ \/ part = "http" /\ Http!Next
            \/ part = "bridge" /\ Bridge!Next
            \/ UNCHANGED front
         /\ \/ part = "keyspace" /\ Keyspace!Next
            \/ part = "polling" /\ Polling!Next
            \/ UNCHANGED pty
         /\ OpenCode!Next \/ UNCHANGED opencode
         /\ Codex!Next \/ UNCHANGED codex
         /\ Actors!Next \/ UNCHANGED actors
  BY DEF Next, vars, HttpMoves, BridgeMoves, KeyspaceMoves, PollingMoves, OpenCodeMoves,
         CodexMoves, ActorsMove

(***************************************************************************)
(* The actor directory.                                                    *)
(***************************************************************************)

Answers == {"idle", "policy", "read", "write", "ok", "invalid", "disallowed", "corrupt",
            "elsewhere", "raced"}

\* A call that lost its race did so to a record that stays another's, and an answer is
\* about a record that stays what it was, but for damage.
ActorsInv ==
  /\ stored \in Actors!Record \cup {None}
  /\ call \in [Registrations -> [at : Answers, by : Sessions \cup {None},
                                 launch : Launches \cup {None}, attempt : Nat]]
  /\ \A c \in Registrations :
       /\ call[c].at \in {"policy", "read", "write", "ok", "elsewhere"} => call[c].by \in Sessions
       /\ call[c].at = "ok" => stored # None /\ stored.owner \in {call[c].by, None}
       /\ call[c].at = "elsewhere" => stored # None /\ stored.owner # call[c].by
       /\ call[c].attempt >= 2 =>
            /\ stored # None /\ stored.owner # call[c].by /\ call[c].by \in Sessions
            /\ call[c].at \notin {"write", "raced", "idle", "policy"}
       /\ call[c].at = "raced" => call[c].attempt >= 2
       /\ call[c].at = "idle" => call[c].attempt = 0

\* What a step may do to a sound record: nothing but leave its owner or garble it.
OwnerStays == stored # None => stored' # None /\ stored'.owner \in {stored.owner, None}

\* Every step of the directory keeps its invariant and the owner.
LEMMA ActorsStep ==
  ASSUME ActorsInv, Actors!Next
  PROVE  ActorsInv' /\ OwnerStays
<1> USE NoneIsNoValue DEF ActorsInv, Answers, OwnerStays, Actors!Record
<1>1. ASSUME NEW c \in Registrations, NEW s \in Sessions, NEW w \in BOOLEAN,
             NEW l \in Launches \cup {None}, Actors!Begin(c, s, w, l)
      PROVE  ActorsInv' /\ OwnerStays
  BY <1>1 DEF Actors!Begin
<1>2. ASSUME NEW c \in Registrations, Actors!Reject(c)
      PROVE  ActorsInv' /\ OwnerStays
  BY <1>2 DEF Actors!Reject, Actors!Answered
<1>3. ASSUME NEW c \in Registrations, Actors!EvaluateLaunchPolicy(c)
      PROVE  ActorsInv' /\ OwnerStays
  BY <1>3 DEF Actors!EvaluateLaunchPolicy, Actors!Answered
<1>4. ASSUME NEW c \in Registrations, Actors!ReadRecord(c)
      PROVE  ActorsInv' /\ OwnerStays
  BY <1>4 DEF Actors!ReadRecord, Actors!Answered, Actors!Attempts
<1>5. ASSUME NEW c \in Registrations, Actors!ConditionalSet(c)
      PROVE  ActorsInv' /\ OwnerStays
  <2>1. CASE Actors!Writable(call[c].by)
    <3>1. /\ stored' = [owner |-> call[c].by, launch |-> call[c].launch, sound |-> TRUE]
          /\ call' = [call EXCEPT ![c].at = "ok"]
          /\ call[c].at = "write" /\ call[c].by \in Sessions
      BY <1>5, <2>1 DEF Actors!ConditionalSet, Actors!Answered
    <3>2. stored' \in Actors!Record
      BY <3>1
    <3>3. stored' # None /\ stored'.owner = call[c].by
      BY <3>1, <3>2 DEF Actors!Record
    <3>4. stored = None \/ (stored # None /\ stored.owner = call[c].by)
      BY <2>1 DEF Actors!Writable
    <3>5. OwnerStays
      BY <3>3, <3>4
    <3>6. ActorsInv'
      BY <3>1, <3>2, <3>3, <3>4
    <3> QED BY <3>5, <3>6
  <2>2. CASE ~Actors!Writable(call[c].by)
    BY <1>5, <2>2 DEF Actors!ConditionalSet, Actors!Writable
  <2> QED BY <2>1, <2>2
<1>6. CASE Actors!EditPolicy
  BY <1>6 DEF Actors!EditPolicy
<1>7. CASE Actors!Damage
  <2>1. PICK owner \in {stored.owner, None} :
          stored' = [stored EXCEPT !.sound = FALSE, !.owner = owner]
    BY <1>7 DEF Actors!Damage
  <2>2. stored # None /\ stored \in Actors!Record /\ UNCHANGED call
    BY <1>7 DEF Actors!Damage
  <2>3. stored' \in Actors!Record /\ stored'.owner = owner
    BY <2>1, <2>2
  <2>4. stored' # None
    BY <2>3
  <2> QED BY <2>1, <2>2, <2>3, <2>4
<1> QED BY <1>1, <1>2, <1>3, <1>4, <1>5, <1>6, <1>7 DEF Actors!Next

\* Whatever registrations race, an actor's owner is kept, the answers given stay true and
\* a registration that lost its race twice does not exist.
THEOREM OwnerIsAlwaysKept == Spec => OwnerIsKept
<1>1. Init => ActorsInv
  BY NoneIsNoValue DEF Init, Actors!Init, ActorsInv, Answers
<1>2. ActorsInv /\ [Next]_vars => ActorsInv' /\ (OwnerStays \/ UNCHANGED stored)
  <2> SUFFICES ASSUME ActorsInv, [Next]_vars PROVE ActorsInv' /\ (OwnerStays \/ UNCHANGED stored)
    OBVIOUS
  <2>1. CASE Actors!Next
    BY <2>1, ActorsStep
  <2>2. CASE UNCHANGED actors
    BY <2>2 DEF actors, ActorsInv
  <2> QED BY <2>1, <2>2, OnePartMoves
<1>3. ActorsInv => Actors!AnswerIsTrue /\ Actors!RaceIsExplained
  BY NoneIsNoValue DEF ActorsInv, Actors!AnswerIsTrue, Actors!RaceIsExplained, Actors!Record
<1>4. (OwnerStays \/ UNCHANGED stored)
      => [stored # None /\ stored.sound =>
            stored' # None /\ stored'.owner \in {stored.owner, None}]_(Actors!vars)
  BY DEF OwnerStays
<1> QED BY <1>1, <1>2, <1>3, <1>4, PTL DEF Spec, OwnerIsKept, Actors!OwnerForever

(***************************************************************************)
(* The Codex socket.                                                       *)
(***************************************************************************)

\* A request is in the table exactly while its caller waits for a reply, which takes a
\* socket; and the frame that resolved it was its reply.
CodexInv ==
  /\ req \in [Requests -> {"new", "waiting", "pending", "resolved", "rejected"}]
  /\ DOMAIN cause = Requests
  /\ pending \subseteq Requests
  /\ \A r \in Requests : r \in pending <=> req[r] = "pending"
  /\ pending # {} => sock # 0
  /\ conns \in Nat
  /\ Codex!ResolvedByItsAnswer

\* What a caller was told stays.
ToldStays == \A r \in Requests : req[r] \in {"resolved", "rejected"} => req'[r] = req[r]

\* Every step of the socket keeps its invariant and what callers were told.
LEMMA CodexStep ==
  ASSUME CodexInv, Codex!Next
  PROVE  CodexInv' /\ ToldStays
<1> USE DEF CodexInv, ToldStays, Codex!ResolvedByItsAnswer, Codex!Settle
<1>1. ASSUME NEW r \in Requests, Codex!Request(r)
      PROVE  CodexInv' /\ ToldStays
  BY <1>1 DEF Codex!Request
<1>2. ASSUME NEW r \in Requests, Codex!SendRequest(r)
      PROVE  CodexInv' /\ ToldStays
  BY <1>2 DEF Codex!SendRequest
<1>3. ASSUME NEW r \in Requests, Codex!Expire(r)
      PROVE  CodexInv' /\ ToldStays
  BY <1>3 DEF Codex!Expire
<1>4. CASE Codex!OpenFails
  BY <1>4 DEF Codex!OpenFails, Codex!Fail, Codex!Waiting
<1>5. CASE Codex!Handshaken \/ Codex!Initialized
  BY <1>5 DEF Codex!Handshaken, Codex!Initialized
<1>6. CASE Codex!Disconnect \/ Codex!Close
  BY <1>6 DEF Codex!Disconnect, Codex!Close, Codex!Fail
<1>7. ASSUME NEW f \in Codex!Frame, Codex!ServerSends(f)
      PROVE  CodexInv' /\ ToldStays
  BY <1>7 DEF Codex!ServerSends
<1>8. ASSUME NEW f \in wire, Codex!Read(f)
      PROVE  CodexInv' /\ ToldStays
  <2>1. CASE Codex!Fail({}) /\ UNCHANGED <<cause, conns>>
    BY <2>1 DEF Codex!Fail
  <2>2. CASE /\ Codex!Answers(f)
             /\ req' = Codex!Settle({f.id}, IF f.kind = "refusal" THEN "rejected" ELSE "resolved")
             /\ cause' = [cause EXCEPT ![f.id] = f]
             /\ pending' = pending \ {f.id}
             /\ UNCHANGED <<sock, conns>>
    BY <2>2 DEF Codex!Answers
  <2>3. CASE UNCHANGED <<sock, pending, req, cause, conns>>
    BY <2>3
  <2> QED BY <1>8, <2>1, <2>2, <2>3 DEF Codex!Read
<1> QED BY <1>1, <1>2, <1>3, <1>4, <1>5, <1>6, <1>7, <1>8 DEF Codex!Next

\* However late, repeated or malformed the server's frames are, and whenever connections
\* close, a request is settled once, and resolved only by its own reply.
THEOREM RequestsAlwaysAnswered == Spec => RequestsAreAnswered
<1>1. Init => CodexInv
  BY DEF Init, Codex!Init, CodexInv, Codex!ResolvedByItsAnswer
<1>2. CodexInv /\ [Next]_vars => CodexInv' /\ ToldStays
  <2> SUFFICES ASSUME CodexInv, [Next]_vars PROVE CodexInv' /\ ToldStays
    OBVIOUS
  <2>1. CASE Codex!Next
    BY <2>1, CodexStep
  <2>2. CASE UNCHANGED codex
    BY <2>2 DEF codex, CodexInv, ToldStays, Codex!ResolvedByItsAnswer
  <2> QED BY <2>1, <2>2, OnePartMoves
<1>3. CodexInv => Codex!ResolvedByItsAnswer /\ Codex!PendingIsLive
  BY DEF CodexInv, Codex!PendingIsLive
<1>4. ToldStays =>
        [\A r \in Requests : req[r] \in {"resolved", "rejected"} => req'[r] = req[r]]_(Codex!vars)
  BY DEF ToldStays
<1> QED BY <1>1, <1>2, <1>3, <1>4, PTL DEF Spec, RequestsAreAnswered, Codex!SettledForGood

(***************************************************************************)
(* The PTY wrapper.                                                        *)
(***************************************************************************)

\* The flag, the listener and the detector agree.
NoticeInv ==
  /\ notice \in BOOLEAN /\ busy \in BOOLEAN /\ idle \in BOOLEAN
  /\ Keyspace!OneNoticeWaits
  /\ idle => ~busy

\* What an answer to LLEN leads to keeps them so, and types only into a quiet terminal.
LEMMA LengthStep ==
  ASSUME NoticeInv, UNCHANGED <<busy, armed, idle>>, Keyspace!Length \/ UNCHANGED Keyspace!notices
  PROVE  NoticeInv' /\ Keyspace!TypedQuietly
<1>1. CASE UNCHANGED Keyspace!notices
  BY <1>1 DEF NoticeInv, Keyspace!OneNoticeWaits, Keyspace!TypedQuietly, Keyspace!notices
<1>2. CASE ~notice /\ idle /\ noticed' = TRUE /\ UNCHANGED <<notice, listeners>>
  BY <1>2 DEF NoticeInv, Keyspace!OneNoticeWaits, Keyspace!TypedQuietly
<1>3. CASE ~notice /\ notice' = TRUE /\ listeners' = listeners + 1 /\ UNCHANGED noticed
  BY <1>3 DEF NoticeInv, Keyspace!OneNoticeWaits, Keyspace!TypedQuietly
<1> QED BY <1>1, <1>2, <1>3 DEF Keyspace!Length, Keyspace!Message

\* So does every step of the wrapper.
LEMMA KeyspaceStep ==
  ASSUME NoticeInv, Keyspace!Next
  PROVE  NoticeInv' /\ Keyspace!TypedQuietly
<1> USE DEF Keyspace!notices, Keyspace!detector
<1>1. CASE Keyspace!Push
  BY <1>1 DEF Keyspace!Push, NoticeInv, Keyspace!OneNoticeWaits, Keyspace!TypedQuietly
<1>2. CASE Keyspace!Output
  BY <1>2 DEF Keyspace!Output, NoticeInv, Keyspace!OneNoticeWaits, Keyspace!TypedQuietly
<1>3. CASE Keyspace!Quiet
  BY <1>3 DEF Keyspace!Quiet, NoticeInv, Keyspace!OneNoticeWaits, Keyspace!TypedQuietly
<1>4. CASE Keyspace!OnExit \/ Keyspace!Shutdown
  BY <1>4 DEF Keyspace!OnExit, Keyspace!Shutdown, NoticeInv, Keyspace!OneNoticeWaits,
              Keyspace!TypedQuietly
<1>5. CASE \/ Keyspace!Take \/ Keyspace!Drop \/ Keyspace!Reconnect
           \/ Keyspace!Configured \/ Keyspace!SubscribeAnswered \/ Keyspace!StartupCheck
           \/ Keyspace!Notified \/ Keyspace!NotifiedLength \/ Keyspace!Poll
           \/ Keyspace!PollFails \/ Keyspace!Wakes \/ Keyspace!NotifiedFails
           \/ Keyspace!ChildExits \/ Keyspace!StopWatcher
  BY <1>5, LengthStep
     DEF Keyspace!Take, Keyspace!Drop, Keyspace!Reconnect, Keyspace!Configured,
         Keyspace!SubscribeAnswered, Keyspace!StartupCheck, Keyspace!Notified,
         Keyspace!NotifiedLength, Keyspace!Poll, Keyspace!PollFails, Keyspace!Wakes,
         Keyspace!NotifiedFails, Keyspace!ChildExits, Keyspace!StopWatcher
<1> QED BY <1>1, <1>2, <1>3, <1>4, <1>5 DEF Keyspace!Next

\* Without keyspace events the watcher does nothing else, but starts to poll.
LEMMA PollingIsKeyspace ==
  ASSUME Polling!Next
  PROVE  Keyspace!Next \/ UNCHANGED <<Keyspace!detector, Keyspace!notices>>
<1>1. CASE Polling!Configured
  BY <1>1 DEF Polling!Configured, Polling!detector, Polling!notices, Keyspace!detector,
              Keyspace!notices
<1>2. Polling!Length <=> Keyspace!Length
  BY DEF Polling!Length, Keyspace!Length, Polling!Message, Keyspace!Message, Polling!notices,
         Keyspace!notices
<1>3. CASE Polling!Push \/ Polling!Take \/ Polling!Drop \/ Polling!Reconnect
  BY <1>2, <1>3 DEF Polling!Push, Keyspace!Push, Polling!Take, Keyspace!Take, Polling!Drop,
                    Keyspace!Drop, Polling!Reconnect, Keyspace!Reconnect,
                    Polling!Subscribed, Keyspace!Subscribed, Polling!Alive, Keyspace!Alive,
                    Polling!mail, Keyspace!mail, Polling!watcher, Keyspace!watcher,
                    Polling!detector, Keyspace!detector, Polling!notices, Keyspace!notices,
                    Polling!process, Keyspace!process, Keyspace!Next
<1>4. CASE Polling!Output \/ Polling!Quiet
  BY <1>2, <1>4 DEF Polling!Output, Keyspace!Output, Polling!Quiet, Keyspace!Quiet,
                    Polling!Subscribed, Keyspace!Subscribed, Polling!Alive, Keyspace!Alive,
                    Polling!mail, Keyspace!mail, Polling!watcher, Keyspace!watcher,
                    Polling!detector, Keyspace!detector, Polling!notices, Keyspace!notices,
                    Polling!process, Keyspace!process, Keyspace!Next
<1>5. CASE Polling!SubscribeAnswered \/ Polling!StartupCheck
           \/ Polling!Notified \/ Polling!NotifiedLength
  BY <1>2, <1>5 DEF Polling!SubscribeAnswered, Keyspace!SubscribeAnswered,
                    Polling!StartupCheck, Keyspace!StartupCheck, Polling!Notified,
                    Keyspace!Notified, Polling!NotifiedLength, Keyspace!NotifiedLength,
                    Polling!Subscribed, Keyspace!Subscribed, Polling!Alive, Keyspace!Alive,
                    Polling!mail, Keyspace!mail, Polling!watcher, Keyspace!watcher,
                    Polling!detector, Keyspace!detector, Polling!notices, Keyspace!notices,
                    Polling!process, Keyspace!process, Keyspace!Next
<1>6. CASE Polling!Poll \/ Polling!PollFails \/ Polling!Wakes \/ Polling!NotifiedFails
  BY <1>2, <1>6 DEF Polling!Poll, Keyspace!Poll, Polling!PollFails, Keyspace!PollFails,
                    Polling!Wakes, Keyspace!Wakes, Polling!NotifiedFails,
                    Keyspace!NotifiedFails, Polling!Subscribed, Keyspace!Subscribed,
                    Polling!Alive, Keyspace!Alive, Polling!mail, Keyspace!mail,
                    Polling!watcher, Keyspace!watcher, Polling!detector, Keyspace!detector,
                    Polling!notices, Keyspace!notices, Polling!process, Keyspace!process,
                    Keyspace!Next
<1>7. CASE Polling!ChildExits \/ Polling!OnExit \/ Polling!Shutdown \/ Polling!StopWatcher
  BY <1>2, <1>7 DEF Polling!ChildExits, Keyspace!ChildExits, Polling!OnExit,
                    Keyspace!OnExit, Polling!Shutdown, Keyspace!Shutdown,
                    Polling!StopWatcher, Keyspace!StopWatcher, Polling!Subscribed,
                    Keyspace!Subscribed, Polling!Alive, Keyspace!Alive, Polling!mail,
                    Keyspace!mail, Polling!watcher, Keyspace!watcher, Polling!detector,
                    Keyspace!detector, Polling!notices, Keyspace!notices, Polling!process,
                    Keyspace!process, Keyspace!Next
<1> QED BY <1>1, <1>3, <1>4, <1>5, <1>6, <1>7 DEF Polling!Next

\* However notifications, answers, output and timers interleave, one notice waits for the
\* terminal to fall silent, and none is typed before.
THEOREM NoticeIsAlwaysTimely == Spec => NoticeIsTimely
<1>1. Init => NoticeInv
  BY DEF Init, Keyspace!Init, NoticeInv, Keyspace!OneNoticeWaits
<1>2. NoticeInv /\ [Next]_vars => NoticeInv' /\ Keyspace!TypedQuietly
  <2> SUFFICES ASSUME NoticeInv, [Next]_vars PROVE NoticeInv' /\ Keyspace!TypedQuietly
    OBVIOUS
  <2>1. CASE Keyspace!Next
    BY <2>1, KeyspaceStep
  <2>2. CASE UNCHANGED <<Keyspace!detector, Keyspace!notices>>
    BY <2>2, LengthStep DEF Keyspace!detector, Keyspace!notices
  <2>3. CASE UNCHANGED pty
    BY <2>3, <2>2 DEF pty, Keyspace!detector, Keyspace!notices
  <2> QED BY <2>1, <2>2, <2>3, OnePartMoves, PollingIsKeyspace
<1>3. NoticeInv' /\ Keyspace!TypedQuietly => Keyspace!OneNoticeWaits' /\ Keyspace!TypedQuietly
  BY DEF NoticeInv
<1> QED BY <1>1, <1>2, <1>3, PTL DEF Spec, NoticeIsTimely

(***************************************************************************)
(* The two transport fronts.                                               *)
(***************************************************************************)

\* The shared server counts every open request, and the clients the reaper reaches are
\* those of its sessions; the bridge has no receives while it closes.
HttpInv == Http!ReaperReachesClients /\ counted = requests /\ closing = "no"
BridgeInv == Bridge!ReceivesEndWithBridge
FrontsInv == (part = "http" => HttpInv) /\ (part = "bridge" => BridgeInv)

\* Every step of the shared server keeps its invariant and spares open sessions.
LEMMA HttpStep ==
  ASSUME HttpInv, Http!Next
  PROVE  HttpInv' /\ Http!SparesOpen
<1> USE DEF HttpInv, Http!ReaperReachesClients, Http!SparesOpen
<1>1. ASSUME NEW i \in Ids, Http!Initialize(i) \/ Http!InitializeRejected(i) \/ Http!Age(i)
      PROVE  HttpInv' /\ Http!SparesOpen
  BY <1>1 DEF Http!Initialize, Http!InitializeRejected, Http!Stored, Http!Age
<1>2. ASSUME NEW i \in Ids, Http!Receive(i) \/ Http!Park(i) \/ Http!ReceiveEnds(i)
      PROVE  HttpInv' /\ Http!SparesOpen
  BY <1>2 DEF Http!Receive, Http!Park, Http!ReceiveEnds
<1>3. ASSUME NEW i \in Ids, Http!Request(i) \/ Http!ResponseCloses(i)
      PROVE  HttpInv' /\ Http!SparesOpen
  BY <1>3 DEF Http!Request, Http!ResponseCloses, Http!Tracked, Http!Untracked
<1>4. ASSUME NEW i \in Ids, Http!Delete(i)
      PROVE  HttpInv' /\ Http!SparesOpen
  <2>1. HttpInv' /\ transports \ transports' \subseteq {i}
    BY <1>4 DEF Http!Delete, Http!Closed
  <2> QED BY <1>4, <2>1
<1>5. CASE Http!Reap
  BY <1>5 DEF Http!Reap, Http!Closed
<1>6. CASE Http!Close \/ Http!CloseEnds
  BY <1>6 DEF Http!Close, Http!CloseEnds
<1> QED BY <1>1, <1>2, <1>3, <1>4, <1>5, <1>6 DEF Http!Next

\* Every step of the bridge keeps its invariant.
LEMMA BridgeStep ==
  ASSUME BridgeInv, Bridge!Next
  PROVE  BridgeInv'
  BY DEF BridgeInv, Bridge!ReceivesEndWithBridge, Bridge!Next, Bridge!Initialize,
         Bridge!InitializeRejected, Bridge!Request, Bridge!Receive, Bridge!Park,
         Bridge!ReceiveEnds, Bridge!ResponseCloses, Bridge!Delete, Bridge!Age, Bridge!Reap,
         Bridge!Close, Bridge!CloseEnds, Bridge!Closed

\* So does every step of the whole.
LEMMA FrontsStep ==
  ASSUME FrontsInv, [Next]_vars
  PROVE  FrontsInv' /\ (part = "http" => Http!SparesOpen)
<1>1. part' = part
  BY OnePartMoves
<1>2. CASE part = "http" /\ Http!Next
  BY <1>1, <1>2, HttpStep DEF FrontsInv
<1>3. CASE part = "bridge" /\ Bridge!Next
  BY <1>1, <1>3, BridgeStep DEF FrontsInv
<1>4. CASE UNCHANGED front
  BY <1>1, <1>4 DEF FrontsInv, front, HttpInv, Http!ReaperReachesClients, BridgeInv,
                    Bridge!ReceivesEndWithBridge, Http!SparesOpen
<1> QED BY <1>2, <1>3, <1>4, OnePartMoves

\* The invariant of both fronts.
LEMMA FrontsInvariant == Spec => []FrontsInv
<1>1. Init => FrontsInv
  BY DEF Init, Http!Init, FrontsInv, HttpInv, Http!ReaperReachesClients, BridgeInv,
         Bridge!ReceivesEndWithBridge
<1> QED BY <1>1, FrontsStep, PTL DEF Spec

\* The reaper of the shared server reaches every Redis client but those of rejected
\* initializes and failed closes, and once the bridge is closing no receive is on its way
\* to pop a message.
THEOREM FrontsAlwaysLetGo == Spec => []FrontsLetGo
<1>1. FrontsInv => FrontsLetGo
  BY DEF FrontsInv, HttpInv, BridgeInv, FrontsLetGo
<1> QED BY <1>1, FrontsInvariant, PTL

\* The reaper closes no session that has a request open, however long ago it was sent.
THEOREM ReaperSparesOpen == Spec => ReapSparesOpen
<1>1. FrontsInv /\ [Next]_vars => [part = "http" => Http!SparesOpen]_vars
  BY FrontsStep
<1> QED BY <1>1, FrontsInvariant, PTL DEF Spec, ReapSparesOpen

(***************************************************************************)
(* The owner of OpenCode backends.                                         *)
(***************************************************************************)

Creation ==
  [pc : {"unused", "creating", "created", "ready", "closing", "failing"} \cup OpenCode!Retired,
   host : Hosts \cup {None}, dir : Dirs \cup {None}, cancelled : BOOLEAN,
   stage : Int, open : SUBSET (OpenCode!Parts \cup {OpenCode!Half}), todo : SUBSET OpenCode!Parts,
   failed : SUBSET OpenCode!Parts]

Active(e) == entry[e].pc \notin OpenCode!Retired \cup {"unused"}

\* A cleanup still has to close whatever is open and may not be left; the entry of an
\* active creation is in the map, and a disposal waits for it.
CreationInv(e) ==
  LET x == entry[e]
  IN  /\ x.pc = "unused" => x.open = {}
      /\ x.pc # "unused" => x.host \in Hosts
      /\ x.pc = "creating" => x.stage \in 1..6
      /\ Active(e) => owned[x.host] = e
      /\ Active(e) /\ disposal # "no" => disposal = "pending" /\ e \in closers \cap awaiting
      /\ x.pc \notin {"failing", "rejected"} => x.open \subseteq OpenCode!Parts
      /\ x.pc \in {"failing", "closing"} => x.open \subseteq OpenCode!MayLeave(x) \cup x.todo
      /\ x.pc \in OpenCode!Retired => x.open \subseteq OpenCode!MayLeave(x)

OpenCodeInv ==
  /\ owned \in [Hosts -> Entries \cup {None}]
  /\ entry \in [Entries -> Creation]
  /\ \A s \in Hosts : owned[s] # None => entry[owned[s]].host = s /\ entry[owned[s]].pc # "unused"
  /\ \A e \in Entries : CreationInv(e)

\* The parts, and that the cleanup knows how to close each of them.
LEMMA PartsAre ==
  /\ OpenCode!Parts = {"redis", "session", "runtime", "server", "client", "dispatcher"}
  /\ OpenCode!Closable = OpenCode!Parts
  /\ \A i \in 1..6 : OpenCode!Stages[i] \in OpenCode!Parts /\ (OpenCode!Stages[i] = "dispatcher" <=> i = 6)
<1>1. OpenCode!Parts = {"redis", "session", "runtime", "server", "client", "dispatcher"}
  BY DEF OpenCode!Parts, OpenCode!Stages
<1>2. OpenCode!Closable = {"redis", "session", "runtime", "server", "client", "dispatcher"}
  BY DEF OpenCode!Closable, OpenCode!ClosingOrder
<1>3. \A i \in 1..6 : OpenCode!Stages[i] \in OpenCode!Parts /\ (OpenCode!Stages[i] = "dispatcher" <=> i = 6)
  BY <1>1 DEF OpenCode!Stages
<1> QED BY <1>1, <1>2, <1>3

\* A step of one creation that neither starts nor revives it.
LEMMA CreationMoves ==
  ASSUME OpenCodeInv, NEW e \in Entries, entry' \in [Entries -> Creation],
         \A f \in Entries \ {e} : entry'[f] = entry[f],
         entry[e].pc # "unused", entry'[e].pc # "unused", entry'[e].host = entry[e].host,
         Active(e)' => Active(e),
         entry'[e].pc = "creating" => entry'[e].stage \in 1..6,
         entry'[e].pc \notin {"failing", "rejected"} => entry'[e].open \subseteq OpenCode!Parts,
         entry'[e].pc \in {"failing", "closing"} =>
           entry'[e].open \subseteq OpenCode!MayLeave(entry'[e]) \cup entry'[e].todo,
         entry'[e].pc \in OpenCode!Retired => entry'[e].open \subseteq OpenCode!MayLeave(entry'[e]),
         UNCHANGED <<owned, disposal, awaiting>>, closers \subseteq closers'
  PROVE  OpenCodeInv'
<1>1. ASSUME NEW f \in Entries PROVE CreationInv(f)'
  <2>1. CreationInv(f)
    BY DEF OpenCodeInv
  <2>2. CASE f = e
    BY <2>1, <2>2 DEF CreationInv, Active
  <2>3. CASE f # e
    <3>1. entry'[f] = entry[f]
      BY <2>3
    <3> QED BY <2>1, <3>1 DEF CreationInv, Active
  <2> QED BY <2>2, <2>3
<1>2. ASSUME NEW s \in Hosts, owned'[s] # None
      PROVE  entry'[owned'[s]].host = s /\ entry'[owned'[s]].pc # "unused"
  BY <1>2 DEF OpenCodeInv
<1> QED BY <1>1, <1>2 DEF OpenCodeInv

\* getOrCreate, for a hook or for a forwarded call.
LEMMA GetOrCreateStep ==
  ASSUME OpenCodeInv, NEW e \in Entries, NEW s \in Hosts, NEW d \in Dirs,
         OpenCode!GetOrCreate(e, s, d), UNCHANGED <<closers, disposal, awaiting>>
  PROVE  OpenCodeInv'
<1>1. None \notin Entries /\ None \notin Hosts
  BY NoneIsNoValue
<1>2. CASE UNCHANGED <<owned, entry>>
  BY <1>2 DEF OpenCodeInv, CreationInv, Active
<1>3. CASE OpenCode!Starts(e, s, d) /\ owned[s] = None
  <2> DEFINE y == entry'[e]
  <2>1. /\ y = [OpenCode!Unused EXCEPT !.pc = "creating", !.host = s, !.dir = d]
        /\ \A f \in Entries \ {e} : entry'[f] = entry[f]
        /\ entry[e].pc = "unused"
    BY <1>3 DEF OpenCode!Starts, OpenCodeInv
  <2>2. y.pc = "creating" /\ y.host = s /\ y.stage = 1 /\ y.open = {} /\ y \in Creation
    <3> DEFINE u == OpenCode!Unused
    <3>1. u \in Creation /\ u.stage = 1 /\ u.open = {}
      BY DEF OpenCode!Unused, Creation
    <3> HIDE DEF u
    <3>2. y = [u EXCEPT !.pc = "creating", !.host = s, !.dir = d]
      BY <2>1 DEF u
    <3> QED BY ONLY <3>1, <3>2, s \in Hosts, d \in Dirs DEF Creation
  <2>3. entry' \in [Entries -> Creation]
    BY <1>3, <2>2 DEF OpenCode!Starts, OpenCodeInv
  <2>4. /\ owned' \in [Hosts -> Entries \cup {None}] /\ owned'[s] = e
        /\ \A h \in Hosts \ {s} : owned'[h] = owned[h]
    BY <1>3 DEF OpenCode!Starts, OpenCodeInv
  <2>5. disposal' = "no"
    BY DEF OpenCode!GetOrCreate
  <2>6. ASSUME NEW f \in Entries PROVE CreationInv(f)'
    <3>1. CASE f = e
      BY <2>2, <2>4, <2>5, <3>1 DEF CreationInv, OpenCode!Retired
    <3>2. CASE f # e
      <4>1. entry'[f] = entry[f] /\ CreationInv(f)
        BY <2>1, <3>2 DEF OpenCodeInv
      <4>2. Active(f) => entry[f].host # s
        BY <1>1, <1>3, <4>1 DEF CreationInv
      <4>3. Active(f) => entry[f].host \in Hosts
        BY <4>1 DEF CreationInv, Active
      <4> QED BY <2>4, <2>5, <4>1, <4>2, <4>3 DEF CreationInv, Active
    <3> QED BY <3>1, <3>2
  <2>7. ASSUME NEW h \in Hosts, owned'[h] # None
        PROVE  entry'[owned'[h]].host = h /\ entry'[owned'[h]].pc # "unused"
    <3>1. CASE h = s
      BY <2>2, <2>4, <3>1
    <3>2. CASE h # s
      <4>1. owned'[h] = owned[h] /\ owned[h] \in Entries
        BY <2>4, <2>7, <3>2 DEF OpenCodeInv
      <4>2. entry[owned[h]].pc # "unused" /\ entry[owned[h]].host = h
        BY <2>7, <4>1 DEF OpenCodeInv
      <4> QED BY <2>1, <4>1, <4>2
    <3> QED BY <3>1, <3>2
  <2> QED BY <2>3, <2>4, <2>6, <2>7 DEF OpenCodeInv
<1> QED BY <1>2, <1>3 DEF OpenCode!GetOrCreate

\* The steps of a creation, up to the end of its cleanup.
LEMMA BackendStep ==
  ASSUME OpenCodeInv, NEW e \in Entries,
         \/ OpenCode!OpenPart(e) \/ OpenCode!OpenFails(e) \/ OpenCode!Admit(e)
         \/ OpenCode!CloseHandle(e) \/ \E ok \in BOOLEAN : OpenCode!ClosePart(e, ok)
  PROVE  OpenCodeInv'
<1> DEFINE x == entry[e]
           y == entry'[e]
           p == OpenCode!Stages[x.stage]
<1>1. /\ x \in Creation /\ CreationInv(e) /\ entry \in [Entries -> Creation]
  BY SMTT(40) DEF OpenCodeInv
<1>2. UNCHANGED <<owned, disposal, awaiting, closers>>
  BY DEF OpenCode!OpenPart, OpenCode!OpenFails, OpenCode!Admit, OpenCode!CloseHandle, OpenCode!ClosePart
<1>3. /\ \A f \in Entries \ {e} : entry'[f] = entry[f]
      /\ y.host = x.host
  <2>1. CASE OpenCode!OpenPart(e)
    BY <1>1, <2>1 DEF OpenCode!OpenPart, Creation
  <2>2. CASE OpenCode!OpenFails(e)
    <3> DEFINE left == x.open \cup OpenCode!LeftBehind(p)
    <3>1. PICK half : entry' = [entry EXCEPT ![e] = [x EXCEPT !.pc = "failing", !.open = left \cup half,
                                                              !.todo = OpenCode!CleanupOf(left)]]
      BY <2>2 DEF OpenCode!OpenFails
    <3> HIDE DEF left
    <3> QED BY <1>1, <3>1 DEF Creation
  <2>3. CASE OpenCode!Admit(e) \/ OpenCode!CloseHandle(e)
    BY <1>1, <2>3 DEF OpenCode!Admit, OpenCode!CloseHandle, Creation
  <2>4. ASSUME NEW ok \in BOOLEAN, OpenCode!ClosePart(e, ok)
        PROVE  (\A f \in Entries \ {e} : entry'[f] = entry[f]) /\ y.host = x.host
    BY <1>1, <2>4 DEF OpenCode!ClosePart, Creation
  <2> QED BY <2>1, <2>2, <2>3, <2>4
<1>4. CASE OpenCode!OpenPart(e)
  <2>1. /\ x.pc = "creating" /\ x.stage \in 1..6 /\ x.open \subseteq OpenCode!Parts
    BY <1>1, <1>4 DEF OpenCode!OpenPart, CreationInv
  <2>2. p \in OpenCode!Parts /\ (p = "dispatcher" <=> x.stage = 6)
    BY <2>1, PartsAre
  <2>3. entry' = [entry EXCEPT ![e] = [x EXCEPT !.open = OpenCode!Opened(x.open, p), !.stage = x.stage + 1,
                                        !.pc = IF p = "dispatcher" THEN "created" ELSE "creating"]]
    BY <1>4 DEF OpenCode!OpenPart
  <2>4. OpenCode!Opened(x.open, p) \in SUBSET OpenCode!Parts
    BY <2>1, <2>2 DEF OpenCode!Opened
  <2>5. /\ y \in Creation /\ y.pc \in {"creating", "created"} /\ y.stage = x.stage + 1
        /\ y.pc = "creating" => p # "dispatcher"
        /\ y.open \subseteq OpenCode!Parts
    <3> DEFINE o == OpenCode!Opened(x.open, p)
               k == x.stage + 1
               c == IF p = "dispatcher" THEN "created" ELSE "creating"
    <3>1. y = [x EXCEPT !.open = o, !.stage = k, !.pc = c]
      BY <1>1, <2>3
    <3>2. k \in Int /\ c \in {"creating", "created"} /\ (c = "creating" => p # "dispatcher")
      BY <2>1
    <3>3. o \in SUBSET OpenCode!Parts
      BY <2>4
    <3> HIDE DEF o, k, c, p, x, y
    <3>4. y \in Creation /\ y.pc = c /\ y.stage = k /\ y.open = o
      BY ONLY <1>1, <3>1, <3>2, <3>3 DEF Creation
    <3> QED BY <3>2, <3>3, <3>4 DEF k
  <2>6. y.pc = "creating" => y.stage \in 1..6
    BY <2>1, <2>2, <2>5
  <2>7. entry' \in [Entries -> Creation]
    BY <1>1, <2>3, <2>5
  <2>8. Active(e) /\ y.pc \notin OpenCode!Retired
    BY <2>1, <2>5 DEF Active, OpenCode!Retired
  <2> QED BY <1>2, <1>3, <2>1, <2>5, <2>6, <2>7, <2>8, CreationMoves
<1>5. CASE OpenCode!OpenFails(e)
  <2> DEFINE left == x.open \cup OpenCode!LeftBehind(p)
  <2>1. x.pc = "creating" /\ x.open \subseteq OpenCode!Parts
    BY <1>1, <1>5 DEF OpenCode!OpenFails, CreationInv
  <2>2. left \in SUBSET OpenCode!Parts /\ OpenCode!CleanupOf(left) = left
    BY <2>1, PartsAre DEF OpenCode!LeftBehind, OpenCode!CleanupOf
  <2>3. PICK half \in SUBSET {OpenCode!Half} :
          /\ half # {} => x.stage = OpenCode!Registering
          /\ entry' = [entry EXCEPT ![e] = [x EXCEPT !.pc = "failing", !.open = left \cup half,
                                                     !.todo = OpenCode!CleanupOf(left)]]
    BY ZenonT(60), <1>5 DEF OpenCode!OpenFails
  <2> HIDE DEF left
  <2>4. /\ y \in Creation /\ y.pc = "failing" /\ y.open = left \cup half /\ y.todo = left
        /\ y.stage = x.stage
    BY <1>1, <2>2, <2>3 DEF Creation
  <2>5. entry' \in [Entries -> Creation]
    BY <1>1, <2>3, <2>4
  <2>6. Active(e) /\ y.pc \notin OpenCode!Retired
    BY <2>1, <2>4 DEF Active, OpenCode!Retired
  <2>7. y.open \subseteq OpenCode!MayLeave(y) \cup y.todo
    BY <2>3, <2>4 DEF OpenCode!MayLeave
  <2> QED BY <1>2, <1>3, <2>1, <2>4, <2>5, <2>6, <2>7, CreationMoves
<1>6. CASE OpenCode!Admit(e) \/ OpenCode!CloseHandle(e)
  <2>1. x.pc \in {"created", "ready"}
    BY <1>6 DEF OpenCode!Admit, OpenCode!CloseHandle
  <2>9. x.open \subseteq OpenCode!Parts /\ OpenCode!CleanupOf(x.open) = x.open
    BY <1>1, <2>1, PartsAre DEF CreationInv, OpenCode!CleanupOf
  <2>2. \/ entry' = [entry EXCEPT ![e] = [x EXCEPT !.pc = "failing", !.todo = OpenCode!CleanupOf(x.open)]]
        \/ entry' = [entry EXCEPT ![e] = [x EXCEPT !.pc = "closing", !.todo = OpenCode!CleanupOf(x.open)]]
        \/ entry' = [entry EXCEPT ![e] = [x EXCEPT !.pc = "ready"]]
    BY <1>6 DEF OpenCode!Admit, OpenCode!CloseHandle
  <2>3. /\ y \in Creation /\ y.pc \in {"failing", "closing", "ready"} /\ y.open = x.open
        /\ y.pc # "ready" => y.todo = x.open
    <3> DEFINE o == x.open
    <3>1. o \in SUBSET OpenCode!Parts
      BY <2>9
    <3>2. \/ y = [x EXCEPT !.pc = "failing", !.todo = o]
          \/ y = [x EXCEPT !.pc = "closing", !.todo = o]
          \/ y = [x EXCEPT !.pc = "ready"]
      BY <1>1, <2>2, <2>9
    <3> HIDE DEF o, x, y
    <3>3. CASE y = [x EXCEPT !.pc = "failing", !.todo = o]
      BY ONLY <1>1, <3>1, <3>3 DEF Creation, o
    <3>4. CASE y = [x EXCEPT !.pc = "closing", !.todo = o]
      BY ONLY <1>1, <3>1, <3>4 DEF Creation, o
    <3>5. CASE y = [x EXCEPT !.pc = "ready"]
      BY ONLY <1>1, <3>5 DEF Creation
    <3> QED BY <3>2, <3>3, <3>4, <3>5
  <2>4. entry' \in [Entries -> Creation]
    BY <1>1, <2>2, <2>3
  <2>5. Active(e) /\ y.pc \notin OpenCode!Retired
    BY <2>1, <2>3 DEF Active, OpenCode!Retired
  <2> QED BY <1>2, <1>3, <2>1, <2>3, <2>4, <2>5, <2>9, CreationMoves
<1>7. ASSUME NEW ok \in BOOLEAN, OpenCode!ClosePart(e, ok) PROVE OpenCodeInv'
  <2> DEFINE q == OpenCode!FirstOf(x.todo)
  <2>1. /\ x.pc \in {"failing", "closing"} /\ (ok \/ q \in OpenCode!Parts)
    BY <1>7, PartsAre DEF OpenCode!ClosePart
  <2>2. entry' = [entry EXCEPT ![e] = [x EXCEPT !.todo = x.todo \ {q},
                                                !.open = IF ok THEN x.open \ {q} ELSE x.open,
                                                !.failed = IF ok THEN x.failed ELSE x.failed \cup {q}]]
    BY <1>7 DEF OpenCode!ClosePart
  <2> HIDE DEF q
  <2>3. /\ y \in Creation /\ y.pc = x.pc /\ y.todo = x.todo \ {q} /\ y.stage = x.stage
        /\ y.open = (IF ok THEN x.open \ {q} ELSE x.open)
        /\ y.failed = (IF ok THEN x.failed ELSE x.failed \cup {q})
    BY <1>1, <2>1, <2>2 DEF Creation
  <2>7. x.open \subseteq OpenCode!MayLeave(x) \cup x.todo
    BY <1>1, <2>1 DEF CreationInv
  <2>8. y.pc \notin {"failing", "rejected"} => y.open \subseteq OpenCode!Parts
    BY <1>1, <2>3 DEF CreationInv
  <2>4. y.open \subseteq OpenCode!MayLeave(y) \cup y.todo
    BY <2>3, <2>7 DEF OpenCode!MayLeave
  <2>5. entry' \in [Entries -> Creation]
    BY <1>1, <2>2, <2>3
  <2>6. Active(e) /\ y.pc \notin OpenCode!Retired
    BY <2>1, <2>3 DEF Active, OpenCode!Retired
  <2> QED BY <1>2, <1>3, <2>1, <2>3, <2>4, <2>5, <2>6, <2>8, CreationMoves
<1> QED BY <1>4, <1>5, <1>6, <1>7

\* The end of a cleanup, and of an owner.close: an entry leaves the map only for itself.
LEMMA LeavesStep ==
  ASSUME OpenCodeInv, NEW e \in Entries, OpenCode!CleanupEnds(e) \/ OpenCode!CloseReturns(e)
  PROVE  OpenCodeInv'
<1> DEFINE x == entry[e]
           y == entry'[e]
<1>1. /\ x \in Creation /\ CreationInv(e) /\ entry \in [Entries -> Creation] /\ None \notin Entries
      /\ owned \in [Hosts -> Entries \cup {None}]
  BY NoneIsNoValue DEF OpenCodeInv
<1>2. /\ entry' \in [Entries -> Creation] /\ \A f \in Entries \ {e} : entry'[f] = entry[f]
      /\ y.pc \in OpenCode!Retired /\ y.open \subseteq OpenCode!MayLeave(y)
      /\ (y.pc # "rejected" => y.open \subseteq OpenCode!Parts) /\ y.host = x.host /\ x.host \in Hosts
  <2>1. CASE OpenCode!CleanupEnds(e)
    <3>1. /\ x.pc \in {"failing", "closing"} /\ x.todo = {}
          /\ entry' = [entry EXCEPT ![e] = [x EXCEPT !.pc = IF x.pc = "failing" THEN "rejected" ELSE "closed"]]
      BY <2>1 DEF OpenCode!CleanupEnds
    <3>2. /\ x.open \subseteq OpenCode!MayLeave(x) /\ x.host \in Hosts
          /\ x.pc = "closing" => x.open \subseteq OpenCode!Parts
      BY <1>1, <3>1 DEF CreationInv
    <3>3. /\ y \in Creation /\ y.pc = (IF x.pc = "failing" THEN "rejected" ELSE "closed")
          /\ y.open = x.open /\ y.failed = x.failed /\ y.stage = x.stage /\ y.host = x.host
      BY <1>1, <3>1 DEF Creation, OpenCode!Retired
    <3>4. y.open \subseteq OpenCode!MayLeave(y)
      BY <3>1, <3>2, <3>3 DEF OpenCode!MayLeave
    <3>5. y.pc \in OpenCode!Retired /\ (y.pc # "rejected" => y.open \subseteq OpenCode!Parts)
      BY <3>1, <3>2, <3>3 DEF OpenCode!Retired
    <3> QED BY <1>1, <3>1, <3>2, <3>3, <3>4, <3>5
  <2>2. CASE OpenCode!CloseReturns(e)
    BY <1>1, <2>2 DEF OpenCode!CloseReturns, CreationInv, OpenCode!Retired
  <2> QED BY <2>1, <2>2
<1>3. /\ UNCHANGED <<disposal, awaiting>> /\ closers \ {e} \subseteq closers'
      /\ owned' = OpenCode!Without(x.host, e)
  BY DEF OpenCode!CleanupEnds, OpenCode!CloseReturns
<1>4. /\ owned' \in [Hosts -> Entries \cup {None}]
      /\ \A s \in Hosts : owned'[s] = owned[s] \/ (owned[s] = e /\ owned'[s] = None)
  BY <1>1, <1>2, <1>3 DEF OpenCode!Without
<1>5. ASSUME NEW f \in Entries PROVE CreationInv(f)'
  <2>1. CASE f = e
    BY <1>2, <2>1 DEF CreationInv, Active, OpenCode!Retired
  <2>2. CASE f # e
    <3>1. entry'[f] = entry[f] /\ CreationInv(f)
      BY <1>2, <2>2 DEF OpenCodeInv
    <3>2. Active(f) => owned'[entry[f].host] = f
      <4> SUFFICES ASSUME Active(f) PROVE owned'[entry[f].host] = f
        OBVIOUS
      <4>1. owned[entry[f].host] = f /\ entry[f].host \in Hosts
        BY <3>1 DEF CreationInv, Active
      <4> QED BY <1>4, <2>2, <4>1
    <3> QED BY <1>3, <2>2, <3>1, <3>2 DEF CreationInv, Active
  <2> QED BY <2>1, <2>2
<1>6. ASSUME NEW s \in Hosts, owned'[s] # None
      PROVE  entry'[owned'[s]].host = s /\ entry'[owned'[s]].pc # "unused"
  <2>1. owned'[s] = owned[s] /\ owned[s] \in Entries
    BY <1>1, <1>4, <1>6
  <2>2. entry[owned[s]].host = s /\ entry[owned[s]].pc # "unused"
    BY <1>6, <2>1 DEF OpenCodeInv
  <2> QED BY <1>2, <2>1, <2>2 DEF OpenCode!Retired
<1> QED BY <1>2, <1>4, <1>5, <1>6 DEF OpenCodeInv

\* A deletion of one session.
LEMMA CloseStep ==
  ASSUME OpenCodeInv, NEW s \in Hosts, NEW d \in Dirs, OpenCode!Close(s, d)
  PROVE  OpenCodeInv'
<1> DEFINE e == owned[s]
           x == entry[e]
           y == entry'[e]
<1>1. /\ e \in Entries /\ x \in Creation /\ CreationInv(e) /\ entry \in [Entries -> Creation]
      /\ x.pc # "unused"
  BY DEF OpenCode!Close, OpenCodeInv
<1>2. entry' = [entry EXCEPT ![e] = [x EXCEPT !.cancelled = TRUE]]
  BY DEF OpenCode!Close
<1>3. UNCHANGED <<owned, disposal, awaiting>> /\ closers \subseteq closers'
  BY DEF OpenCode!Close
<1> HIDE DEF e
<1>4. /\ y \in Creation /\ y.pc = x.pc /\ y.host = x.host /\ y.stage = x.stage /\ y.open = x.open
      /\ y.todo = x.todo /\ y.failed = x.failed
  BY <1>1, <1>2 DEF Creation
<1>5. entry' \in [Entries -> Creation] /\ \A f \in Entries \ {e} : entry'[f] = entry[f]
  BY <1>1, <1>2, <1>4
<1>6. /\ y.pc = "creating" => y.stage \in 1..6
      /\ y.pc \notin {"failing", "rejected"} => y.open \subseteq OpenCode!Parts
      /\ y.pc \in {"failing", "closing"} => y.open \subseteq OpenCode!MayLeave(y) \cup y.todo
      /\ y.pc \in OpenCode!Retired => y.open \subseteq OpenCode!MayLeave(y)
  <2>1. OpenCode!MayLeave(y) = OpenCode!MayLeave(x)
    BY <1>4 DEF OpenCode!MayLeave
  <2> QED BY <1>1, <1>4, <2>1 DEF CreationInv
<1>7. entry'[e].pc \notin OpenCode!Retired \cup {"unused"} => Active(e)
  BY <1>4 DEF Active
<1> QED BY <1>1, <1>3, <1>4, <1>5, <1>6, <1>7, CreationMoves DEF Active

\* A disposal finds every active creation in the map, and waits for it.
LEMMA DisposeStep ==
  ASSUME OpenCodeInv, OpenCode!Dispose
  PROVE  OpenCodeInv'
<1> DEFINE all == {owned[s] : s \in Hosts} \ {None}
<1>1. /\ entry \in [Entries -> Creation] /\ None \notin Entries /\ owned' = owned
      /\ owned \in [Hosts -> Entries \cup {None}] /\ disposal' = "pending"
      /\ awaiting' = all /\ all \subseteq closers'
  BY NoneIsNoValue DEF OpenCodeInv, OpenCode!Dispose
<1>2. ASSUME NEW e \in Entries
      PROVE  /\ entry'[e] \in Creation /\ entry'[e].pc = entry[e].pc /\ entry'[e].host = entry[e].host
             /\ entry'[e].stage = entry[e].stage /\ entry'[e].open = entry[e].open
             /\ entry'[e].todo = entry[e].todo /\ entry'[e].failed = entry[e].failed
  <2> DEFINE x == entry[e]
             b == x.cancelled \/ e \in all
  <2>1. entry'[e] = [x EXCEPT !.cancelled = b] /\ x \in Creation
    BY <1>1 DEF OpenCode!Dispose
  <2> HIDE DEF x
  <2>2. b \in BOOLEAN
    OBVIOUS
  <2> HIDE DEF b
  <2>3. entry'[e] \in Creation
    BY <2>1, <2>2 DEF Creation
  <2> QED BY <2>1, <2>3 DEF Creation, x
<1>3. entry' \in [Entries -> Creation]
  <2>1. entry' = [e \in Entries |-> entry'[e]]
    BY DEF OpenCode!Dispose
  <2> QED BY <1>2, <2>1
<1> HIDE DEF all
<1>4. ASSUME NEW e \in Entries PROVE CreationInv(e)'
  <2>1. CreationInv(e)
    BY DEF OpenCodeInv
  <2>2. Active(e) => e \in all
    <3> SUFFICES ASSUME Active(e) PROVE e \in all
      OBVIOUS
    <3>1. owned[entry[e].host] = e /\ entry[e].host \in Hosts
      BY <2>1 DEF CreationInv, Active
    <3> QED BY <1>1, <3>1 DEF all
  <2>3. OpenCode!MayLeave(entry'[e]) = OpenCode!MayLeave(entry[e])
    BY <1>2 DEF OpenCode!MayLeave
  <2> QED BY <1>1, <1>2, <2>1, <2>2, <2>3 DEF CreationInv, Active
<1>5. ASSUME NEW s \in Hosts, owned'[s] # None
      PROVE  entry'[owned'[s]].host = s /\ entry'[owned'[s]].pc # "unused"
  <2>1. owned[s] \in Entries /\ entry[owned[s]].host = s /\ entry[owned[s]].pc # "unused"
    BY <1>1, <1>5 DEF OpenCodeInv
  <2> QED BY <1>1, <1>2, <2>1
<1> QED BY <1>1, <1>3, <1>4, <1>5 DEF OpenCodeInv

\* Every step of the owner keeps its invariant.
LEMMA OpenCodeStep ==
  ASSUME OpenCodeInv, OpenCode!Next
  PROVE  OpenCodeInv'
<1>1. ASSUME NEW e \in Entries, NEW s \in Hosts, NEW d \in Dirs,
             OpenCode!Ensure(e, s, d) \/ \E c \in ToolCalls : OpenCode!Call(c, e, s, d)
      PROVE  OpenCodeInv'
  BY <1>1, GetOrCreateStep DEF OpenCode!Ensure, OpenCode!Call
<1>2. ASSUME NEW e \in Entries,
             \/ OpenCode!OpenPart(e) \/ OpenCode!OpenFails(e) \/ OpenCode!Admit(e)
             \/ OpenCode!CloseHandle(e) \/ \E ok \in BOOLEAN : OpenCode!ClosePart(e, ok)
      PROVE  OpenCodeInv'
  BY <1>2, BackendStep
<1>3. ASSUME NEW e \in Entries, OpenCode!CleanupEnds(e) \/ OpenCode!CloseReturns(e)
      PROVE  OpenCodeInv'
  BY <1>3, LeavesStep
<1>4. ASSUME NEW s \in Hosts, NEW d \in Dirs, OpenCode!Close(s, d) PROVE OpenCodeInv'
  BY <1>4, CloseStep
<1>5. CASE OpenCode!DisposeEnds
  <2>1. ASSUME NEW e \in Entries PROVE CreationInv(e)'
    <3>1. CreationInv(e)
      BY DEF OpenCodeInv
    <3>2. ~Active(e)
      BY <1>5, <3>1 DEF OpenCode!DisposeEnds, CreationInv
    <3> QED BY <1>5, <3>1, <3>2 DEF OpenCode!DisposeEnds, CreationInv, Active
  <2> QED BY <1>5, <2>1 DEF OpenCode!DisposeEnds, OpenCodeInv
<1>6. ASSUME UNCHANGED <<owned, entry, closers, disposal, awaiting>> PROVE OpenCodeInv'
  BY <1>6 DEF OpenCodeInv, CreationInv, Active
<1>7. ASSUME NEW c \in ToolCalls, OpenCode!Forward(c) PROVE OpenCodeInv'
  BY <1>6, <1>7 DEF OpenCode!Forward
<1>8. CASE OpenCode!Finished
  BY <1>6, <1>8 DEF OpenCode!Finished, OpenCode!vars
<1> QED BY <1>1, <1>2, <1>3, <1>4, <1>5, <1>7, <1>8, DisposeStep DEF OpenCode!Next

\* Whatever await a deletion, a disposal or a failure comes at, an open backend is the one
\* its owner's map holds, and once retired or disposed of it has left nothing open but the
\* parts that failed to close and the session of a registration that threw half way.
THEOREM BackendIsNeverOrphaned == Spec => []NoBackendOrphaned
<1>1. Init => OpenCodeInv
  <2> SUFFICES ASSUME Init PROVE OpenCodeInv
    OBVIOUS
  <2>1. OpenCode!Unused \in Creation /\ OpenCode!Unused.pc = "unused" /\ OpenCode!Unused.open = {}
    BY DEF OpenCode!Unused, Creation
  <2> HIDE DEF OpenCode!Unused
  <2>2. entry = [e \in Entries |-> OpenCode!Unused] /\ owned = [s \in Hosts |-> None]
    BY DEF Init, OpenCode!Init
  <2> QED BY <2>1, <2>2 DEF OpenCodeInv, CreationInv, Active, OpenCode!Retired
<1>2. OpenCodeInv /\ [Next]_vars => OpenCodeInv'
  <2> SUFFICES ASSUME OpenCodeInv, [Next]_vars PROVE OpenCodeInv'
    OBVIOUS
  <2>1. CASE OpenCode!Next
    BY <2>1, OpenCodeStep
  <2>2. CASE UNCHANGED opencode
    BY <2>2 DEF opencode, OpenCodeInv, CreationInv, Active
  <2> QED BY <2>1, <2>2, OnePartMoves
<1>3. OpenCodeInv => NoBackendOrphaned
  BY DEF OpenCodeInv, CreationInv, Active, NoBackendOrphaned, OpenCode!OwnedWhileOpen,
         OpenCode!RetiredLeavesNothing, OpenCode!DisposedLeavesNothing
<1> QED BY <1>1, <1>2, <1>3, PTL DEF Spec
=============================================================================
