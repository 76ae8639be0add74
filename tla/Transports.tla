----------------------------- MODULE Transports -----------------------------
(***************************************************************************)
(* The two HTTP front ends: the shared server, with its session limit and  *)
(* its reaper of idle sessions (src/transports/http.ts), and the wrapper's *)
(* bridge, with its bounded close (src/experimental-wrapper/bridge.ts).    *)
(*                                                                         *)
(* The SDK's transport is external: it admits or rejects an initialize,    *)
(* calls onsessioninitialized in the same turn, and onclose when it is     *)
(* closed.                                                                 *)
(***************************************************************************)
EXTENDS Integers, FiniteSets

CONSTANTS
  Front,        \* "http" or "bridge"
  Ids,          \* transport session ids, in the order of initialize requests
  MaxSessions,  \* GPTQUEUE_HTTP_MAX_SESSIONS, MAX_TRANSPORT_SESSIONS
  MaxOpen       \* bound: requests open at once on one session

VARIABLES
  transports,  \* the sessions in the map
  activity,    \* http: sessions with an activity entry
  requests,    \* how many of each session's responses have not closed
  counted,     \* http: entry.open, what trackRequest makes of that
  idle,        \* sessions last seen before the reaper's cutoff
  receiving,   \* each session's receive: none, on its way to Redis, parked in BLPOP
  clients,     \* http: the sessions whose own RedisClient is connected
  stray,       \* history: those whose initialize was rejected, or whose idle close failed
               \* with no request since
  used,        \* ids handed out
  closing      \* bridge.close: not called, in its grace periods, finished

vars == <<transports, activity, requests, counted, idle, receiving, clients, stray, used, closing>>

TypeOK ==
  /\ transports \subseteq Ids /\ activity \subseteq Ids
  /\ requests \in [Ids -> 0..MaxOpen] /\ counted \in [Ids -> 0..MaxOpen]
  /\ receiving \in [Ids -> {"no", "gate", "parked"}]
  /\ idle \subseteq Ids /\ clients \subseteq Ids /\ stray \subseteq Ids /\ used \subseteq Ids
  /\ closing \in {"no", "grace", "closed"}

Init ==
  /\ transports = {} /\ activity = {}
  /\ requests = [i \in Ids |-> 0] /\ counted = [i \in Ids |-> 0]
  /\ receiving = [i \in Ids |-> "no"]
  /\ idle = {} /\ clients = {} /\ stray = {} /\ used = {}
  /\ closing = "no"

\* The limit: 503, or 429 at the bridge.
Full == Cardinality(transports) >= MaxSessions

\* Mutant: the session is stored and the reaper is not told of it.
Stored_Unwatched(i) == transports' = transports \cup {i} /\ activity' = activity

\* onsessioninitialized.
Stored(i) ==
  /\ transports' = transports \cup {i}
  /\ activity' = IF Front = "http" THEN activity \cup {i} ELSE activity

\* POST without a known session, an initialize request: the shared server creates a
\* RedisClient for it first; the SDK then admits it, and the session is stored.
Initialize(i) ==
  /\ i \notin used /\ ~Full /\ closing # "closed"
  /\ used' = used \cup {i}
  /\ clients' = IF Front = "http" THEN clients \cup {i} ELSE clients
  /\ Stored(i)
  /\ UNCHANGED <<requests, counted, idle, receiving, stray, closing>>

\* Or rejects it, for its headers: onsessioninitialized is not called.
InitializeRejected(i) ==
  /\ i \notin used /\ ~Full /\ closing # "closed"
  /\ used' = used \cup {i}
  /\ clients' = IF Front = "http" THEN clients \cup {i} ELSE clients
  /\ stray' = IF Front = "http" THEN stray \cup {i} ELSE stray
  /\ UNCHANGED <<transports, activity, requests, counted, idle, receiving, closing>>

\* Mutant: the request refreshes the session and is not counted as open.
Tracked_LastSeenOnly(i) ==
  /\ counted' = counted /\ idle' = idle \ {i}
  /\ activity' = activity \cup {i} /\ stray' = stray \ {i}

\* trackRequest: the session's entry, made anew when it has none; open until the response
\* closes, seen now.
Tracked(i) ==
  IF Front = "http"
  THEN /\ counted' = [counted EXCEPT ![i] = @ + 1] /\ idle' = idle \ {i}
       /\ activity' = activity \cup {i} /\ stray' = stray \ {i}
  ELSE UNCHANGED <<counted, idle, activity, stray>>

\* Its listener for the close of the response.
Untracked(i) ==
  IF Front = "http"
  THEN counted' = [counted EXCEPT ![i] = @ - 1] /\ idle' = idle \ {i}
  ELSE UNCHANGED <<counted, idle>>

\* POST or GET on a known session.
Request(i) ==
  /\ i \in transports /\ requests[i] < MaxOpen /\ closing # "closed"
  /\ requests' = [requests EXCEPT ![i] = @ + 1]
  /\ Tracked(i)
  /\ UNCHANGED <<transports, receiving, clients, used, closing>>

\* A receive_message call, its request open: receiveBoundMessage looks at the signals
\* before it begins, and listens to them from then on.
Receive(i) ==
  /\ i \in transports /\ requests[i] > 0 /\ receiving[i] = "no" /\ closing = "no"
  /\ receiving' = [receiving EXCEPT ![i] = "gate"]
  /\ UNCHANGED <<transports, activity, requests, counted, idle, clients, stray, used, closing>>

\* Past the gate of receive_message, on a connection of its own: BLPOP.
Park(i) ==
  /\ receiving[i] = "gate"
  /\ receiving' = [receiving EXCEPT ![i] = "parked"]
  /\ UNCHANGED <<transports, activity, requests, counted, idle, clients, stray, used, closing>>

\* It pops, times out, is refused at the gate, or is cancelled by its request's signal.
ReceiveEnds(i) ==
  /\ receiving[i] # "no"
  /\ receiving' = [receiving EXCEPT ![i] = "no"]
  /\ UNCHANGED <<transports, activity, requests, counted, idle, clients, stray, used, closing>>

\* A response ends, answered or with its connection gone; that cancels no receive.
ResponseCloses(i) ==
  /\ requests[i] > 0
  /\ requests' = [requests EXCEPT ![i] = @ - 1]
  /\ Untracked(i)
  /\ UNCHANGED <<transports, activity, receiving, clients, stray, used, closing>>

\* transport.close and onclose: the session leaves the map and its client is shut down,
\* which breaks its receives.
Closed(S) ==
  /\ transports' = transports \ S
  /\ clients' = clients \ S
  /\ receiving' = [i \in Ids |-> IF i \in S THEN "no" ELSE receiving[i]]

\* DELETE on a known session.
Delete(i) ==
  /\ i \in transports /\ closing # "closed"
  /\ Closed({i})
  /\ activity' = activity \ {i} /\ stray' = stray \ {i}
  /\ UNCHANGED <<requests, counted, idle, used, closing>>

\* The idle time passes.
Age(i) ==
  /\ Front = "http" /\ i \in transports \ idle
  /\ idle' = idle \cup {i}
  /\ UNCHANGED <<transports, activity, requests, counted, receiving, clients, stray, used, closing>>

\* The reaper's tick.  It forgets the session before it closes it, and a close that fails
\* is ignored.
Reap ==
  LET gone == {i \in activity \cap transports : counted[i] = 0 /\ i \in idle}
  IN  /\ Front = "http" /\ gone # {}
      /\ \E failed \in SUBSET gone :
           /\ Closed(gone \ failed)
           /\ activity' = activity \ gone
           /\ stray' = stray \cup failed
      /\ UNCHANGED <<requests, counted, idle, used, closing>>

\* bridge.close: the shutdown signal cancels every receive, the transports known now are
\* closed and the server stops listening; sockets kept alive may still talk.
Close ==
  /\ Front = "bridge" /\ closing = "no"
  /\ closing' = "grace"
  /\ transports' = {}
  /\ receiving' = [i \in Ids |-> "no"]
  /\ UNCHANGED <<activity, requests, counted, idle, clients, stray, used>>

\* The grace is over or everything closed: the sockets are destroyed, the map cleared.
CloseEnds ==
  /\ closing = "grace"
  /\ closing' = "closed"
  /\ transports' = {}
  /\ requests' = [i \in Ids |-> 0]
  /\ UNCHANGED <<activity, counted, idle, receiving, clients, stray, used>>

Next ==
  \/ \E i \in Ids : \/ Initialize(i) \/ InitializeRejected(i) \/ Request(i) \/ Receive(i)
                    \/ Park(i) \/ ReceiveEnds(i) \/ ResponseCloses(i) \/ Delete(i) \/ Age(i)
  \/ Reap \/ Close \/ CloseEnds

Spec == Init /\ [][Next]_vars

\* Time passes and the reaper's interval fires.
FairSpec == Spec /\ WF_vars(Reap) /\ \A i \in Ids : WF_vars(Age(i))

-----------------------------------------------------------------------------
(***************************************************************************)
(* Properties.                                                             *)
(***************************************************************************)

\* The reaper can reach every Redis client of the shared server, with its connections,
\* timers and lease: each is the client of a session in the map that the reaper walks, and
\* no session is without one, through requests, deletions, ticks and failed closes.  Out
\* of its reach are the clients of rejected initializes and, until their next request, of
\* sessions whose idle close failed.
ReaperReachesClients ==
  Front = "http" =>
    /\ clients \subseteq (transports \cap activity) \cup stray
    /\ transports \subseteq clients

\* The reaper closes no session with a request open: a client parked in a long receive or
\* an event stream is not cut off, though it has sent nothing for the whole idle time.
SparesOpen ==
  \A i \in transports \ transports' : requests[i] > 0 => Delete(i) \/ Close \/ CloseEnds
ReapSparesOpen == [][SparesOpen]_vars

\* Once the bridge is closing no receive is parked or on its way to BLPOP, whichever of
\* its awaits it was in and though its sockets may still call: nothing pops a message the
\* wrapper can no longer deliver.
ReceivesEndWithBridge == closing # "no" => \A i \in Ids : receiving[i] = "no"

\* A session whose client has vanished is closed, unless its close fails.
IdleIsClosed ==
  \A i \in Ids : (i \in transports /\ requests[i] = 0)
                   ~> (i \notin transports \/ requests[i] > 0 \/ i \in stray)

\* The session limit bounds the Redis clients of the shared server.  (Refuted: an
\* initialize the SDK rejects leaves its client connected and in no map.)
ClientsBounded == Cardinality(clients) <= MaxSessions
=============================================================================
