-------------------------------- MODULE Pty ---------------------------------
(***************************************************************************)
(* gptqueue-pty: src/pty-wrapper/index.ts, redis-watcher.ts and            *)
(* idle-detector.ts.  The wrapper runs a CLI in a terminal, watches the    *)
(* agent's inbox in Redis and types a notice into the CLI when there is    *)
(* mail and the CLI has been quiet for two seconds.                        *)
(*                                                                         *)
(* The terminal's output, the quiescence timer, keyspace notifications,    *)
(* the answers to LLEN, signals and the child's exit come in any order.    *)
(***************************************************************************)
EXTENDS Integers

CONSTANTS
    Managed,    \* the server refuses CONFIG, so keyspace events cannot be had
    MaxInbox,   \* bound: messages in the inbox, and notifications in flight
    MaxFaults   \* bound: dropped connections and failed LLENs

VARIABLES
    inbox,      \* length of the agent's list in Redis
    events,     \* push notifications on their way to the subscriber
    link,       \* the wrapper's connections to Redis: "up" or "down"
    faults,     \* faults still to come
    watch,      \* where RedisWatcher.start or its polling loop is
    asking,     \* notification handlers waiting for LLEN
    running,    \* RedisWatcher.running
    busy,       \* the child has written within the quiescence time
    armed,      \* IdleDetector.timer is set
    idle,       \* IdleDetector._idle
    pending,    \* pendingInjection
    listeners,  \* inject callbacks waiting for the next idle event
    noticed,    \* a notice was written after the latest arrival
    phase,      \* the wrapper: "running", "stopping" or "exited"
    child       \* the wrapped CLI: "running", "killed" or "gone"

mail == <<inbox, events, link, faults>>
watcher == <<watch, asking, running>>
detector == <<busy, armed, idle>>
notices == <<pending, listeners, noticed>>
process == <<phase, child>>
vars == <<mail, watcher, detector, notices, process>>

\* The wrapper's callbacks run until process.exit.
Alive == phase # "exited"

Init ==
    /\ inbox \in 0..MaxInbox /\ events = 0 /\ link = "up" /\ faults = MaxFaults
    /\ watch = "config" /\ asking = 0 /\ running = TRUE
    /\ busy = FALSE /\ armed = FALSE /\ idle = FALSE
    /\ pending = FALSE /\ listeners = 0 /\ noticed = FALSE
    /\ phase = "running" /\ child = "running"

-----------------------------------------------------------------------------
(* Redis and the other agents *)

\* Notifications reach a subscriber that is subscribed and connected; there is
\* no redelivery.
Subscribed == link = "up" /\ watch \in {"checking", "watching"}

Push ==
    /\ inbox < MaxInbox
    /\ inbox' = inbox + 1
    /\ events' = events + (IF Subscribed /\ running THEN 1 ELSE 0)
    /\ events' + asking <= MaxInbox
    /\ noticed' = FALSE
    /\ UNCHANGED <<link, faults, watcher, detector, pending, listeners, process>>

\* The CLI, or another consumer of the inbox, takes a message.
Take ==
    /\ inbox > 0
    /\ inbox' = inbox - 1
    /\ UNCHANGED <<events, link, faults, watcher, detector, notices, process>>

\* ioredis reconnects, resubscribes and resends its commands.
Drop ==
    /\ faults > 0 /\ link = "up"
    /\ link' = "down" /\ faults' = faults - 1 /\ events' = 0
    /\ UNCHANGED <<inbox, watcher, detector, notices, process>>

Reconnect ==
    /\ link = "down"
    /\ link' = "up"
    /\ UNCHANGED <<inbox, events, faults, watcher, detector, notices, process>>

-----------------------------------------------------------------------------
(* The notice *)

\* Mutant: every event registers a notice of its own.
Message_NoGuard ==
    IF idle
    THEN noticed' = TRUE /\ UNCHANGED <<pending, listeners>>
    ELSE pending' = TRUE /\ listeners' = listeners + 1 /\ UNCHANGED noticed

\* watcher.on("message"): one notice at a time, written now when the CLI is
\* idle and at the next idle event otherwise.
Message ==
    IF pending
    THEN UNCHANGED notices
    ELSE IF idle
    THEN noticed' = TRUE /\ UNCHANGED <<pending, listeners>>
    ELSE pending' = TRUE /\ listeners' = listeners + 1 /\ UNCHANGED noticed

\* What an answer to LLEN leads to.
Length == IF inbox > 0 THEN Message ELSE UNCHANGED notices

\* Mutant: the detector stays idle while the child writes.
Output_StaysIdle ==
    /\ Alive /\ child # "gone"
    /\ busy' = TRUE /\ armed' = TRUE
    /\ UNCHANGED <<mail, watcher, idle, notices, process>>

\* ptyProcess.onData: IdleDetector.onOutput restarts the timer.
Output ==
    /\ Alive /\ child # "gone"
    /\ busy' = TRUE /\ armed' = TRUE /\ idle' = FALSE
    /\ UNCHANGED <<mail, watcher, notices, process>>

\* Mutant: the notice is written and the flag stays set.
Quiet_KeepsPending ==
    /\ Alive /\ busy
    /\ busy' = FALSE
    /\ armed' = FALSE /\ idle' = (armed \/ idle)
    /\ listeners' = 0 /\ UNCHANGED pending
    /\ noticed' = (noticed \/ listeners > 0)
    /\ UNCHANGED <<mail, watcher, process>>

\* Two seconds without output: the timer, unless destroy cleared it, fires, and
\* the waiting notice is written.
Quiet ==
    /\ Alive /\ busy
    /\ busy' = FALSE
    /\ IF armed
       THEN /\ armed' = FALSE /\ idle' = TRUE
            /\ listeners' = 0 /\ pending' = (pending /\ listeners = 0)
            /\ noticed' = (noticed \/ listeners > 0)
       ELSE UNCHANGED <<armed, idle, notices>>
    /\ UNCHANGED <<mail, watcher, process>>

-----------------------------------------------------------------------------
(* RedisWatcher *)

\* start: CONFIG GET and SET, then SUBSCRIBE; a refusal falls back to polling.
Configured ==
    /\ Alive /\ link = "up" /\ watch = "config"
    /\ watch' = IF Managed THEN "looking" ELSE "subscribing"
    /\ UNCHANGED <<mail, asking, running, detector, notices, process>>

SubscribeAnswered ==
    /\ Alive /\ link = "up" /\ watch = "subscribing"
    /\ watch' = "checking"
    /\ UNCHANGED <<mail, asking, running, detector, notices, process>>

\* The check for mail that was there before the subscription.
StartupCheck ==
    /\ Alive /\ link = "up" /\ watch = "checking"
    /\ watch' = "watching"
    /\ Length
    /\ UNCHANGED <<mail, asking, running, detector, process>>

\* The subscriber's handler, up to its await of LLEN.
Notified ==
    /\ Alive /\ events > 0
    /\ events' = events - 1
    /\ asking' = asking + (IF running THEN 1 ELSE 0)
    /\ UNCHANGED <<inbox, link, faults, watch, running, detector, notices, process>>

\* ... and after it; running is not looked at again.
NotifiedLength ==
    /\ Alive /\ link = "up" /\ asking > 0
    /\ asking' = asking - 1
    /\ Length
    /\ UNCHANGED <<mail, watch, running, detector, process>>

\* startPolling: one turn of the loop, and its sleep.
Poll ==
    /\ Alive /\ link = "up" /\ watch = "looking"
    /\ IF running THEN watch' = "sleeping" /\ Length
                  ELSE watch' = "ended" /\ UNCHANGED notices
    /\ UNCHANGED <<mail, asking, running, detector, process>>

\* Mutant: an error ends the loop.
PollFails_Ends ==
    /\ Alive /\ faults > 0 /\ watch = "looking" /\ running
    /\ watch' = "ended" /\ faults' = faults - 1
    /\ UNCHANGED <<inbox, events, link, asking, running, detector, notices, process>>

PollFails ==
    /\ Alive /\ faults > 0 /\ watch = "looking" /\ running
    /\ watch' = "sleeping" /\ faults' = faults - 1
    /\ UNCHANGED <<inbox, events, link, asking, running, detector, notices, process>>

Wakes ==
    /\ Alive /\ watch = "sleeping"
    /\ watch' = "looking"
    /\ UNCHANGED <<mail, asking, running, detector, notices, process>>

\* LLEN fails in a notification handler: the event is ignored.
NotifiedFails ==
    /\ Alive /\ faults > 0 /\ asking > 0
    /\ asking' = asking - 1 /\ faults' = faults - 1
    /\ UNCHANGED <<inbox, events, link, watch, running, detector, notices, process>>

-----------------------------------------------------------------------------
(* Exit *)

ChildExits ==
    /\ child # "gone"
    /\ child' = "gone"
    /\ UNCHANGED <<mail, watcher, detector, notices, phase>>

\* ptyProcess.onExit: destroy the detector and stop the watcher.
OnExit ==
    /\ phase = "running" /\ child = "gone"
    /\ phase' = "stopping"
    /\ running' = FALSE /\ armed' = FALSE
    /\ UNCHANGED <<mail, watch, asking, busy, idle, notices, child>>

\* SIGINT or SIGTERM: the child is killed before anything is awaited.
Shutdown ==
    /\ phase = "running"
    /\ phase' = "stopping"
    /\ child' = IF child = "running" THEN "killed" ELSE child
    /\ running' = FALSE /\ armed' = FALSE
    /\ UNCHANGED <<mail, watch, asking, busy, idle, notices>>

\* Mutant: the exit waits for Redis.
StopWatcher_NoTimeout ==
    /\ phase = "stopping" /\ link = "up"
    /\ phase' = "exited"
    /\ UNCHANGED <<mail, watcher, detector, notices, child>>

\* stopWatcher: QUIT is answered, fails, or two seconds pass.
StopWatcher ==
    /\ phase = "stopping"
    /\ phase' = "exited"
    /\ UNCHANGED <<mail, watcher, detector, notices, child>>

Next ==
    \/ Push \/ Take \/ Drop \/ Reconnect
    \/ Output \/ Quiet
    \/ Configured \/ SubscribeAnswered \/ StartupCheck \/ Notified \/ NotifiedLength
    \/ Poll \/ PollFails \/ Wakes \/ NotifiedFails
    \/ ChildExits \/ OnExit \/ Shutdown \/ StopWatcher

Spec == Init /\ [][Next]_vars

\* Redis answers and timers fire; the CLI draws its screen once and is now and
\* then quiet for two seconds.  It need not consume anything, nothing has to be
\* pushed, and a lost connection need not come back (see Reconnects).
FairSpec ==
    /\ Spec
    /\ WF_vars(Output /\ ~armed /\ ~idle) /\ WF_vars(Quiet)
    /\ WF_vars(Configured) /\ WF_vars(SubscribeAnswered) /\ WF_vars(StartupCheck)
    /\ WF_vars(Notified) /\ WF_vars(NotifiedLength)
    /\ WF_vars(Poll) /\ WF_vars(Wakes)
    /\ WF_vars(OnExit) /\ WF_vars(StopWatcher)

\* As above, and ioredis reconnects.
ReconnectingSpec == FairSpec /\ WF_vars(Reconnect)

-----------------------------------------------------------------------------
(* Properties *)

\* The wrapper's flags, counters and phases are well formed.
TypeOK ==
    /\ inbox \in 0..MaxInbox /\ events \in 0..MaxInbox
    /\ link \in {"up", "down"} /\ faults \in 0..MaxFaults
    /\ watch \in {"config", "subscribing", "checking", "watching",
                  "looking", "sleeping", "ended"}
    /\ asking \in 0..MaxInbox /\ listeners \in Nat
    /\ {running, busy, armed, idle, pending, noticed} \subseteq BOOLEAN
    /\ phase \in {"running", "stopping", "exited"}
    /\ child \in {"running", "killed", "gone"}

\* However many notifications arrive while the CLI is writing, one notice waits
\* for it, and exactly while the flag says so: a burst of messages is one
\* prompt, and the flag never blocks the notices to come.
OneNoticeWaits == listeners = (IF pending THEN 1 ELSE 0)

\* A notice is typed into the terminal only when the CLI has been quiet for two
\* seconds, whichever of the two paths writes it.
TypedQuietly == noticed' /\ ~noticed => ~busy'
TypedWhenQuiet == [][TypedQuietly]_vars

\* Mail is noticed: after every arrival a notice is written, unless the inbox is
\* emptied first or the wrapper stops.  (Refuted when the watcher relies
\* on notifications and a connection drops or an LLEN fails: nothing looks at
\* the inbox again until the next push.)
MailIsNoticed == inbox > 0 /\ ~noticed ~> noticed \/ inbox = 0 \/ phase # "running"

\* A signal or the child's exit ends the wrapper, and it leaves no child it has
\* not killed, even when Redis does not answer.
ExitEnds ==
    /\ phase = "stopping" ~> phase = "exited"
    /\ [](phase # "running" => child # "running")

=============================================================================
