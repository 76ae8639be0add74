------------------------------ MODULE Mailbox -------------------------------
(***************************************************************************)
(* Mail between names: bounded and idempotent sends with their retries,    *)
(* the destructive receive of plain agents, and what a rename and an       *)
(* unregistration do to a name's inbox, dead letters and claims            *)
(* (src/core/mailbox-store.ts, src/mcp-server/redis-client.ts,             *)
(* src/mcp-server/tools/send-message.ts and receive-message.ts).           *)
(*                                                                         *)
(* A script is one step.  A send and its resolution, a receive and its     *)
(* gate, and the steps of a rename interleave.  The shared connection may  *)
(* break after the server ran a script or a transaction; the driver then   *)
(* resends it, or the caller gets an error and may call again.             *)
(***************************************************************************)
EXTENDS Integers, Sequences, FiniteSets, SequencesExt

CONSTANTS
  Names,       \* agent names
  Requests,    \* what callers want sent; a caller may repeat its call
  Keyed,       \* the requests made with an idempotency_key
  Foreign,     \* payloads that do not parse, put in an inbox by another program
  Receivers,   \* clients that receive
  QueueBound,  \* GPTQ_QUEUE_BOUND
  DlqMax,      \* DLQ_MAX_LENGTH
  MaxCalls,    \* bound: calls per request
  MaxTries,    \* pushes per call before "full"
  MaxResends,  \* bound: resends per call
  Scenarios,   \* how many names there are, and what happens besides sends and receives
  None

Calls == 1..MaxCalls
Message == (Requests \X Calls) \cup Foreign

ASSUME MailboxAssumption ==
  /\ {QueueBound, DlqMax, MaxCalls, MaxTries} \subseteq Nat \ {0}
  /\ MaxResends \in Nat
  /\ Keyed \subseteq Requests
  /\ IsFiniteSet(Names) /\ IsFiniteSet(Receivers)
  /\ None \notin Names \cup Message \cup {"sent", "duplicate", "full", "rejected", "lost"}
  /\ Foreign \cap (Requests \X Calls) = {}
  /\ Scenarios \subseteq
       [names: Nat, events: SUBSET {"repeat", "rename", "unregister", "claims", "durable",
                                    "lost", "break", "expire", "close", "foreign"}]

VARIABLES
  scenario,    \* the one of Scenarios this behaviour is about; never changes
  queue,       \* gptq:q:<name>
  dlq,         \* the dead letters of each name, newest first
  claims,      \* the claimed tasks of each name
  expired,     \* the claims past their deadline, in the order of the deadlines
  registered,  \* names with a registry entry
  durable,     \* names with an actor-directory record
  dedupe,      \* the message recorded under each request's idempotency key
  send,        \* the calls of send_message, one per request
  recv,        \* the receives
  closed,      \* receivers whose client is shutting down
  rename,      \* the rename in progress
  pushed,      \* history: how often each message was put in an inbox, or parked and resent
  gone,        \* history: how often each message left other than by being delivered
  delivered,   \* history: messages handed to a receiver or acknowledged, in order
  window       \* history: pushes of a request since its key last expired

mail == <<queue, dlq, claims, expired>>
names == <<registered, durable>>
history == <<scenario, pushed, gone, delivered, window>>
vars == <<mail, names, dedupe, send, recv, closed, rename, history>>

SendState == [pc: {"idle", "push", "ended"}, to: Names \cup {None}, call: 0..MaxCalls,
              tries: 0..(MaxTries - 1), resends: 0..MaxResends,
              answer: {None, "sent", "duplicate", "full", "rejected", "lost"},
              id: Message \cup {None}]

RecvState == [pc: {"idle", "connect", "blocked", "leaving", "popped", "parse", "meta"},
              name: Names \cup {None}, msg: Message \cup {None}]

RenameState == [pc: {"idle", "recover", "migrate", "retire"}, from: Names \cup {None},
                to: Names \cup {None}, fresh: BOOLEAN, held: SUBSET Message]

TypeOK ==
  /\ scenario \in Scenarios
  /\ queue \in [Names -> Seq(Message)]
  /\ dlq \in [Names -> Seq(Message)]
  /\ claims \in [Names -> Seq(Message)]
  /\ expired \in [Names -> Seq(Message)]
  /\ registered \subseteq Names
  /\ durable \subseteq Names
  /\ dedupe \in [Requests -> Message \cup {None}]
  /\ send \in [Requests -> SendState]
  /\ recv \in [Receivers -> RecvState]
  /\ closed \subseteq Receivers
  /\ rename \in RenameState
  /\ pushed \in [Message -> Nat]
  /\ gone \in [Message -> Nat]
  /\ delivered \in Seq(Message)
  /\ window \in [Requests -> Nat]

Unsent == [pc |-> "idle", to |-> None, call |-> 0, tries |-> 0, resends |-> 0,
           answer |-> None, id |-> None]
Resting == [pc |-> "idle", name |-> None, msg |-> None]
NoRename == [pc |-> "idle", from |-> None, to |-> None, fresh |-> FALSE, held |-> {}]

Init ==
  /\ scenario \in Scenarios
  /\ queue = [n \in Names |-> <<>>]
  /\ dlq = [n \in Names |-> <<>>]
  /\ claims = [n \in Names |-> <<>>]
  /\ expired = [n \in Names |-> <<>>]
  /\ registered = {}
  /\ durable = {}
  /\ dedupe = [r \in Requests |-> None]
  /\ send = [r \in Requests |-> Unsent]
  /\ recv = [c \in Receivers |-> Resting]
  /\ closed = {}
  /\ rename = NoRename
  /\ pushed = [m \in Message |-> 0]
  /\ gone = [m \in Message |-> 0]
  /\ delivered = <<>>
  /\ window = [r \in Requests |-> 0]

Positions(s, m) == {i \in DOMAIN s : s[i] = m}
Count(s, m) == Cardinality(Positions(s, m))
\* gone, once the messages of s are lost.
Losing(s) == [m \in Message |-> gone[m] + Count(s, m)]

\* What a name holds.
Under(n) == ToSet(queue[n]) \cup ToSet(dlq[n]) \cup ToSet(claims[n]) \cup ToSet(expired[n])
\* A dead-letter queue keeps its newest DlqMax entries.
Trimmed(s) == SubSeq(s, 1, IF Len(s) < DlqMax THEN Len(s) ELSE DlqMax)
TrimLoses(s) == Losing(SubSeq(s, DlqMax + 1, Len(s)))

-----------------------------------------------------------------------------
(***************************************************************************)
(* send_message.                                                           *)
(***************************************************************************)

Known(n) == n \in durable \cup registered

\* sendMessage up to the push: a durable actor or a registered agent, or
\* unknown_recipient.  A caller repeats a call that failed or was not answered, to the
\* same recipient.
Call(r, n) ==
  LET s == send[r]
      again == [Unsent EXCEPT !.to = n, !.call = s.call + 1]
  IN  /\ s.call < IF "repeat" \in scenario.events THEN MaxCalls ELSE 1
      /\ \/ s.pc = "idle"
         \/ s.pc = "ended" /\ s.answer \in {"full", "rejected", "lost"}
      /\ s.to \in {None, n}
      /\ send' = [send EXCEPT ![r] =
           IF Known(n) THEN [again EXCEPT !.pc = "push"]
           ELSE [again EXCEPT !.pc = "ended", !.answer = "rejected"]]
      /\ UNCHANGED <<mail, names, dedupe, recv, closed, rename, history>>

\* What one run of bounded-push.lua, or bounded-push-idempotent.lua, does and answers.
BoundedPush(r) ==
  LET s == send[r]
      m == <<r, s.call>>
  IN  IF r \in Keyed /\ dedupe[r] # None
      THEN [answer |-> "duplicate", id |-> dedupe[r], pushes |-> FALSE]
      ELSE IF Len(queue[s.to]) >= QueueBound
      THEN [answer |-> "full", id |-> m, pushes |-> FALSE]
      ELSE [answer |-> "sent", id |-> m, pushes |-> TRUE]

\* Mutant: the key is not recorded with the push.
RunPush_NoKey(r) ==
  LET s == send[r]
  IN  IF BoundedPush(r).pushes
      THEN /\ queue' = [queue EXCEPT ![s.to] = Append(@, <<r, s.call>>)]
           /\ pushed' = [pushed EXCEPT ![<<r, s.call>>] = @ + 1]
           /\ window' = [window EXCEPT ![r] = @ + 1]
           /\ UNCHANGED dedupe
      ELSE UNCHANGED <<queue, dedupe, pushed, window>>

\* Its effect on the store: inbox and key together.
RunPush(r) ==
  LET s == send[r]
  IN  IF BoundedPush(r).pushes
      THEN /\ queue' = [queue EXCEPT ![s.to] = Append(@, <<r, s.call>>)]
           /\ dedupe' = IF r \in Keyed THEN [dedupe EXCEPT ![r] = <<r, s.call>>] ELSE dedupe
           /\ pushed' = [pushed EXCEPT ![<<r, s.call>>] = @ + 1]
           /\ window' = [window EXCEPT ![r] = @ + 1]
      ELSE UNCHANGED <<queue, dedupe, pushed, window>>

\* Mutants: a full inbox is tried again without end; the caller's own id is answered.
Answered_Endless(s, out) ==
  IF out.answer = "full" THEN s
  ELSE [s EXCEPT !.pc = "ended", !.answer = out.answer, !.id = out.id]
Answered_OwnId(s, out) ==
  IF out.answer = "full" /\ s.tries + 1 < MaxTries
  THEN [s EXCEPT !.tries = @ + 1]
  ELSE [s EXCEPT !.pc = "ended", !.answer = out.answer,
                 !.id = IF out.answer = "duplicate" THEN <<out.id[1], s.call>> ELSE out.id]

\* The answer reaches the call: a full inbox is tried again after a delay.
Answered(s, out) ==
  IF out.answer = "full" /\ s.tries + 1 < MaxTries
  THEN [s EXCEPT !.tries = @ + 1]
  ELSE [s EXCEPT !.pc = "ended", !.answer = out.answer, !.id = out.id]

Push(r) ==
  /\ send[r].pc = "push"
  /\ RunPush(r)
  /\ send' = [send EXCEPT ![r] = Answered(@, BoundedPush(r))]
  /\ UNCHANGED <<dlq, claims, expired, names, recv, closed, rename, scenario, gone, delivered>>

\* The connection breaks after the script ran: the driver resends it, or gives up and
\* the call fails.
PushUnanswered(r) ==
  /\ "lost" \in scenario.events
  /\ send[r].pc = "push"
  /\ RunPush(r)
  /\ \/ /\ send[r].resends < MaxResends
        /\ send' = [send EXCEPT ![r].resends = @ + 1]
     \/ send' = [send EXCEPT ![r].pc = "ended", ![r].answer = "lost"]
  /\ UNCHANGED <<dlq, claims, expired, names, recv, closed, rename, scenario, gone, delivered>>

\* A day later the key is forgotten; a call lasts less than a minute.
KeyExpires(r) ==
  /\ "expire" \in scenario.events
  /\ dedupe[r] # None /\ send[r].pc # "push"
  /\ dedupe' = [dedupe EXCEPT ![r] = None]
  /\ window' = [window EXCEPT ![r] = 0]
  /\ UNCHANGED <<mail, names, send, recv, closed, rename, scenario, pushed, gone, delivered>>

\* Another program writes to an inbox (external).
ForeignPush(g, n) ==
  /\ "foreign" \in scenario.events
  /\ pushed[g] = 0
  /\ queue' = [queue EXCEPT ![n] = Append(@, g)]
  /\ pushed' = [pushed EXCEPT ![g] = 1]
  /\ UNCHANGED <<dlq, claims, expired, names, dedupe, send, recv, closed, rename, scenario, gone, delivered, window>>

-----------------------------------------------------------------------------
(***************************************************************************)
(* receive_message.                                                        *)
(***************************************************************************)

Receives(c, r) == recv' = [recv EXCEPT ![c] = r]

\* The gate: a name with a directory record must claim.
Receive(c, n) ==
  /\ recv[c].pc = "idle"
  /\ c \notin closed
  /\ n \in registered \ durable
  /\ Receives(c, [pc |-> "connect", name |-> n, msg |-> None])
  /\ UNCHANGED <<mail, names, dedupe, send, closed, rename, history>>

\* Mutant: shutdown is not looked for again once connected.
Connect_Unchecked(c) ==
  /\ recv[c].pc = "connect"
  /\ Receives(c, [recv[c] EXCEPT !.pc = "blocked"])
  /\ UNCHANGED <<mail, names, dedupe, send, closed, rename, history>>

\* cancellablePop, its connection made; a shutdown meanwhile refuses the pop.
Connect(c) ==
  /\ recv[c].pc = "connect"
  /\ Receives(c, IF c \in closed THEN Resting ELSE [recv[c] EXCEPT !.pc = "blocked"])
  /\ UNCHANGED <<mail, names, dedupe, send, closed, rename, history>>

\* The server serves BLPOP, also for a connection it does not yet know is gone.
Pop(c) ==
  LET n == recv[c].name
  IN  /\ recv[c].pc \in {"blocked", "leaving"}
      /\ queue[n] # <<>>
      /\ queue' = [queue EXCEPT ![n] = Tail(@)]
      /\ IF recv[c].pc = "blocked"
         THEN /\ Receives(c, [recv[c] EXCEPT !.pc = "popped", !.msg = Head(queue[n])])
              /\ UNCHANGED gone
         ELSE /\ Receives(c, Resting)
              /\ gone' = Losing(<<Head(queue[n])>>)
      /\ UNCHANGED <<dlq, claims, expired, names, dedupe, send, closed, rename, scenario, pushed, delivered, window>>

\* BLPOP times out, or the server learns that the connection is gone.
PopEnds(c) ==
  /\ recv[c].pc \in {"blocked", "leaving"}
  /\ Receives(c, Resting)
  /\ UNCHANGED <<mail, names, dedupe, send, closed, rename, history>>

\* The answer of BLPOP arrives.
Arrive(c) ==
  /\ recv[c].pc = "popped"
  /\ Receives(c, [recv[c] EXCEPT !.pc = IF recv[c].msg \in Foreign THEN "parse" ELSE "meta"])
  /\ UNCHANGED <<mail, names, dedupe, send, closed, rename, history>>

\* Mutant: what does not parse is dropped with the error.
Park_Throws(c) ==
  /\ recv[c].pc = "parse"
  /\ Receives(c, Resting)
  /\ UNCHANGED <<mail, names, dedupe, send, closed, rename, history>>

\* What does not parse is parked in the dead letters, trimmed to their bound.
Park(c) ==
  LET all == <<recv[c].msg>> \o dlq[recv[c].name]
  IN  /\ recv[c].pc = "parse"
      /\ dlq' = [dlq EXCEPT ![recv[c].name] = Trimmed(all)]
      /\ gone' = TrimLoses(all)
      /\ Receives(c, Resting)
      /\ UNCHANGED <<queue, claims, expired, names, dedupe, send, closed, rename, scenario, pushed, delivered, window>>

\* The parking ran and its answer was lost: the driver will resend it, and the dead
\* letters have the payload once more.
ParkUnanswered(c) ==
  LET all == <<recv[c].msg>> \o dlq[recv[c].name]
  IN  /\ "lost" \in scenario.events
      /\ recv[c].pc = "parse" /\ pushed[recv[c].msg] <= MaxResends
      /\ dlq' = [dlq EXCEPT ![recv[c].name] = Trimmed(all)]
      /\ gone' = TrimLoses(all)
      /\ pushed' = [pushed EXCEPT ![recv[c].msg] = @ + 1]
      /\ UNCHANGED <<queue, claims, expired, names, dedupe, send, recv, closed, rename, scenario, delivered, window>>

\* The depth is recorded and the message returned.
Deliver(c) ==
  /\ recv[c].pc = "meta"
  /\ delivered' = Append(delivered, recv[c].msg)
  /\ Receives(c, Resting)
  /\ UNCHANGED <<mail, names, dedupe, send, closed, rename, scenario, pushed, gone, window>>

\* The store fails while the popped message is handled: it is gone.
ReceiveFails(c) ==
  /\ "break" \in scenario.events
  /\ recv[c].pc \in {"popped", "parse", "meta"}
  /\ gone' = Losing(<<recv[c].msg>>)
  /\ Receives(c, Resting)
  /\ UNCHANGED <<mail, names, dedupe, send, closed, rename, scenario, pushed, delivered, window>>

\* The connection of a receive is broken by its signal or by closeReceives.
Broken(c) ==
  CASE recv[c].pc = "blocked" -> [recv[c] EXCEPT !.pc = "leaving"]
    [] recv[c].pc = "popped" -> Resting
    [] OTHER -> recv[c]
BrokenLoses(c) == IF recv[c].pc = "popped" THEN Losing(<<recv[c].msg>>) ELSE gone

Cancel(c) ==
  /\ recv[c].pc \in {"connect", "blocked", "popped"}
  /\ Receives(c, IF recv[c].pc = "connect" THEN Resting ELSE Broken(c))
  /\ gone' = BrokenLoses(c)
  /\ UNCHANGED <<mail, names, dedupe, send, closed, rename, scenario, pushed, delivered, window>>

CloseReceives(c) ==
  /\ "close" \in scenario.events
  /\ c \notin closed
  /\ closed' = closed \cup {c}
  /\ Receives(c, Broken(c))
  /\ gone' = BrokenLoses(c)
  /\ UNCHANGED <<mail, names, dedupe, send, rename, scenario, pushed, delivered, window>>

-----------------------------------------------------------------------------
(***************************************************************************)
(* Names, claims and renames.                                              *)
(***************************************************************************)

\* register_agent (Registry has its steps).
Join(n) ==
  /\ n \notin registered /\ Cardinality(registered) < scenario.names
  /\ registered' = registered \cup {n}
  /\ UNCHANGED <<mail, durable, dedupe, send, recv, closed, rename, history>>

\* actor_register.
BecomeDurable(n) ==
  /\ "durable" \in scenario.events
  /\ n \in registered \ durable
  /\ durable' = durable \cup {n}
  /\ UNCHANGED <<mail, registered, dedupe, send, recv, closed, rename, history>>

\* unregister deletes inbox, dead letters and claims with the registration.
Unregister(n) ==
  /\ "unregister" \in scenario.events
  /\ n \in registered \ {rename.from, rename.to}
  /\ registered' = registered \ {n}
  /\ gone' = Losing(queue[n] \o dlq[n] \o claims[n] \o expired[n])
  /\ queue' = [queue EXCEPT ![n] = <<>>]
  /\ dlq' = [dlq EXCEPT ![n] = <<>>]
  /\ claims' = [claims EXCEPT ![n] = <<>>]
  /\ expired' = [expired EXCEPT ![n] = <<>>]
  /\ UNCHANGED <<durable, dedupe, send, recv, closed, rename, scenario, pushed, delivered, window>>

\* The task claims, as far as a rename sees them (TaskClaims has the rest).
Claim(n) ==
  /\ "claims" \in scenario.events
  /\ n \in registered
  /\ queue[n] # <<>> /\ Head(queue[n]) \notin Foreign
  /\ queue' = [queue EXCEPT ![n] = Tail(@)]
  /\ claims' = [claims EXCEPT ![n] = Append(@, Head(queue[n]))]
  /\ UNCHANGED <<dlq, expired, names, dedupe, send, recv, closed, rename, history>>

\* The answer of a claim was lost and the driver resends its script: the claim id is the
\* same, so what is popped now replaces what the claim held, with a new deadline.
ClaimResent(n) ==
  LET x == Head(queue[n])
  IN  /\ {"claims", "lost"} \subseteq scenario.events
      /\ queue[n] # <<>> /\ x \notin Foreign
      /\ queue' = [queue EXCEPT ![n] = Tail(@)]
      /\ \/ \E i \in DOMAIN claims[n] :
              /\ claims' = [claims EXCEPT ![n] = Append(RemoveAt(@, i), x)]
              /\ gone' = Losing(<<claims[n][i]>>)
              /\ UNCHANGED expired
         \/ \E i \in DOMAIN expired[n] :
              /\ expired' = [expired EXCEPT ![n] = RemoveAt(@, i)]
              /\ claims' = [claims EXCEPT ![n] = Append(@, x)]
              /\ gone' = Losing(<<expired[n][i]>>)
      /\ UNCHANGED <<dlq, names, dedupe, send, recv, closed, rename, scenario, pushed, delivered, window>>

ClaimExpires(n) ==
  /\ \E i \in DOMAIN claims[n] :
       /\ claims' = [claims EXCEPT ![n] = RemoveAt(@, i)]
       /\ expired' = [expired EXCEPT ![n] = Append(@, claims[n][i])]
  /\ UNCHANGED <<queue, dlq, names, dedupe, send, recv, closed, rename, history>>

Acknowledge(n) ==
  /\ \E i \in DOMAIN claims[n] :
       /\ delivered' = Append(delivered, claims[n][i])
       /\ claims' = [claims EXCEPT ![n] = RemoveAt(@, i)]
  /\ UNCHANGED <<queue, dlq, expired, names, dedupe, send, recv, closed, rename, scenario, pushed, gone, window>>

\* recoverExpired puts the expired claims back at the tail of the inbox, or, past their
\* recovery cap, in the dead letters.
Recovered(n, capped) ==
  LET dead == (IF capped THEN expired[n] ELSE <<>>) \o dlq[n]
  IN  /\ expired' = [expired EXCEPT ![n] = <<>>]
      /\ queue' = IF capped THEN queue ELSE [queue EXCEPT ![n] = @ \o expired[n]]
      /\ dlq' = [dlq EXCEPT ![n] = Trimmed(dead)]
      /\ gone' = TrimLoses(dead)

\* A rename begins when the new name has its session and provisional registration.
BeginRename(n, m) ==
  /\ "rename" \in scenario.events
  /\ rename.pc = "idle"
  /\ n \in registered /\ n # m
  /\ rename' = [pc |-> "recover", from |-> n, to |-> m, fresh |-> m \notin registered,
                held |-> Under(n)]
  /\ registered' = registered \cup {m}
  /\ UNCHANGED <<mail, durable, dedupe, send, recv, closed, history>>

RenameRecover ==
  /\ rename.pc = "recover"
  /\ \E capped \in BOOLEAN : Recovered(rename.from, capped)
  /\ rename' = [rename EXCEPT !.pc = "migrate"]
  /\ UNCHANGED <<claims, names, dedupe, send, recv, closed, scenario, pushed, delivered, window>>

\* Mutants: claims are not looked for; the source is kept; the destination's dead
\* letters are replaced.
MigrateMessages_IgnoresClaims(n, m) ==
  LET dead == dlq[n] \o dlq[m]
  IN  /\ queue' = [queue EXCEPT ![m] = @ \o queue[n], ![n] = <<>>]
      /\ dlq' = [dlq EXCEPT ![m] = Trimmed(dead), ![n] = <<>>]
      /\ gone' = TrimLoses(dead)
MigrateMessages_Copies(n, m) ==
  /\ claims[n] = <<>> /\ expired[n] = <<>>
  /\ queue' = [queue EXCEPT ![m] = @ \o queue[n]]
  /\ UNCHANGED <<dlq, gone>>

\* migrate-messages.lua: refused while the source holds any claim; inbox to the tail of
\* the destination's, dead letters to the head of the destination's, trimmed.
MigrateMessages(n, m) ==
  LET dead == dlq[n] \o dlq[m]
  IN  /\ claims[n] = <<>> /\ expired[n] = <<>>
      /\ queue' = [queue EXCEPT ![m] = @ \o queue[n], ![n] = <<>>]
      /\ dlq' = [dlq EXCEPT ![m] = Trimmed(dead), ![n] = <<>>]
      /\ gone' = TrimLoses(dead)

RenameMigrate ==
  /\ rename.pc = "migrate"
  /\ MigrateMessages(rename.from, rename.to)
  /\ rename' = [rename EXCEPT !.pc = "retire"]
  /\ UNCHANGED <<claims, expired, names, dedupe, send, recv, closed, scenario, pushed, delivered, window>>

\* The recovery or the transfer fails or is refused: the new name's registration is
\* undone and the old identity serves on.
RenameRollback ==
  /\ rename.pc \in {"recover", "migrate"}
  /\ registered' = IF rename.fresh THEN registered \ {rename.to} ELSE registered
  /\ rename' = NoRename
  /\ UNCHANGED <<mail, durable, dedupe, send, recv, closed, history>>

RenameRetire ==
  /\ rename.pc = "retire"
  /\ registered' = registered \ {rename.from}
  /\ rename' = NoRename
  /\ UNCHANGED <<mail, durable, dedupe, send, recv, closed, history>>

Next ==
  \/ \E r \in Requests :
       \/ \E n \in Names : Call(r, n)
       \/ Push(r) \/ PushUnanswered(r) \/ KeyExpires(r)
  \/ \E g \in Foreign, n \in Names : ForeignPush(g, n)
  \/ \E c \in Receivers :
       \/ \E n \in Names : Receive(c, n)
       \/ Connect(c) \/ Pop(c) \/ PopEnds(c) \/ Arrive(c) \/ Park(c) \/ ParkUnanswered(c) \/ Deliver(c)
       \/ ReceiveFails(c) \/ Cancel(c) \/ CloseReceives(c)
  \/ \E n \in Names :
       \/ Join(n) \/ BecomeDurable(n) \/ Unregister(n)
       \/ Claim(n) \/ ClaimResent(n) \/ ClaimExpires(n) \/ Acknowledge(n)
       \/ \E m \in Names : BeginRename(n, m)
  \/ RenameRecover \/ RenameMigrate \/ RenameRollback \/ RenameRetire

Spec == Init /\ [][Next]_vars

\* A send in progress goes on: its timer fires and the store answers in the end.
FairSpec == Spec /\ \A r \in Requests : WF_vars(Push(r))

-----------------------------------------------------------------------------
(***************************************************************************)
(* Properties.                                                             *)
(***************************************************************************)

\* How often m is in one of the sequences of f: its positions, under every name.
Places(f, m) == UNION {{n} \X Positions(f[n], m) : n \in Names}
Everywhere(f, m) == Cardinality(Places(f, m))
Held(m) == Cardinality({c \in Receivers : recv[c].msg = m})

\* Every message put in an inbox is in exactly one place as often as it was put there:
\* an inbox, a dead-letter queue, a claim, a receive that popped it; or it was delivered,
\* or it left by an unregistration, a trimmed dead-letter queue, a receive that failed or
\* a claim whose resent script replaced it.  No rename, recovery or pop loses or doubles
\* one; a parking does only when its answer is lost and it is resent, and then each resend
\* counts as one more copy put in.
Conservation ==
  \A m \in Message :
    pushed[m] = Everywhere(queue, m) + Everywhere(dlq, m)
                + Everywhere(claims, m) + Everywhere(expired, m)
                + Held(m) + Count(delivered, m) + gone[m]

\* While its key is remembered a request with an idempotency key is queued at most once,
\* whatever answers were lost, resent or repeated, to however full an inbox.
KeyedOnce == \A r \in Keyed : window[r] <= 1

\* The id answered is the id of a message that was really queued for the request, and a
\* keyed call that answers "full" has queued nothing.
AnswerIsTrue ==
  \A r \in Requests :
    LET s == send[r]
    IN  /\ s.answer \in {"sent", "duplicate"} => s.id[1] = r /\ pushed[s.id] > 0
        /\ r \in Keyed /\ s.answer = "full" => pushed[s.id] = 0

\* A send whose answer was lost can be repeated: its message is not queued twice, and
\* the answer tells what became of it.
RetriesAreSafe == KeyedOnce /\ AnswerIsTrue

\* A rename takes the mail along: nothing that the old name held when the rename began,
\* in its inbox, its dead letters or a claim, is under the old name when that is retired,
\* with the owner claiming, and claims expiring, in between; but a receive that popped a
\* payload that does not parse may still park it there, and a send whose answer was lost
\* may have pushed its message there again.
RenameMovesTheMail ==
  [][rename.pc = "retire" /\ rename'.pc = "idle" =>
       \A m \in rename.held \cap Under(rename.from) : m \in Foreign \/ pushed[m] > 1]_vars

\* No receive is parked in BLPOP once its client has shut down: it would consume a
\* message nobody can be given (closeReceives).
ClosedNeverParked == \A c \in closed : recv[c].pc # "blocked"

\* A send to an inbox that stays full ends too, with "full".
SendEnds == \A r \in Requests : send[r].pc = "push" ~> send[r].pc = "ended"

\* Mail goes to registered agents and durable actors only; for any other name no queue
\* key is created.  (Refuted: the recipient may unregister between the resolution and
\* the push.)
MailOnlyToKnown ==
  [][\A n \in Names : Len(queue'[n]) > Len(queue[n]) => Known(n)]_vars

\* When a rename retires the old name its mail is safe under the new one.  (Refuted: mail
\* sent between the transfer and the retirement stays under a name nobody reads.)
RenameLeavesNoMail ==
  [][rename.pc = "retire" /\ rename'.pc = "idle" => queue[rename.from] = <<>>]_vars

\* The mail of a durable actor is only claimed, never popped.  (Refuted: the gate is
\* passed before BLPOP blocks, for up to a minute or, with timeout 0, without end.)
DurableNeverPopped ==
  [][\A c \in Receivers : recv[c].pc = "blocked" /\ recv'[c].pc = "popped" =>
       recv[c].name \notin durable]_vars
=============================================================================
