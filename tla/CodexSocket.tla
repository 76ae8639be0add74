----------------------------- MODULE CodexSocket ----------------------------
(***************************************************************************)
(* The client of the Codex app-server: one socket opened on demand and     *)
(* shared by concurrent requests, each with its own timer and signal       *)
(* (src/registered-shell/codex-socket.ts).  The server may answer late,    *)
(* out of order, repeatedly, on another connection or never, send          *)
(* notifications and requests of its own, send something invalid, or go    *)
(* away.                                                                   *)
(*                                                                         *)
(* A request is also its id: ids are never used again.  A frame is whole;  *)
(* how a message is cut into chunks and fragments is left out.             *)
(***************************************************************************)
EXTENDS Naturals, FiniteSets

CONSTANTS
  Requests,   \* requests made by the adapter
  MaxConns    \* bound: connections made

VARIABLES
  sock,     \* this.socket: the number of the connection, 0 for none
  phase,    \* of the connection being opened: "none" once ready() has settled
  closed,   \* this.closed
  pending,  \* this.pending: requests awaiting a reply
  req,      \* each request: what its caller sees
  wire,     \* frames the server has sent and the client has not read
  asked,    \* requests the server was ever sent, on whichever connection
  conns,    \* bound: connections made so far
  cause     \* history: the frame that resolved each request

vars == <<sock, phase, closed, pending, req, wire, asked, conns, cause>>

NoFrame == [kind |-> "none"]
\* A server's own request may bear the number of one of ours.
Frame == [kind: {"reply", "refusal", "request"}, id: Requests, conn: 1..MaxConns]
         \cup [kind: {"notice", "ping", "bad", "bye"}, conn: 1..MaxConns]

TypeOK ==
  /\ sock \in 0..MaxConns
  /\ phase \in {"none", "handshake", "initialize"}
  /\ closed \in BOOLEAN
  /\ pending \subseteq Requests
  /\ req \in [Requests -> {"new", "waiting", "pending", "resolved", "rejected"}]
  /\ wire \subseteq Frame
  /\ asked \subseteq Requests
  /\ conns \in 0..MaxConns
  /\ cause \in [Requests -> Frame \cup {NoFrame}]

Init ==
  /\ sock = 0
  /\ phase = "none"
  /\ closed = FALSE
  /\ pending = {}
  /\ req = [r \in Requests |-> "new"]
  /\ wire = {}
  /\ asked = {}
  /\ conns = 0
  /\ cause = [r \in Requests |-> NoFrame]

Settle(S, how) == [r \in Requests |-> IF r \in S THEN how ELSE req[r]]

\* Mutant: what is pending is left to its timer.
Fail_KeepsPending(S) ==
  /\ sock' = 0
  /\ wire' = {}
  /\ req' = Settle(S \ pending, "rejected")
  /\ UNCHANGED pending

\* fail: the socket is dropped with what it had received, and every pending request is
\* rejected; so are the waiters S of a connection that could not be opened.
Fail(S) ==
  /\ sock' = 0
  /\ wire' = {}
  /\ pending' = {}
  /\ req' = Settle(S \cup pending, "rejected")

Waiting == {r \in Requests : req[r] = "waiting"}

-----------------------------------------------------------------------------

\* request: it joins a connection being opened, uses the one there is, or opens one.
Request(r) ==
  /\ req[r] = "new"
  /\ \/ /\ phase # "none" \/ (sock # 0 /\ ~closed)
        /\ req' = Settle({r}, "waiting")
        /\ UNCHANGED <<sock, phase, conns>>
     \/ /\ phase = "none" /\ closed
        /\ req' = Settle({r}, "rejected")
        /\ UNCHANGED <<sock, phase, conns>>
     \/ /\ phase = "none" /\ sock = 0 /\ ~closed /\ conns < MaxConns
        /\ conns' = conns + 1
        /\ sock' = conns + 1
        /\ phase' = "handshake"
        /\ req' = Settle({r}, "waiting")
  /\ UNCHANGED <<closed, pending, wire, asked, cause>>

\* Mutant: nothing ends a handshake the server does not answer.
OpenFails_NoTimer ==
  /\ phase # "none"
  /\ sock = 0
  /\ phase' = "none"
  /\ Fail(Waiting)
  /\ UNCHANGED <<closed, asked, conns, cause>>

\* The handshake, or initialize, is refused or times out, or the socket is gone.
OpenFails ==
  /\ phase # "none"
  /\ phase' = "none"
  /\ Fail(Waiting)
  /\ UNCHANGED <<closed, asked, conns, cause>>

Handshaken ==
  /\ phase = "handshake"
  /\ sock # 0
  /\ phase' = "initialize"
  /\ UNCHANGED <<sock, closed, pending, req, wire, asked, conns, cause>>

Initialized ==
  /\ phase = "initialize"
  /\ sock # 0
  /\ phase' = "none"
  /\ UNCHANGED <<sock, closed, pending, req, wire, asked, conns, cause>>

\* sendRequest, once ready: its signal may have aborted, and the write fails if the socket
\* is gone again.
SendRequest(r) ==
  /\ req[r] = "waiting"
  /\ phase = "none"
  /\ \/ /\ sock # 0 /\ ~closed
        /\ pending' = pending \cup {r}
        /\ req' = Settle({r}, "pending")
        /\ asked' = asked \cup {r}
     \/ /\ req' = Settle({r}, "rejected")
        /\ UNCHANGED <<pending, asked>>
  /\ UNCHANGED <<sock, phase, closed, wire, conns, cause>>

\* Mutant: the entry stays, to be looked up when the reply comes.
Expire_Keeps(r) ==
  /\ req[r] = "pending"
  /\ req' = Settle({r}, "rejected")
  /\ UNCHANGED <<sock, phase, closed, pending, wire, asked, conns, cause>>

\* The request's timer fires or its signal aborts: it is rejected and forgotten.
Expire(r) ==
  /\ req[r] = "pending"
  /\ req' = Settle({r}, "rejected")
  /\ pending' = pending \ {r}
  /\ UNCHANGED <<sock, phase, closed, wire, asked, conns, cause>>

\* Mutant: any message that bears the number of a pending request settles it.
Answers_AnyId(f) == f.kind \in {"reply", "refusal", "request"} /\ f.id \in pending

\* What read takes for the answer to a pending request.
Answers(f) == f.kind \in {"reply", "refusal"} /\ f.id \in pending

\* read: an invalid frame or the closing one fails the connection, everything that is no
\* answer to a pending request is passed over.
Read(f) ==
  /\ f \in wire /\ f.conn = sock
  /\ \/ /\ f.kind \in {"bad", "bye"}
        /\ Fail({})
        /\ UNCHANGED cause
     \/ /\ f.kind \notin {"bad", "bye"} /\ Answers(f)
        /\ req' = Settle({f.id}, IF f.kind = "refusal" THEN "rejected" ELSE "resolved")
        /\ cause' = [cause EXCEPT ![f.id] = f]
        /\ pending' = pending \ {f.id}
        /\ wire' = wire \ {f}
        /\ UNCHANGED sock
     \/ /\ f.kind \notin {"bad", "bye"} /\ ~Answers(f)
        /\ wire' = wire \ {f}
        /\ UNCHANGED <<sock, pending, req, cause>>
  /\ UNCHANGED <<phase, closed, asked, conns>>

Disconnect ==
  /\ sock # 0 /\ phase = "none"
  /\ Fail({})
  /\ UNCHANGED <<phase, closed, asked, conns, cause>>

\* close: a connection being opened loses its socket, and OpenFails rejects its waiters.
Close ==
  /\ ~closed
  /\ closed' = TRUE
  /\ Fail({})
  /\ UNCHANGED <<phase, asked, conns, cause>>

\* The server answers what it was asked, now or on an earlier connection, once or again,
\* or sends something else (external).
ServerSends(f) ==
  /\ f.conn = sock /\ phase = "none"
  /\ f \notin wire
  /\ f.kind \in {"reply", "refusal"} => f.id \in asked
  /\ wire' = wire \cup {f}
  /\ UNCHANGED <<sock, phase, closed, pending, req, asked, conns, cause>>

Next ==
  \/ \E r \in Requests : Request(r) \/ SendRequest(r) \/ Expire(r)
  \/ OpenFails \/ Handshaken \/ Initialized \/ Disconnect \/ Close
  \/ \E f \in Frame : ServerSends(f)
  \/ \E f \in wire : Read(f)

Spec == Init /\ [][Next]_vars

\* Timers fire, and a caller whose connection is ready goes on.
FairSpec ==
  /\ Spec
  /\ WF_vars(OpenFails)
  /\ \A r \in Requests : WF_vars(SendRequest(r)) /\ WF_vars(Expire(r))

-----------------------------------------------------------------------------

\* A request is resolved by the server's answer to it and by nothing else: no request of
\* the server that bears its number, no answer that was late for another.
ResolvedByItsAnswer ==
  \A r \in Requests : req[r] = "resolved" =>
    cause[r].kind = "reply" /\ cause[r].id = r

\* A request whose caller has been answered is not settled again by a late reply, a
\* disconnection or close: nothing settled is pending, nothing waits on a lost socket.
PendingIsLive ==
  \A r \in Requests : r \in pending <=> req[r] = "pending" /\ sock # 0

\* What a caller was told stays.
SettledForGood ==
  [][\A r \in Requests : req[r] \in {"resolved", "rejected"} => req'[r] = req[r]]_vars

\* Every request comes to an end, whatever the server does: activation, and with it the
\* dispatcher's loop, is never stuck on the app-server.
EveryRequestSettles ==
  \A r \in Requests : req[r] \in {"waiting", "pending"} ~> req[r] \in {"resolved", "rejected"}
=============================================================================
