-------------------------- MODULE Registry_proofs ---------------------------
(***************************************************************************)
(* Theorems about names and sessions, for any number of clients, names and *)
(* sessions: undo, presence, resurrection and adoption.                    *)
(***************************************************************************)
EXTENDS Registry, TLAPS

(***************************************************************************)
(* The inductive invariant.                                                *)
(***************************************************************************)

Provisionals == {Provisional(v) : v \in Stamps}
Completeds == {Completed(v) : v \in Stamps}

CloseSteps == {"close", "delete", "remove"}

\* The client is between the write of a rename and its end.
InRename(r) == r.pc \in {"migrate", "undo", "retire", "unbeat"} \/ (r.pc \in CloseSteps /\ r.after # "stop")

\* The client's provisional value is written and neither undone nor forgotten.
HoldsWrite(r) == InRename(r) \/ r.pc \in {"publish", "ensure"}

\* The rename may still fall back to the old identity.
MayReturn(r) ==
  \/ r.pc \in {"idle", "prune", "create", "write", "migrate", "undo"}
  \/ r.pc \in CloseSteps /\ r.after = "undo"

\* What a call in flight holds.
CallInv(c) ==
  LET r == client[c]
  IN  /\ HoldsWrite(r) => r.wrote \in Provisionals
      /\ r.pc = "write" => r.wrote \in Provisionals \cup {None}
      /\ ~HoldsWrite(r) /\ r.pc # "write" => r.wrote = None
      /\ r.pc \in {"prune", "create", "write"} \/ HoldsWrite(r) => r.to # None
      /\ r.pc = "write" \/ HoldsWrite(r) => r.new # None
      /\ r.pc = "write" \/ InRename(r) => r.new \notin {r.session, r.refreshing}
      /\ InRename(r) \/ r.pc \in CloseSteps \cup {"stop"} => r.session # None
      /\ r.pc = "stop" => r.after = "stop"
      /\ r.pc \in {"delete", "remove"} => r.from # None
      /\ r.pc = "remove" => record[Closing(c)] = None

\* The identity of a client: its sessions were handed out, and until a rename is past its
\* way back the timers keep the old one.
IdentityInv(c) ==
  LET r == client[c]
  IN  /\ r.session = None <=> r.name = None
      /\ {r.session, r.new, r.refreshing} \subseteq used \cup {None}
      /\ r.session # None /\ ~r.partial =>
           /\ MayReturn(r) => r.refreshing = r.session
           /\ r.pc = "idle" => r.beating = r.name
           /\ r.pc \in {"prune", "create", "write"} /\ r.to = r.name => r.beating = r.name

\* Records, leases and sets: a lease has a record, and a set holds besides its own
\* sessions only closed ones.
PresenceInv ==
  /\ \A s \in Sessions : record[s] # None => s \in used
  /\ \A s \in lease : record[s] # None /\ s \in members[record[s]]
  /\ \A n \in Names : \A s \in members[n] : s \in used /\ record[s] \in {n, None}

\* The bookkeeping of one name.  A value whose writer has published already is not his.
UndoInv(n) ==
  /\ pending[n] \in Provisionals \cup {None}
  /\ completed[n] \in Completeds \cup {None}
  /\ \/ registry[n] = completed[n]
     \/ registry[n] # None /\ registry[n] = pending[n] /\ restore[n] = completed[n]
  /\ registry[n] \in Provisionals =>
       \/ registry[n] \in abandoned[n]
       \/ \E c \in Clients : /\ client[c].to = n /\ client[c].wrote = registry[n]
                             /\ client[c].pc # "ensure"

RegistryInv ==
  /\ TypeOK
  /\ PresenceInv
  /\ \A c \in Clients : CallInv(c) /\ IdentityInv(c)
  /\ \A n \in Names : UndoInv(n)

-----------------------------------------------------------------------------
(***************************************************************************)
(* Type correctness.                                                       *)
(***************************************************************************)

\* The steps of a client that change it.
Moves(c) ==
  \/ \E n \in Names : Register(c, n) \/ AdoptIdentity(c, n)
  \/ Prune(c) \/ Create(c) \/ Write(c) \/ CreateFails(c) \/ Migrate(c)
  \/ Undo(c) \/ UndoFails(c) \/ Retire(c) \/ Unbeat(c)
  \/ Publish(c) \/ Ensure(c) \/ PublishFails(c)
  \/ CloseRead(c) \/ CloseDelete(c) \/ CloseRemove(c) \/ CloseFails(c)
  \/ CloseCurrentSession(c) \/ Stop(c) \/ Unregister(c) \/ UnregisterFails(c)
  \/ \E s \in Sessions : Reconnect(c, s)
  \/ Crash(c)

\* What the helpers make of a client is a client.
LEMMA HelperTypes ==
  ASSUME NEW r \in Client
  PROVE  /\ Ended(r) \in Client /\ Beating(r) \in Client /\ Ended(Beating(r)) \in Client
         /\ Assumes(r) \in Client
         /\ Fresh \in Client
<1>1. ASSUME NEW q \in Client PROVE Ended(q) \in Client
  BY DEF Ended, Client
<1>2. Beating(r) \in Client
  BY DEF Beating, Client
<1>3. Assumes(r) \in Client
  BY DEF Assumes, Client
<1>4. Fresh \in Client
  BY DEF Fresh, Client
<1> QED BY <1>1, <1>2, <1>3, <1>4

LEMMA BecomesTyped ==
  ASSUME client \in [Clients -> Client], NEW c \in Clients, NEW r \in Client, Becomes(c, r)
  PROVE  /\ client' \in [Clients -> Client]
         /\ client'[c] = r
         /\ \A d \in Clients \ {c} : client'[d] = client[d]
BY DEF Becomes

\* Every move of a client leaves a client.
LEMMA MovesBecomes ==
  ASSUME TypeOK, NEW c \in Clients, CallInv(c), Moves(c)
  PROVE  \E r \in Client : Becomes(c, r)
<1> DEFINE r == client[c]
<1>0. r \in Client
  BY DEF TypeOK
<1>k. CASE UNCHANGED client
  BY <1>0, <1>k DEF Becomes, TypeOK
<1>1. ASSUME NEW n \in Names, Register(c, n) PROVE \E q \in Client : Becomes(c, q)
  <2>1. \A b \in {None, r.beating} : [r EXCEPT !.pc = "prune", !.to = n, !.beating = b] \in Client
    BY <1>0 DEF Client
  <2> QED BY <1>1, <2>1 DEF Register
<1>2. ASSUME NEW n \in Names, AdoptIdentity(c, n) PROVE \E q \in Client : Becomes(c, q)
  <2>1. [r EXCEPT !.name = n] \in Client
    BY <1>0 DEF Client
  <2> QED BY <1>2, <1>k, <2>1, HelperTypes DEF AdoptIdentity
<1>3. ASSUME NEW pc \in {"create", "remove", "unbeat", "ensure"} PROVE [r EXCEPT !.pc = pc] \in Client
  BY <1>0 DEF Client
<1>4. CASE Prune(c) \/ Retire(c) \/ Publish(c) \/ CloseDelete(c)
  BY <1>k, <1>3, <1>4 DEF Prune, Retire, Publish, CloseDelete, Goes
<1>5. CASE Create(c)
  <2>1. \A s \in Sessions : [r EXCEPT !.pc = "write", !.new = s] \in Client
    BY <1>0 DEF Client
  <2> QED BY <1>5, <2>1 DEF Create
<1>6. CASE Write(c)
  <2>1. PICK v \in Stamps :
          \/ Becomes(c, IF Renaming(c) THEN [[r EXCEPT !.wrote = Provisional(v)] EXCEPT !.pc = "migrate"]
                        ELSE Assumes([r EXCEPT !.wrote = Provisional(v)]))
          \/ Becomes(c, [r EXCEPT !.wrote = Provisional(v)])
    BY <1>6 DEF Write
  <2> DEFINE q == [r EXCEPT !.wrote = Provisional(v)]
  <2>2. q \in Client
    BY <1>0 DEF Client, Value, Provisional
  <2> HIDE DEF q
  <2>3. [q EXCEPT !.pc = "migrate"] \in Client
    BY <2>2 DEF Client
  <2>4. Assumes(q) \in Client
    BY <2>2, HelperTypes
  <2> QED BY <2>1, <2>2, <2>3, <2>4 DEF q
<1>7. CASE CreateFails(c) \/ Undo(c) \/ UndoFails(c)
  BY <1>k, <1>0, <1>7, HelperTypes DEF CreateFails, Undo, UndoFails
<1>8. CASE Migrate(c)
  <2>1. \A after \in {"retire", "undo"} : [r EXCEPT !.pc = "close", !.after = after] \in Client
    BY <1>0 DEF Client
  <2> QED BY <1>8, <2>1 DEF Migrate
<1>9. CASE Unbeat(c)
  BY <1>0, <1>9, HelperTypes DEF Unbeat
<1>10. CASE Ensure(c)
  <2>1. [r EXCEPT !.refreshing = r.session, !.partial = FALSE] \in Client
    BY <1>0 DEF Client
  <2> QED BY <1>10, <2>1, HelperTypes DEF Ensure
<1>11. [r EXCEPT !.partial = TRUE] \in Client
  BY <1>0 DEF Client
<1>12. CASE PublishFails(c)
  BY <1>11, <1>12, HelperTypes DEF PublishFails
<1>13. \A s \in {None, r.refreshing} : [r EXCEPT !.refreshing = s] \in Client
  BY <1>0 DEF Client
<1>14. ASSUME NEW q \in Client PROVE [q EXCEPT !.pc = q.after] \in Client
  BY DEF Client
<1>15. CASE CloseRead(c)
  <2> DEFINE q == [r EXCEPT !.refreshing = IF @ = Closing(c) THEN None ELSE @]
  <2>1. q \in Client
    BY <1>13
  <2>2. \A n \in Names \cup {None} : [q EXCEPT !.pc = "delete", !.from = n] \in Client
    <3> HIDE DEF q
    <3> QED BY <2>1 DEF Client
  <2>3. Closing(c) \in Sessions
    BY <1>0, <1>15 DEF CloseRead, Closing, Client, CallInv, HoldsWrite, InRename, CloseSteps
  <2>4. record[Closing(c)] \in Names \cup {None}
    BY <2>3 DEF TypeOK
  <2> QED BY <1>14, <1>15, <2>1, <2>2, <2>4 DEF CloseRead
<1>16. CASE CloseRemove(c)
  BY <1>0, <1>14, <1>16 DEF CloseRemove, Goes
<1>17. CASE CloseFails(c)
  <2> DEFINE q == [r EXCEPT !.refreshing = IF @ = Closing(c) THEN None ELSE @]
  <2>1. q \in Client
    BY <1>13
  <2>2. [q EXCEPT !.partial = TRUE] \in Client
    <3> HIDE DEF q
    <3> QED BY <2>1 DEF Client
  <2>3. Ended([q EXCEPT !.partial = TRUE]) \in Client
    BY <2>2, HelperTypes
  <2> QED BY <1>14, <1>17, <2>1, <2>3 DEF CloseFails
<1>18. CASE CloseCurrentSession(c)
  <2>1. [r EXCEPT !.pc = "close", !.after = "stop", !.refreshing = None, !.beating = None] \in Client
    BY <1>0 DEF Client
  <2> QED BY <1>18, <2>1 DEF CloseCurrentSession
<1>19. CASE Stop(c) \/ Unregister(c) \/ Crash(c)
  BY <1>0, <1>19, HelperTypes DEF Stop, Unregister, Crash
<1>20. CASE UnregisterFails(c)
  <2>1. [r EXCEPT !.refreshing = None, !.beating = None, !.partial = TRUE] \in Client
    BY <1>0 DEF Client
  <2> QED BY <1>20, <2>1 DEF UnregisterFails
<1>21. ASSUME NEW s \in Sessions, Reconnect(c, s) PROVE \E q \in Client : Becomes(c, q)
  <2>1. record[s] \in Names
    BY <1>21 DEF Reconnect, TypeOK
  <2>2. [Fresh EXCEPT !.session = s, !.name = record[s],
                      !.refreshing = s, !.beating = record[s]] \in Client
    BY <2>1 DEF Fresh, Client
  <2> QED BY <1>21, <2>2 DEF Reconnect
<1> QED
  BY <1>1, <1>2, <1>4, <1>5, <1>6, <1>7, <1>8, <1>9, <1>10, <1>12, <1>15, <1>16, <1>17, <1>18,
     <1>19, <1>20, <1>21
  DEF Moves

\* A move keeps the types of the store and of the histories.
LEMMA MovesTyped ==
  ASSUME TypeOK, NEW c \in Clients, CallInv(c), Moves(c)
  PROVE  TypeOK'
<1> DEFINE r == client[c]
<1>0. /\ r \in Client /\ client \in [Clients -> Client]
      /\ r.to \in Names \cup {None} /\ r.new \in Sessions \cup {None}
      /\ r.name \in Names \cup {None} /\ r.session \in Sessions \cup {None}
      /\ r.from \in Names \cup {None} /\ r.wrote \in Value \cup {None}
  BY DEF TypeOK, Client
<1>1. client' \in [Clients -> Client]
  BY SMTT(40), <1>0, MovesBecomes, BecomesTyped
<1>2. UNCHANGED scenario
  BY ZenonT(60) DEF Moves, Register, AdoptIdentity, Prune, Create, Write, CreateFails, Migrate,
       Undo, UndoFails,
      Retire, Unbeat, Publish, Ensure, PublishFails, CloseRead, CloseDelete, CloseRemove,
      CloseFails, CloseCurrentSession, Stop, Unregister, UnregisterFails, Reconnect, Crash
<1>3. /\ registry' \in [Names -> Value \cup {None}]
      /\ pending' \in [Names -> Value \cup {None}]
      /\ restore' \in [Names -> Value \cup {None}]
      /\ completed' \in [Names -> Value \cup {None}]
  <2>1. CASE Write(c)
    <3>1. PICK v \in Stamps : WriteProvisional(r.to, Provisional(v)) /\ UNCHANGED completed
      BY <2>1 DEF Write
    <3>2. Provisional(v) \in Value
      BY DEF Provisional, Value
    <3> QED BY <3>1, <3>2 DEF WriteProvisional, TypeOK
  <2>2. CASE Undo(c)
    BY <2>2 DEF Undo, UndoRegistryWrite, TypeOK
  <2>3. CASE Retire(c)
    BY <2>3 DEF Retire, TypeOK
  <2>4. CASE Publish(c)
    <3>1. PICK v \in Stamps : /\ PublishRegistration(r.to, Completed(v))
                             /\ completed' = [completed EXCEPT ![r.to] = Completed(v)]
      BY <2>4 DEF Publish
    <3>2. Completed(v) \in Value
      BY DEF Completed, Value
    <3> QED BY <3>1, <3>2 DEF PublishRegistration, TypeOK
  <2>5. CASE Unregister(c) \/ UnregisterFails(c)
    BY <2>5 DEF Unregister, UnregisterFails, UnregisterScript, TypeOK
  <2>6. ASSUME NEW n \in Names, AdoptIdentity(c, n)
        PROVE  /\ registry' \in [Names -> Value \cup {None}]
               /\ pending' \in [Names -> Value \cup {None}]
               /\ restore' \in [Names -> Value \cup {None}]
               /\ completed' \in [Names -> Value \cup {None}]
    <3>1. PICK v \in Stamps :
            /\ registry' = [registry EXCEPT ![n] = Completed(v), ![r.name] = None]
            /\ completed' = [completed EXCEPT ![n] = Completed(v), ![r.name] = None]
      BY <2>6 DEF AdoptIdentity
    <3>2. Completed(v) \in Value
      BY DEF Completed, Value
    <3>3. pending' = [pending EXCEPT ![n] = None] /\ restore' = [restore EXCEPT ![n] = None]
      BY <2>6 DEF AdoptIdentity
    <3> QED BY <3>1, <3>2, <3>3 DEF TypeOK
  <2>7. CASE UNCHANGED <<registry, pending, restore, completed>>
    BY SMTT(40), <2>7 DEF TypeOK
  <2> QED
    BY <2>1, <2>2, <2>3, <2>4, <2>5, <2>6, <2>7
    DEF Moves, store, Register, Prune, Create, CreateFails, Migrate, UndoFails, Unbeat, Ensure,
      PublishFails, CloseRead, CloseDelete, CloseRemove, CloseFails, CloseCurrentSession,
      Stop, Reconnect, Crash
<1>4. record' \in [Sessions -> Names \cup {None}]
  <2>1. CASE Prune(c) \/ CreateFails(c) \/ CloseDelete(c) \/ Unregister(c) \/ UnregisterFails(c)
    BY <2>1 DEF Prune, PruneExpired, CreateFails, CloseDelete, Unregister, UnregisterFails,
      UnregisterScript, TypeOK
  <2>2. CASE Create(c)
    BY <1>0, <2>2 DEF Create, TypeOK
  <2>3. ASSUME NEW n \in Names, AdoptIdentity(c, n) PROVE record' \in [Sessions -> Names \cup {None}]
    BY <2>3 DEF AdoptIdentity, TypeOK
  <2>4. CASE UNCHANGED record
    BY <2>4 DEF TypeOK
  <2> QED
    BY <2>1, <2>2, <2>3, <2>4
    DEF Moves, store, Register, Write, Migrate, Undo, UndoFails, Retire, Unbeat, Publish, Ensure,
      PublishFails, CloseRead, CloseRemove, CloseFails, CloseCurrentSession, Stop,
      Reconnect, Crash
<1>5. lease' \subseteq Sessions /\ used' \subseteq Sessions
  BY ZenonT(60) DEF TypeOK, Moves, store, Register, AdoptIdentity, Prune, Create, Write,
       CreateFails, Migrate, Undo, UndoFails,
      Retire, Unbeat, Publish, Ensure, PublishFails, CloseRead, CloseDelete, CloseRemove,
      CloseFails, CloseCurrentSession, Stop, Unregister, UnregisterFails, UnregisterScript,
      Reconnect, Crash
<1>6. members' \in [Names -> SUBSET Sessions]
  <2>1. CASE \E n, S : members' = [members EXCEPT ![n] = @ \ S]
    BY ZenonT(60), <2>1 DEF TypeOK
  <2>2. CASE Create(c)
    <3>1. PICK s \in Sessions : members' = [members EXCEPT ![r.to] = @ \cup {s}]
      BY <2>2 DEF Create
    <3> QED BY <3>1 DEF TypeOK
  <2>3. ASSUME NEW n \in Names, AdoptIdentity(c, n) PROVE members' \in [Names -> SUBSET Sessions]
    BY <1>0, <2>3 DEF AdoptIdentity, TypeOK
  <2>4. CASE UNCHANGED members
    BY <2>4 DEF TypeOK
  <2>5. CASE Prune(c) \/ CreateFails(c) \/ CloseRemove(c) \/ Unregister(c) \/ UnregisterFails(c)
    BY <2>1, <2>4, <2>5 DEF Prune, PruneExpired, CreateFails, CloseRemove, Unregister,
      UnregisterFails, UnregisterScript
  <2> QED
    BY <2>2, <2>3, <2>4, <2>5
    DEF Moves, store, Register, Write, Migrate, Undo, UndoFails, Retire, Unbeat, Publish, Ensure,
      PublishFails, CloseRead, CloseDelete, CloseFails, CloseCurrentSession, Stop,
      Reconnect, Crash
<1>7. heartbeat' \subseteq Names
  BY ZenonT(60) DEF TypeOK, Moves, store, Register, AdoptIdentity, Prune, Create, Write,
       CreateFails, Migrate, Undo, UndoFails,
      Retire, Unbeat, Publish, Ensure, PublishFails, CloseRead, CloseDelete, CloseRemove,
      CloseFails, CloseCurrentSession, Stop, Unregister, UnregisterFails, UnregisterScript,
      Reconnect, Crash
<1>8. abandoned' \in [Names -> SUBSET Value]
  <2>1. CASE Abandons(c)
    BY <1>0, <2>1 DEF Abandons, TypeOK
  <2>3. CASE UNCHANGED abandoned
    BY <2>3 DEF TypeOK
  <2> QED
    BY <2>1, <2>3
    DEF Moves, Register, AdoptIdentity, Prune, Create, Write, CreateFails, Migrate, Undo, UndoFails,
      Retire, Unbeat, Publish, Ensure, PublishFails, Crash, CloseRead, CloseDelete, CloseRemove, CloseFails,
      CloseCurrentSession, Stop, Unregister, UnregisterFails, Reconnect
<1> QED BY <1>1, <1>2, <1>3, <1>4, <1>5, <1>6, <1>7, <1>8 DEF TypeOK

LEMMA TypeStep == RegistryInv /\ [Next]_vars => TypeOK'
<1> SUFFICES ASSUME RegistryInv, [Next]_vars PROVE TypeOK'
  OBVIOUS
<1>0. TypeOK
  BY DEF RegistryInv
<1>1. ASSUME NEW c \in Clients, Moves(c) PROVE TypeOK'
  BY <1>1, MovesTyped DEF RegistryInv
<1>2. ASSUME NEW c \in Clients, Refresh(c) PROVE TypeOK'
  <2>1. client[c].refreshing \in Sessions
    BY <1>0, <1>2 DEF Refresh, TypeOK, Client
  <2>2. lease' \subseteq Sessions /\ members' \in [Names -> SUBSET Sessions]
    BY <1>0, <1>2, <2>1 DEF Refresh, RefreshLease, TypeOK
  <2> QED BY <1>0, <1>2, <2>2 DEF Refresh, TypeOK
<1>3. ASSUME NEW c \in Clients, Beat(c) PROVE TypeOK'
  <2>1. client[c].beating \in Names
    BY <1>0, <1>3 DEF Beat, TypeOK, Client
  <2> QED BY <1>0, <1>3, <2>1 DEF Beat, TypeOK
<1>4. ASSUME NEW s \in Sessions, LeaseLapses(s) PROVE TypeOK'
  BY <1>0, <1>4 DEF LeaseLapses, TypeOK
<1>5. ASSUME NEW n \in Names, HeartbeatLapses(n) PROVE TypeOK'
  BY <1>0, <1>5 DEF HeartbeatLapses, TypeOK
<1>6. CASE UNCHANGED vars
  BY <1>0, <1>6 DEF vars, store, TypeOK
<1> QED BY <1>1, <1>2, <1>3, <1>4, <1>5, <1>6 DEF Next, Moves

-----------------------------------------------------------------------------
(***************************************************************************)
(* Records, leases and sets.                                               *)
(***************************************************************************)

\* A step gives no session a second record.
NoRevival == \A s \in used : record[s] = None => record'[s] = None

\* What closeSession closes is a session that was handed out.
LEMMA ClosingIsUsed ==
  ASSUME TypeOK, NEW c \in Clients, CallInv(c), IdentityInv(c), client[c].pc \in CloseSteps
  PROVE  Closing(c) \in Sessions /\ Closing(c) \in used
BY SMTT(40), RegistryAssumption DEF TypeOK, Client, CallInv, IdentityInv, Closing, HoldsWrite,
     InRename, CloseSteps

LEMMA PresenceStep ==
  ASSUME RegistryInv, [Next]_vars
  PROVE  PresenceInv' /\ NoRevival
<1>0. TypeOK /\ PresenceInv /\ None \notin Names
  BY RegistryAssumption DEF RegistryInv
<1>u. CASE UNCHANGED <<record, lease, members, used>>
  BY <1>0, <1>u DEF PresenceInv, NoRevival
<1>1. ASSUME NEW c \in Clients, Prune(c) PROVE PresenceInv' /\ NoRevival
  <2>1. client[c].to \in Names
    BY <1>0, <1>1 DEF Prune, RegistryInv, CallInv, TypeOK, Client
  <2>2. PruneExpired(client[c].to) /\ UNCHANGED <<lease, used>>
    BY <1>1 DEF Prune
  <2> QED BY <1>0, <2>1, <2>2 DEF PruneExpired, NoRevival, PresenceInv, TypeOK
<1>2. ASSUME NEW c \in Clients, Create(c) PROVE PresenceInv' /\ NoRevival
  <2>1. client[c].to \in Names
    BY <1>0, <1>2 DEF Create, RegistryInv, CallInv, TypeOK, Client
  <2> DEFINE n == client[c].to
  <2>2. PICK s \in Sessions \ used :
          /\ record' = [record EXCEPT ![s] = n]
          /\ lease' = lease \cup {s}
          /\ members' = [members EXCEPT ![n] = @ \cup {s}]
          /\ used' = used \cup {s}
    BY <1>2 DEF Create
  <2> HIDE DEF n
  <2>3. n \in Names
    BY <2>1 DEF n
  <2> QED BY <1>0, <2>2, <2>3 DEF NoRevival, PresenceInv, TypeOK
<1>3. ASSUME NEW s \in Sessions, NEW n \in Names, UNCHANGED used,
             record' = [record EXCEPT ![s] = None], lease' = lease \ {s},
             members' = [members EXCEPT ![n] = @ \ {s}]
      PROVE  PresenceInv' /\ NoRevival
  BY <1>0, <1>3 DEF NoRevival, PresenceInv, TypeOK
<1>4. ASSUME NEW c \in Clients, CreateFails(c) PROVE PresenceInv' /\ NoRevival
  <2>1. CASE /\ client[c].pc = "write"
             /\ record' = [record EXCEPT ![client[c].new] = None]
             /\ lease' = lease \ {client[c].new}
             /\ members' = [members EXCEPT ![client[c].to] = @ \ {client[c].new}]
    <3>1. client[c].new \in Sessions /\ client[c].to \in Names
      BY <1>0, <2>1 DEF RegistryInv, CallInv, TypeOK, Client
    <3> QED BY <1>3, <1>4, <2>1, <3>1 DEF CreateFails
  <2> QED BY <1>u, <1>4, <2>1 DEF CreateFails
<1>5. ASSUME NEW c \in Clients, CloseDelete(c) PROVE PresenceInv' /\ NoRevival
  <2> DEFINE s == Closing(c)
  <2>1. s \in Sessions
    BY <1>5, ClosingIsUsed DEF CloseDelete, RegistryInv, CloseSteps
  <2>2. /\ record' = [record EXCEPT ![s] = None] /\ lease' = lease \ {s}
        /\ UNCHANGED <<members, used>>
    BY <1>5 DEF CloseDelete
  <2> HIDE DEF s
  <2> QED BY <1>0, <2>1, <2>2 DEF NoRevival, PresenceInv, TypeOK
<1>6. ASSUME NEW c \in Clients, CloseRemove(c) PROVE PresenceInv' /\ NoRevival
  <2> DEFINE s == Closing(c)
             n == client[c].from
  <2>1. s \in Sessions /\ record[s] = None
    BY <1>6, ClosingIsUsed DEF CloseRemove, RegistryInv, CloseSteps, CallInv
  <2>2. n \in Names
    BY <1>0, <1>6 DEF CloseRemove, RegistryInv, CallInv, TypeOK, Client
  <2>3. members' = [members EXCEPT ![n] = @ \ {s}] /\ UNCHANGED <<record, lease, used>>
    BY <1>6 DEF CloseRemove
  <2> HIDE DEF s, n
  <2> QED BY <1>0, <2>1, <2>2, <2>3 DEF NoRevival, PresenceInv, TypeOK
<1>7. ASSUME NEW c \in Clients, Unregister(c) \/ UnregisterFails(c) PROVE PresenceInv' /\ NoRevival
  <2>1. client[c].session \in Sessions /\ client[c].name \in Names
    BY <1>0, <1>7 DEF Unregister, UnregisterFails, RegistryInv, IdentityInv, TypeOK, Client
  <2> QED BY <1>u, <1>3, <1>7, <2>1 DEF Unregister, UnregisterFails, UnregisterScript
<1>8. ASSUME NEW c \in Clients, NEW n \in Names, AdoptIdentity(c, n) PROVE PresenceInv' /\ NoRevival
  <2> DEFINE s == client[c].session
             source == client[c].name
  <2>1. s \in Sessions /\ source \in Names /\ n # source /\ record[s] = source /\ s \in lease
    BY <1>0, <1>8 DEF AdoptIdentity, Adoptable, RegistryInv, IdentityInv, TypeOK, Client
  <2>2. /\ record' = [record EXCEPT ![s] = n]
        /\ members' = [members EXCEPT ![source] = @ \ {s}, ![n] = @ \cup {s}]
        /\ UNCHANGED <<lease, used>>
    BY <1>8 DEF AdoptIdentity
  <2> HIDE DEF s, source
  <2>3. NoRevival
    BY <1>0, <2>1, <2>2 DEF NoRevival, PresenceInv, TypeOK
  <2>4. \A m \in Names : members'[m] = IF m = n THEN members[m] \cup {s}
                                       ELSE IF m = source THEN members[m] \ {s} ELSE members[m]
    BY <1>0, <2>1, <2>2 DEF TypeOK
  <2>5. \A t \in Sessions : record'[t] = IF t = s THEN n ELSE record[t]
    BY <1>0, <2>1, <2>2 DEF TypeOK
  <2>6. PresenceInv'
    BY <1>0, <2>1, <2>2, <2>4, <2>5 DEF PresenceInv, TypeOK
  <2> QED BY <2>3, <2>6
<1>9. ASSUME NEW c \in Clients, Refresh(c) PROVE PresenceInv' /\ NoRevival
  <2> DEFINE s == client[c].refreshing
  <2>1. s \in Sessions
    BY <1>0, <1>9 DEF Refresh, TypeOK, Client
  <2>2. /\ UNCHANGED <<record, used>>
        /\ \/ UNCHANGED <<lease, members>>
           \/ /\ record[s] # None /\ lease' = lease \cup {s}
              /\ members' = [members EXCEPT ![record[s]] = @ \cup {s}]
    BY <1>9 DEF Refresh, RefreshLease
  <2> HIDE DEF s
  <2>3. CASE /\ record[s] # None /\ lease' = lease \cup {s}
             /\ members' = [members EXCEPT ![record[s]] = @ \cup {s}]
    BY <1>0, <2>1, <2>2, <2>3 DEF NoRevival, PresenceInv, TypeOK
  <2> QED BY <1>u, <2>2, <2>3
<1>10. ASSUME NEW s \in Sessions, LeaseLapses(s) PROVE PresenceInv' /\ NoRevival
  BY <1>0, <1>10 DEF LeaseLapses, NoRevival, PresenceInv, TypeOK
<1> QED
  BY ZenonT(60), <1>u, <1>1, <1>2, <1>4, <1>5, <1>6, <1>7, <1>8, <1>9, <1>10
  DEF Next, vars, store, Beat, HeartbeatLapses,
      Register, Write, Migrate, Undo, UndoFails, Retire, Unbeat, Publish, Ensure,
      PublishFails, CloseRead, CloseFails, CloseCurrentSession, Stop, Reconnect, Crash

-----------------------------------------------------------------------------
(***************************************************************************)
(* The clients.                                                            *)
(***************************************************************************)

\* A client that does not move keeps its part of the invariant.
LEMMA ClientsKeep ==
  ASSUME TypeOK, NEW c \in Clients, CallInv(c), IdentityInv(c), UNCHANGED client[c],
         used \subseteq used', NoRevival
  PROVE  CallInv(c)' /\ IdentityInv(c)'
<1>1. client[c].pc = "remove" => record'[Closing(c)] = None
  BY ClosingIsUsed DEF NoRevival, CallInv, CloseSteps
<1>2. CallInv(c)'
  BY <1>1 DEF CallInv, HoldsWrite, InRename, Closing
<1>3. IdentityInv(c)'
  BY DEF IdentityInv, MayReturn
<1> QED BY <1>2, <1>3

\* A registration up to the rename.
LEMMA RegisterKeeps ==
  ASSUME TypeOK, NEW c \in Clients, CallInv(c), IdentityInv(c),
         \/ \E n \in Names : Register(c, n)
         \/ Prune(c) \/ Create(c) \/ Write(c) \/ CreateFails(c)
  PROVE  CallInv(c)' /\ IdentityInv(c)'
<1> DEFINE r == client[c]
<1>0. r \in Client /\ client \in [Clients -> Client] /\ None \notin Names /\ None \notin Sessions
  BY RegistryAssumption DEF TypeOK
<1>1. ASSUME NEW n \in Names, Register(c, n) PROVE CallInv(c)' /\ IdentityInv(c)'
  <2>1. UNCHANGED used /\ r.pc = "idle"
    BY <1>1 DEF Register
  <2>2. CASE r.session # None /\ n # r.name
    <3>1. client'[c] = [r EXCEPT !.pc = "prune", !.to = n, !.beating = None]
      BY <1>0, <1>1, <2>2 DEF Register, Becomes
    <3> QED BY <1>0, <2>1, <2>2, <3>1 DEF CallInv, IdentityInv, HoldsWrite, InRename, MayReturn, CloseSteps,
      Client
  <2>3. CASE ~(r.session # None /\ n # r.name)
    <3>1. client'[c] = [r EXCEPT !.pc = "prune", !.to = n, !.beating = r.beating]
      BY <1>0, <1>1, <2>3 DEF Register, Becomes
    <3> QED BY <1>0, <2>1, <2>3, <3>1 DEF CallInv, IdentityInv, HoldsWrite, InRename, MayReturn, CloseSteps,
      Client
  <2> QED BY <2>2, <2>3
<1>2. CASE Prune(c)
  <2>1. client'[c] = [r EXCEPT !.pc = "create"] /\ UNCHANGED used /\ r.pc = "prune"
    BY <1>0, <1>2 DEF Prune, Goes, Becomes
  <2> QED BY <1>0, <2>1 DEF CallInv, IdentityInv, HoldsWrite, InRename, MayReturn, CloseSteps,
      Client
<1>3. CASE Create(c)
  <2>1. PICK s \in Sessions \ used :
          client'[c] = [r EXCEPT !.pc = "write", !.new = s] /\ used' = used \cup {s}
    BY <1>0, <1>3 DEF Create, Becomes
  <2>2. r.pc = "create"
    BY <1>3 DEF Create
  <2> QED BY <1>0, <2>1, <2>2 DEF CallInv, IdentityInv, HoldsWrite, InRename, MayReturn, CloseSteps,
      Client
<1>4. CASE Write(c)
  <2>1. PICK v \in Stamps :
          LET q == [r EXCEPT !.wrote = Provisional(v)]
          IN  \/ client'[c] = IF Renaming(c) THEN [q EXCEPT !.pc = "migrate"] ELSE Assumes(q)
              \/ client'[c] = q
    BY <1>0, <1>4 DEF Write, Becomes
  <2>2. UNCHANGED used /\ r.pc = "write"
    BY <1>4 DEF Write
  <2> DEFINE p == Provisional(v)
  <2>3. p \in Provisionals
    BY DEF Provisionals
  <2> HIDE DEF p
  <2>3a. CASE client'[c] = [r EXCEPT !.wrote = p]
    BY <1>0, <2>2, <2>3, <2>3a DEF CallInv, IdentityInv, HoldsWrite, InRename, MayReturn, CloseSteps,
      Client
  <2>4. CASE client'[c] # [r EXCEPT !.wrote = p] /\ Renaming(c)
    <3>1. client'[c] = [r EXCEPT !.wrote = p, !.pc = "migrate"] /\ r.session # None
      BY <1>0, <2>1, <2>4 DEF Renaming, p, Client
    <3> QED BY <1>0, <2>2, <2>3, <3>1 DEF CallInv, IdentityInv, HoldsWrite, InRename, MayReturn, CloseSteps,
      Client
  <2>5. CASE client'[c] # [r EXCEPT !.wrote = p] /\ ~Renaming(c)
    <3>1. client'[c] = [r EXCEPT !.wrote = p, !.pc = "publish", !.name = r.to, !.session = r.new]
      BY <1>0, <2>1, <2>5 DEF Assumes, p, Client
    <3> QED BY <1>0, <2>2, <2>3, <3>1 DEF CallInv, IdentityInv, HoldsWrite, InRename, MayReturn, CloseSteps,
      Client
  <2> QED BY <2>3a, <2>4, <2>5
<1>5. CASE CreateFails(c)
  <2>1. r.pc \in {"prune", "create", "write"} /\ UNCHANGED used
    BY <1>5 DEF CreateFails
  <2>2. CASE Renaming(c)
    <3>1. client'[c] = Ended(Beating(r))
      BY <1>0, <1>5, <2>2 DEF CreateFails, Becomes
    <3> QED BY <1>0, <2>1, <3>1 DEF Ended, Beating, CallInv, IdentityInv, HoldsWrite, InRename, MayReturn, CloseSteps,
      Client
  <2>3. CASE ~Renaming(c)
    <3>1. client'[c] = Ended(r)
      BY <1>0, <1>5, <2>3 DEF CreateFails, Becomes
    <3> QED BY <1>0, <2>1, <2>3, <3>1 DEF Renaming, Ended, CallInv, IdentityInv, HoldsWrite, InRename, MayReturn, CloseSteps,
      Client
  <2> QED BY <2>2, <2>3
<1> QED BY <1>1, <1>2, <1>3, <1>4, <1>5

\* A rename from its write on, and the publication.
LEMMA RenameKeeps ==
  ASSUME TypeOK, NEW c \in Clients, CallInv(c), IdentityInv(c),
         \/ Migrate(c) \/ Undo(c) \/ UndoFails(c) \/ Retire(c) \/ Unbeat(c)
         \/ Publish(c) \/ Ensure(c) \/ PublishFails(c)
  PROVE  CallInv(c)' /\ IdentityInv(c)'
<1> DEFINE r == client[c]
<1>0. r \in Client /\ client \in [Clients -> Client] /\ None \notin Names /\ None \notin Sessions
  BY RegistryAssumption DEF TypeOK
<1>u. UNCHANGED used
  BY DEF Migrate, Undo, UndoFails, Retire, Unbeat, Publish, Ensure, PublishFails
<1>1. CASE Migrate(c)
  <2>1. PICK after \in {"retire", "undo"} : client'[c] = [r EXCEPT !.pc = "close", !.after = after]
    BY <1>0, <1>1 DEF Migrate, Becomes
  <2>2. r.pc = "migrate"
    BY <1>1 DEF Migrate
  <2> QED BY <1>0, <1>u, <2>1, <2>2 DEF CallInv, IdentityInv, HoldsWrite, InRename, MayReturn, CloseSteps,
      Client
<1>k. CASE UNCHANGED client /\ (Undo(c) \/ Retire(c) \/ Publish(c))
  <2>1. NoRevival
    BY <1>k DEF NoRevival, Undo, Retire, Publish
  <2> QED BY <1>u, <1>k, <2>1, ClientsKeep
<1>2. CASE Undo(c) \/ UndoFails(c)
  <2>1. CASE client'[c] = Ended(Beating(r)) /\ r.pc = "undo"
    BY <1>0, <1>u, <2>1 DEF Ended, Beating, CallInv, IdentityInv, HoldsWrite, InRename, MayReturn,
      CloseSteps, Client
  <2> QED BY <1>0, <1>k, <1>2, <2>1 DEF Undo, UndoFails, Becomes
<1>3. CASE Retire(c)
  <2>1. ~UNCHANGED client => client'[c] = [r EXCEPT !.pc = "unbeat"] /\ r.pc = "retire"
    BY <1>0, <1>3 DEF Retire, Goes, Becomes
  <2> QED BY <1>0, <1>k, <1>3, <1>u, <2>1 DEF CallInv, IdentityInv, HoldsWrite, InRename, MayReturn, CloseSteps,
      Client
<1>4. CASE Unbeat(c)
  <2>1. client'[c] = Assumes(r) /\ r.pc = "unbeat"
    BY <1>0, <1>4 DEF Unbeat, Becomes
  <2> QED BY <1>0, <1>u, <2>1 DEF Assumes, CallInv, IdentityInv, HoldsWrite, InRename, MayReturn, CloseSteps,
      Client
<1>5. CASE Publish(c)
  <2>1. ~UNCHANGED client => client'[c] = [r EXCEPT !.pc = "ensure"] /\ r.pc = "publish"
    BY <1>0, <1>5 DEF Publish, Goes, Becomes
  <2> QED BY <1>0, <1>k, <1>5, <1>u, <2>1 DEF CallInv, IdentityInv, HoldsWrite, InRename, MayReturn, CloseSteps,
      Client
<1>6. CASE Ensure(c)
  <2>1. client'[c] = Ended(Beating([r EXCEPT !.refreshing = r.session, !.partial = FALSE]))
    BY <1>0, <1>6 DEF Ensure, Becomes
  <2> QED BY <1>0, <1>u, <2>1 DEF Ended, Beating, CallInv, IdentityInv, HoldsWrite, InRename, MayReturn, CloseSteps,
      Client
<1>7. CASE PublishFails(c)
  <2>1. client'[c] = Ended([r EXCEPT !.partial = TRUE])
    BY <1>0, <1>7 DEF PublishFails, Becomes
  <2> QED BY <1>0, <1>u, <2>1 DEF Ended, CallInv, IdentityInv, HoldsWrite, InRename, MayReturn, CloseSteps,
      Client
<1> QED BY <1>1, <1>2, <1>3, <1>4, <1>5, <1>6, <1>7

\* closeSession.
LEMMA CloseKeeps ==
  ASSUME TypeOK, NEW c \in Clients, CallInv(c), IdentityInv(c),
         \/ CloseRead(c) \/ CloseDelete(c) \/ CloseRemove(c) \/ CloseFails(c)
         \/ CloseCurrentSession(c)
  PROVE  CallInv(c)' /\ IdentityInv(c)'
<1> DEFINE r == client[c]
           s == Closing(c)
           q == [r EXCEPT !.refreshing = IF @ = s THEN None ELSE @]
<1>0. r \in Client /\ client \in [Clients -> Client] /\ None \notin Names /\ None \notin Sessions
  BY RegistryAssumption DEF TypeOK
<1>u. UNCHANGED used
  BY DEF CloseRead, CloseDelete, CloseRemove, CloseFails, CloseCurrentSession
<1>a. r.after = "undo" => s = r.new
  BY DEF Closing
<1>s. r.pc \in CloseSteps => s \in Sessions
  BY ClosingIsUsed
<1> HIDE DEF s
<1>1. CASE CloseRead(c)
  <2>1. r.pc = "close"
    BY <1>1 DEF CloseRead
  <2>2. CASE client'[c] = [q EXCEPT !.pc = r.after]
    BY <1>0, <1>u, <1>a, <2>1, <2>2 DEF CallInv, IdentityInv, HoldsWrite, InRename, MayReturn, CloseSteps,
      Client
  <2>3. CASE record[s] # None /\ client'[c] = [q EXCEPT !.pc = "delete", !.from = record[s]]
    BY <1>0, <1>u, <1>a, <2>1, <2>3 DEF CallInv, IdentityInv, HoldsWrite, InRename, MayReturn, CloseSteps,
      Client
  <2>4. q.after = r.after
    BY <1>0 DEF Client
  <2> QED BY <1>0, <1>1, <2>2, <2>3, <2>4 DEF CloseRead, Becomes, s
<1>2. CASE CloseDelete(c)
  <2>1. r.pc = "delete" /\ client'[c] = [r EXCEPT !.pc = "remove"]
    BY <1>0, <1>2 DEF CloseDelete, Goes, Becomes
  <2>2. record'[s] = None
    BY <1>2, <1>s, <2>1 DEF CloseDelete, s, CloseSteps, TypeOK
  <2>3. Closing(c)' = s
    BY <1>0, <2>1 DEF Closing, s, Client
  <2> QED BY <1>0, <1>u, <2>1, <2>2, <2>3 DEF CallInv, IdentityInv, HoldsWrite, InRename, MayReturn, CloseSteps,
      Client
<1>3. CASE CloseRemove(c)
  <2>1. r.pc = "remove" /\ client'[c] = [r EXCEPT !.pc = r.after]
    BY <1>0, <1>3 DEF CloseRemove, Goes, Becomes
  <2> QED BY <1>0, <1>u, <2>1 DEF CallInv, IdentityInv, HoldsWrite, InRename, MayReturn, CloseSteps,
      Client
<1>4. CASE CloseFails(c)
  <2>1. r.pc \in {"close", "delete", "remove", "stop"}
    BY <1>4 DEF CloseFails
  <2>2. CASE client'[c] = Ended([q EXCEPT !.partial = TRUE]) /\ r.after = "stop"
    BY <1>0, <1>u, <2>1, <2>2 DEF Ended, CallInv, IdentityInv, HoldsWrite, InRename, MayReturn, CloseSteps,
      Client
  <2>3. CASE client'[c] = [q EXCEPT !.pc = r.after] /\ r.after # "stop"
    BY <1>0, <1>u, <1>a, <2>1, <2>3 DEF CallInv, IdentityInv, HoldsWrite, InRename, MayReturn, CloseSteps,
      Client
  <2>4. q.after = r.after
    BY <1>0 DEF Client
  <2> QED BY <1>0, <1>4, <2>2, <2>3, <2>4 DEF CloseFails, Becomes, s
<1>5. CASE CloseCurrentSession(c)
  <2>1. /\ client'[c] = [r EXCEPT !.pc = "close", !.after = "stop", !.refreshing = None,
                                  !.beating = None]
        /\ r.pc = "idle" /\ r.session # None
    BY <1>0, <1>5 DEF CloseCurrentSession, Becomes
  <2> QED BY <1>0, <1>u, <2>1 DEF CallInv, IdentityInv, HoldsWrite, InRename, MayReturn, CloseSteps,
      Client
<1> QED BY <1>1, <1>2, <1>3, <1>4, <1>5

\* The other calls, and the end of a process.
LEMMA CallsKeep ==
  ASSUME TypeOK, PresenceInv, NEW c \in Clients, CallInv(c), IdentityInv(c),
         \/ \E n \in Names : AdoptIdentity(c, n)
         \/ \E s \in Sessions : Reconnect(c, s)
         \/ Stop(c) \/ Unregister(c) \/ UnregisterFails(c) \/ Crash(c)
  PROVE  CallInv(c)' /\ IdentityInv(c)'
<1> DEFINE r == client[c]
<1>0. r \in Client /\ client \in [Clients -> Client] /\ None \notin Names /\ None \notin Sessions
  BY SMTT(40), RegistryAssumption DEF TypeOK
<1>u. UNCHANGED used
  BY DEF AdoptIdentity, Reconnect, Stop, Unregister, UnregisterFails, Crash
<1>1. ASSUME NEW n \in Names, AdoptIdentity(c, n) PROVE CallInv(c)' /\ IdentityInv(c)'
  <2>1. /\ client'[c] = Beating([r EXCEPT !.name = n]) \/ client'[c] = r
        /\ r.pc = "idle" /\ r.session # None
    BY <1>0, <1>1 DEF AdoptIdentity, Becomes
  <2>2. CASE client'[c] = r
    BY <1>u, <2>1, <2>2 DEF CallInv, IdentityInv, HoldsWrite, InRename, MayReturn, CloseSteps
  <2>3. CASE client'[c] = Beating([r EXCEPT !.name = n])
    BY <1>0, <1>u, <2>1, <2>3 DEF Beating, CallInv, IdentityInv, HoldsWrite, InRename, MayReturn,
      CloseSteps, Client
  <2> QED BY <2>1, <2>2, <2>3
<1>2. ASSUME NEW s \in Sessions, Reconnect(c, s) PROVE CallInv(c)' /\ IdentityInv(c)'
  <2>1. /\ client'[c] = [Fresh EXCEPT !.session = s, !.name = record[s],
                                      !.refreshing = s, !.beating = record[s]]
        /\ record[s] # None
    BY <1>0, <1>2 DEF Reconnect, Becomes
  <2>2. s \in used
    BY <2>1 DEF PresenceInv
  <2> QED BY <1>0, <1>u, <2>1, <2>2 DEF Fresh, CallInv, IdentityInv, HoldsWrite, InRename, MayReturn, CloseSteps,
      Client
<1>3. CASE Stop(c) \/ Unregister(c) \/ Crash(c)
  <2>1. client'[c] = Fresh
    BY <1>0, <1>3 DEF Stop, Unregister, Crash, Becomes
  <2> QED BY <1>0, <1>u, <2>1 DEF Fresh, CallInv, IdentityInv, HoldsWrite, InRename, MayReturn, CloseSteps,
      Client
<1>4. CASE UnregisterFails(c)
  <2>1. /\ client'[c] = [r EXCEPT !.refreshing = None, !.beating = None, !.partial = TRUE]
        /\ r.pc = "idle"
    BY <1>0, <1>4 DEF UnregisterFails, Becomes
  <2> QED BY <1>0, <1>u, <2>1 DEF CallInv, IdentityInv, HoldsWrite, InRename, MayReturn, CloseSteps,
      Client
<1> QED BY <1>1, <1>2, <1>3, <1>4

LEMMA ClientStep ==
  ASSUME RegistryInv, [Next]_vars, NEW d \in Clients
  PROVE  CallInv(d)' /\ IdentityInv(d)'
<1>0. TypeOK /\ PresenceInv /\ \A c \in Clients : CallInv(c) /\ IdentityInv(c)
  BY DEF RegistryInv
<1>1. NoRevival
  BY SMTT(40), PresenceStep
<1>2. used \subseteq used'
  <2>1. ASSUME NEW c \in Clients, Create(c) PROVE used \subseteq used'
    BY <2>1 DEF Create
  <2>2. CASE UNCHANGED used
    BY <2>2
  <2> QED
    BY ZenonT(60), <2>1, <2>2
    DEF Next, vars, Refresh, Beat, LeaseLapses, HeartbeatLapses,
      Register, AdoptIdentity, Prune, Write, CreateFails, Migrate, Undo, UndoFails, Retire,
      Unbeat, Publish, Ensure, PublishFails, CloseRead, CloseDelete, CloseRemove,
      CloseFails, CloseCurrentSession, Stop, Unregister, UnregisterFails, Reconnect, Crash
<1>3. ASSUME NEW c \in Clients, Moves(c) PROVE CallInv(d)' /\ IdentityInv(d)'
  <2>1. CASE d = c
    BY <1>0, <1>3, <2>1, RegisterKeeps, RenameKeeps, CloseKeeps, CallsKeep DEF Moves
  <2>2. CASE d # c
    <3>1. client \in [Clients -> Client]
      BY <1>0 DEF TypeOK
    <3>2. PICK r \in Client : Becomes(c, r)
      BY <1>0, <1>3, MovesBecomes
    <3>3. UNCHANGED client[d]
      BY <2>2, <3>1, <3>2, BecomesTyped
    <3> QED BY <1>0, <1>1, <1>2, <3>3, ClientsKeep
  <2> QED BY <2>1, <2>2
<1>4. CASE UNCHANGED client
  BY <1>0, <1>1, <1>2, <1>4, ClientsKeep
<1> QED
  BY <1>3, <1>4 DEF Next, Moves, vars, Refresh, Beat, LeaseLapses, HeartbeatLapses

-----------------------------------------------------------------------------
(***************************************************************************)
(* The registry's bookkeeping.                                             *)
(***************************************************************************)

\* Client d has v, its own provisional value for n, still to publish or to undo.
Owns(d, n, v) == client[d].to = n /\ client[d].wrote = v /\ client[d].pc # "ensure"

\* The three kinds of value a name can have are different.
LEMMA Kinds ==
  /\ None \notin Provisionals /\ None \notin Completeds
  /\ \A v \in Provisionals : v \in Value /\ v.kind = "provisional" /\ v \notin Completeds
  /\ \A v \in Completeds : v \in Value /\ v.kind = "completed"
<1>1. \A v \in Provisionals : v \in Value /\ v.kind = "provisional"
  BY DEF Provisionals, Provisional, Value
<1>2. \A v \in Completeds : v \in Value /\ v.kind = "completed"
  BY DEF Completeds, Completed, Value
<1> QED BY <1>1, <1>2, RegistryAssumption

\* An owner stays one until it undoes, publishes or abandons its value.
LEMMA OwnersKept ==
  ASSUME RegistryInv, NEW c \in Clients, Moves(c), ~Undo(c), ~Publish(c),
         NEW d \in Clients, NEW n \in Names, NEW v \in Provisionals, Owns(d, n, v)
  PROVE  Owns(d, n, v)' \/ v \in abandoned'[n]
<1> DEFINE r == client[c]
<1>0. /\ TypeOK /\ CallInv(c) /\ r \in Client /\ client \in [Clients -> Client]
      /\ abandoned \in [Names -> SUBSET Value]
  BY DEF RegistryInv, TypeOK
<1>1. CASE d # c
  <2>1. PICK q \in Client : Becomes(c, q)
    BY <1>0, MovesBecomes
  <2>2. UNCHANGED client[d]
    BY <1>0, <1>1, <2>1, BecomesTyped
  <2> QED BY <2>2 DEF Owns
<1>2. CASE d = c
  <2>1. r.to = n /\ r.wrote = v /\ r.pc # "ensure"
    BY <1>2 DEF Owns
  <2>2. r.wrote # None
    BY <2>1, Kinds
  <2>3. HoldsWrite(r) \/ r.pc = "write"
    BY <1>0, <2>2 DEF CallInv
  <2>4. r.pc \in {"write", "migrate", "undo", "retire", "unbeat", "publish"} \/ (r.pc \in CloseSteps /\ r.after # "stop")
    BY <2>1, <2>3 DEF HoldsWrite, InRename
  <2>5. CASE Migrate(c) \/ Retire(c) \/ CloseDelete(c) \/ CloseRemove(c)
    <3>1. CASE Migrate(c)
      BY <1>0, <1>2, <2>1, <3>1 DEF Migrate, Becomes, Owns, Client
    <3>2. CASE Retire(c)
      BY <1>0, <1>2, <2>1, <3>2 DEF Retire, Goes, Becomes, Owns, Client
    <3>3. CASE CloseDelete(c)
      BY <1>0, <1>2, <2>1, <3>3 DEF CloseDelete, Goes, Becomes, Owns, Client
    <3>4. CASE CloseRemove(c)
      BY <1>0, <1>2, <2>1, <3>4 DEF CloseRemove, Goes, Becomes, Owns, Client
    <3> QED BY <2>5, <3>1, <3>2, <3>3, <3>4
  <2>6. CASE Unbeat(c)
    BY <1>0, <1>2, <2>1, <2>6 DEF Unbeat, Assumes, Becomes, Owns, Client
  <2>7. CASE CloseRead(c)
    <3> DEFINE q == [r EXCEPT !.refreshing = IF @ = Closing(c) THEN None ELSE @]
    <3>1. /\ q.to = r.to /\ q.wrote = r.wrote /\ q.after = r.after /\ q.after # "ensure"
          /\ q \in Client
      BY <1>0 DEF Client
    <3>2. client'[c] = [q EXCEPT !.pc = q.after]
            \/ client'[c] = [q EXCEPT !.pc = "delete", !.from = record[Closing(c)]]
      BY <1>0, <2>7 DEF CloseRead, Becomes
    <3> HIDE DEF q
    <3> QED BY <1>2, <2>1, <3>1, <3>2 DEF Owns, Client
  <2>8. CASE CloseFails(c)
    <3> DEFINE q == [r EXCEPT !.refreshing = IF @ = Closing(c) THEN None ELSE @]
    <3>1. /\ q.to = r.to /\ q.wrote = r.wrote /\ q.after = r.after /\ q.after # "ensure"
          /\ q \in Client
      BY <1>0 DEF Client
    <3>2. r.after # "stop"
      BY <2>4, <2>8 DEF CloseFails
    <3>3. client'[c] = [q EXCEPT !.pc = q.after]
      BY <1>0, <2>8, <3>1, <3>2 DEF CloseFails, Becomes
    <3> HIDE DEF q
    <3> QED BY <1>2, <2>1, <3>1, <3>3 DEF Owns, Client
  <2>9. CASE CreateFails(c) \/ UndoFails(c) \/ PublishFails(c) \/ Crash(c)
    <3>1. abandoned' = [abandoned EXCEPT ![n] = @ \cup {v}]
      BY <2>1, <2>2, <2>9 DEF CreateFails, UndoFails, PublishFails, Crash, Abandons
    <3> QED BY <1>0, <3>1
  <2>10. CASE Write(c)
    <3>1. PICK w \in Stamps :
            LET q == [r EXCEPT !.wrote = Provisional(w)]
            IN  /\ r.wrote \in {None, Provisional(w)}
                /\ \/ client'[c] = IF Renaming(c) THEN [q EXCEPT !.pc = "migrate"] ELSE Assumes(q)
                   \/ client'[c] = q
      BY <1>0, <2>10 DEF Write, Becomes
    <3>2. r.wrote = Provisional(w)
      BY <2>2, <3>1
    <3> DEFINE q == [r EXCEPT !.wrote = Provisional(w)]
    <3>3. q = r
      BY <1>0, <3>2 DEF Client
    <3>4. client'[c] \in {[r EXCEPT !.pc = "migrate"], Assumes(r), r}
      BY <3>1, <3>3
    <3> QED BY <1>0, <1>2, <2>1, <3>4 DEF Assumes, Owns, Client
  <2> QED
    BY <2>1, <2>4, <2>5, <2>6, <2>7, <2>8, <2>9, <2>10
    DEF Moves, Register, AdoptIdentity, Prune, Create, Ensure,
      CloseCurrentSession, Stop, Unregister, UnregisterFails, Reconnect, CloseSteps
<1> QED BY <1>1, <1>2

\* A name whose entries are left alone keeps its part while its owner does.
LEMMA UndoKept ==
  ASSUME NEW n \in Names, UndoInv(n),
         registry'[n] = registry[n], pending'[n] = pending[n], restore'[n] = restore[n],
         completed'[n] = completed[n], abandoned[n] \subseteq abandoned'[n],
         \A d \in Clients, v \in Provisionals : v = registry[n] /\ Owns(d, n, v) =>
           Owns(d, n, v)' \/ v \in abandoned'[n]
  PROVE  UndoInv(n)'
BY DEF UndoInv, Owns

\* A name whose entry is a completed value, or none, owes nobody an undo.
LEMMA UndoSettled ==
  ASSUME NEW n \in Names, pending'[n] \in Provisionals \cup {None},
         completed'[n] \in Completeds \cup {None}, registry'[n] = completed'[n]
  PROVE  UndoInv(n)'
BY Kinds DEF UndoInv

\* The moves that write the registry.
LEMMA WriterKeeps ==
  ASSUME RegistryInv, NEW c \in Clients, Moves(c), NEW n \in Names,
         Write(c) \/ Undo(c) \/ Publish(c)
  PROVE  UndoInv(n)'
<1> DEFINE r == client[c]
<1>0. /\ TypeOK /\ CallInv(c) /\ r \in Client /\ client \in [Clients -> Client]
      /\ UndoInv(n) /\ UNCHANGED abandoned
  BY DEF RegistryInv, TypeOK, Write, Undo, Publish
<1>1. ASSUME NEW d \in Clients, d # c PROVE UNCHANGED client[d]
  <2>1. PICK q \in Client : Becomes(c, q)
    BY <1>0, MovesBecomes
  <2> QED BY <1>0, <1>1, <2>1, BecomesTyped
<1>2. ASSUME NEW m \in Names, m # r.to PROVE ~Owns(c, m, registry[m])
  BY <1>2 DEF Owns
<1>3. CASE Write(c)
  <2>1. PICK v \in Stamps :
          LET q == [r EXCEPT !.wrote = Provisional(v)]
          IN  /\ WriteProvisional(r.to, Provisional(v))
              /\ \/ Becomes(c, IF Renaming(c) THEN [q EXCEPT !.pc = "migrate"] ELSE Assumes(q))
                 \/ Becomes(c, q)
    BY <1>3 DEF Write
  <2> DEFINE p == Provisional(v)
  <2>2. p \in Provisionals /\ UNCHANGED completed
    BY <1>3 DEF Provisionals, Write
  <2>3. client'[c].to = r.to /\ client'[c].wrote = p /\ client'[c].pc # "ensure"
    <3> DEFINE q == [r EXCEPT !.wrote = Provisional(v)]
    <3>1. q \in Client /\ q.to = r.to /\ q.wrote = p /\ q.pc = "write"
      BY ZenonT(60), <1>0, <1>3 DEF Write, Client, Value, Provisional
    <3> HIDE DEF p, q
    <3>2. client'[c] \in {[q EXCEPT !.pc = "migrate"], Assumes(q), q}
      BY <1>0, <2>1 DEF Becomes, q
    <3> QED BY <3>1, <3>2 DEF Assumes, Client
  <2>4. WriteProvisional(r.to, p)
    BY <2>1
  <2> HIDE DEF p
  <2>5. CASE n = r.to
    <3>1. registry'[n] = p /\ pending'[n] = p
      BY <1>0, <2>4, <2>5 DEF WriteProvisional, TypeOK
    <3>2. restore'[n] = IF registry[n] # None /\ registry[n] = pending[n] THEN restore[n] ELSE registry[n]
      BY <1>0, <2>4, <2>5 DEF WriteProvisional, TypeOK
    <3>3. restore'[n] = completed[n]
      BY <1>0, <3>2, Kinds DEF UndoInv
    <3>4. registry'[n] # None
      BY <2>2, <3>1, Kinds
    <3> QED BY <1>0, <2>2, <2>3, <2>5, <3>1, <3>3, <3>4 DEF UndoInv
  <2>6. CASE n # r.to
    <3>1. /\ registry'[n] = registry[n] /\ pending'[n] = pending[n] /\ restore'[n] = restore[n]
      BY <1>0, <2>4, <2>6 DEF WriteProvisional, TypeOK
    <3> QED BY <1>0, <1>1, <1>2, <2>2, <2>6, <3>1, UndoKept DEF Owns
  <2> QED BY <2>5, <2>6
<1>4. CASE Undo(c)
  <2>1. UndoRegistryWrite(r.to, r.wrote) /\ UNCHANGED completed /\ r.wrote \in Provisionals
    BY <1>0, <1>4 DEF Undo, CallInv, HoldsWrite, InRename
  <2>2. CASE n = r.to /\ registry[n] = r.wrote
    <3>1. restore[n] = completed[n]
      BY <1>0, <2>1, <2>2, Kinds DEF UndoInv
    <3>2. registry'[n] = restore[n] /\ pending'[n] = None
      BY <1>0, <2>1, <2>2 DEF UndoRegistryWrite, TypeOK
    <3> QED BY <1>0, <2>1, <3>1, <3>2, UndoSettled DEF UndoInv
  <2>3. CASE n = r.to /\ registry[n] # r.wrote
    <3>1. /\ registry'[n] = registry[n] /\ restore'[n] = restore[n]
          /\ pending'[n] = IF pending[n] = r.wrote THEN None ELSE pending[n]
      BY <1>0, <2>1, <2>3 DEF UndoRegistryWrite, TypeOK
    <3>2. CASE pending[n] # r.wrote
      <4>1. pending'[n] = pending[n]
        BY <3>1, <3>2
      <4> QED BY <1>0, <1>1, <2>1, <2>3, <3>1, <4>1, UndoKept DEF Owns
    <3>3. CASE pending[n] = r.wrote
      <4>1. registry[n] = completed[n]
        BY <1>0, <2>3, <3>3 DEF UndoInv
      <4> QED BY <1>0, <2>1, <3>1, <3>3, <4>1, UndoSettled DEF UndoInv
    <3> QED BY <3>2, <3>3
  <2>4. CASE n # r.to
    <3>1. /\ registry'[n] = registry[n] /\ pending'[n] = pending[n] /\ restore'[n] = restore[n]
      BY <1>0, <2>1, <2>4 DEF UndoRegistryWrite, TypeOK
    <3> QED BY <1>0, <1>1, <1>2, <2>1, <2>4, <3>1, UndoKept DEF Owns
  <2> QED BY <2>2, <2>3, <2>4
<1>5. CASE Publish(c)
  <2>1. PICK v \in Stamps : /\ PublishRegistration(r.to, Completed(v))
                           /\ completed' = [completed EXCEPT ![r.to] = Completed(v)]
    BY <1>5 DEF Publish
  <2> DEFINE p == Completed(v)
  <2>2. p \in Completeds
    BY DEF Completeds
  <2>3. /\ PublishRegistration(r.to, p)
        /\ completed' = [completed EXCEPT ![r.to] = p]
    BY <2>1
  <2> HIDE DEF p
  <2>4. CASE n = r.to
    <3>1. registry'[n] = p /\ completed'[n] = p /\ pending'[n] = None
      BY <1>0, <2>3, <2>4 DEF PublishRegistration, TypeOK
    <3> QED BY <2>2, <3>1, UndoSettled
  <2>5. CASE n # r.to
    <3>1. /\ registry'[n] = registry[n] /\ pending'[n] = pending[n] /\ restore'[n] = restore[n]
          /\ completed'[n] = completed[n]
      BY <1>0, <2>3, <2>5 DEF PublishRegistration, TypeOK
    <3> QED BY <1>0, <1>1, <1>2, <2>5, <3>1, UndoKept DEF Owns
  <2> QED BY <2>4, <2>5
<1> QED BY <1>3, <1>4, <1>5

LEMMA UndoStep ==
  ASSUME RegistryInv, [Next]_vars, NEW n \in Names
  PROVE  UndoInv(n)'
<1>0. TypeOK /\ UndoInv(n)
  BY DEF RegistryInv
<1>1. ASSUME NEW c \in Clients, Moves(c) PROVE UndoInv(n)'
  <2>1. CASE Write(c) \/ Undo(c) \/ Publish(c)
    BY <1>1, <2>1, WriterKeeps
  <2>2. CASE ~(Write(c) \/ Undo(c) \/ Publish(c))
    <3>1. abandoned[n] \subseteq abandoned'[n]
      <4>1. CASE Abandons(c)
        BY <1>0, <4>1 DEF Abandons, TypeOK
      <4>2. CASE UNCHANGED abandoned
        BY <4>2
      <4> QED
        BY <1>1, <4>1, <4>2
        DEF Moves, Register, AdoptIdentity, Prune, Create, Write, CreateFails, Migrate, Undo, UndoFails,
          Retire, Unbeat, Publish, Ensure, PublishFails, Crash, CloseRead, CloseDelete, CloseRemove, CloseFails,
          CloseCurrentSession, Stop, Unregister, UnregisterFails, Reconnect
    <3>2. \A d \in Clients, v \in Provisionals : v = registry[n] /\ Owns(d, n, v) =>
            Owns(d, n, v)' \/ v \in abandoned'[n]
      BY <1>1, <2>2, OwnersKept
    <3>3. CASE UNCHANGED <<registry, pending, restore, completed>>
      BY <1>0, <3>1, <3>2, <3>3, UndoKept
    <3>4. CASE \E m : /\ registry' = [registry EXCEPT ![m] = None]
                      /\ completed' = [completed EXCEPT ![m] = None]
                      /\ UNCHANGED <<pending, restore>>
      <4>1. PICK m : /\ registry' = [registry EXCEPT ![m] = None]
                     /\ completed' = [completed EXCEPT ![m] = None]
                     /\ UNCHANGED <<pending, restore>>
        BY <3>4
      <4>2. CASE n = m
        <5>1. registry'[n] = None /\ completed'[n] = None /\ pending'[n] = pending[n]
          BY <1>0, <4>1, <4>2 DEF TypeOK
        <5> QED BY <1>0, <5>1, UndoSettled DEF UndoInv
      <4>3. CASE n # m
        <5>1. /\ registry'[n] = registry[n] /\ completed'[n] = completed[n]
              /\ pending'[n] = pending[n] /\ restore'[n] = restore[n]
          BY <1>0, <4>1, <4>3 DEF TypeOK
        <5> QED BY <1>0, <3>1, <3>2, <5>1, UndoKept
      <4> QED BY <4>2, <4>3
    <3>5. CASE Retire(c) \/ Unregister(c) \/ UnregisterFails(c)
      BY <3>3, <3>4, <3>5 DEF Retire, Unregister, UnregisterFails, UnregisterScript
    <3>6. ASSUME NEW m \in Names, AdoptIdentity(c, m) PROVE UndoInv(n)'
      <4> DEFINE source == client[c].name
      <4>1. PICK v \in Stamps :
              /\ registry' = [registry EXCEPT ![m] = Completed(v), ![source] = None]
              /\ completed' = [completed EXCEPT ![m] = Completed(v), ![source] = None]
        BY <3>6 DEF AdoptIdentity
      <4> DEFINE p == Completed(v)
      <4>2. /\ p \in Completeds /\ m # source
            /\ pending' = [pending EXCEPT ![m] = None] /\ restore' = [restore EXCEPT ![m] = None]
        BY <3>6 DEF Completeds, AdoptIdentity
      <4> HIDE DEF source
      <4>3. CASE n = m
        <5>1. registry'[n] = p /\ completed'[n] = p /\ pending'[n] = None
          BY <1>0, <4>1, <4>2, <4>3 DEF TypeOK
        <5> QED BY <4>2, <5>1, UndoSettled
      <4>4. CASE n = source
        <5>1. registry'[n] = None /\ completed'[n] = None /\ pending'[n] = pending[n]
          BY <1>0, <4>1, <4>2, <4>4 DEF TypeOK
        <5> QED BY <1>0, <5>1, UndoSettled DEF UndoInv
      <4>5. CASE n # m /\ n # source
        <5>1. /\ registry'[n] = registry[n] /\ completed'[n] = completed[n]
              /\ pending'[n] = pending[n] /\ restore'[n] = restore[n]
          BY <1>0, <4>1, <4>2, <4>5 DEF TypeOK
        <5> QED BY <1>0, <3>1, <3>2, <5>1, UndoKept
      <4> QED BY <4>3, <4>4, <4>5
    <3> QED
      BY ZenonT(60), <1>1, <2>2, <3>3, <3>5, <3>6
      DEF Moves, store, Register, Prune, Create, CreateFails, Migrate, UndoFails, Unbeat, Ensure,
        PublishFails, CloseRead, CloseDelete, CloseRemove, CloseFails, CloseCurrentSession,
        Stop, Reconnect, Crash
  <2> QED BY <2>1, <2>2
<1>2. CASE UNCHANGED <<registry, pending, restore, completed, abandoned, client>>
  BY <1>0, <1>2, UndoKept DEF Owns
<1> QED
  BY <1>1, <1>2
  DEF Next, Moves, vars, store, Refresh, Beat, LeaseLapses, HeartbeatLapses

-----------------------------------------------------------------------------
(***************************************************************************)
(* The theorems.                                                           *)
(***************************************************************************)

LEMMA RegistryInit == Init => RegistryInv
<1> SUFFICES ASSUME Init PROVE RegistryInv
  OBVIOUS
<1>1. Fresh \in Client
  BY DEF Fresh, Client
<1>2. TypeOK
  BY <1>1 DEF Init, TypeOK
<1>3. PresenceInv
  BY DEF Init, PresenceInv
<1>4. ASSUME NEW c \in Clients PROVE CallInv(c) /\ IdentityInv(c)
  <2>1. client[c] = Fresh
    BY DEF Init
  <2> QED BY <2>1 DEF Fresh, CallInv, IdentityInv, HoldsWrite, InRename, MayReturn, CloseSteps
<1>5. ASSUME NEW n \in Names PROVE UndoInv(n)
  BY Kinds DEF Init, UndoInv
<1> QED BY <1>2, <1>3, <1>4, <1>5 DEF RegistryInv

LEMMA RegistryInvariant == Spec => []RegistryInv
<1>1. RegistryInv /\ [Next]_vars => RegistryInv'
  BY TypeStep, PresenceStep, ClientStep, UndoStep DEF RegistryInv
<1> QED BY <1>1, RegistryInit, PTL DEF Spec

\* Every reachable state is of the declared shape.
THEOREM TypeCorrect == Spec => []TypeOK
<1>1. RegistryInv => TypeOK
  BY DEF RegistryInv
<1> QED BY <1>1, RegistryInvariant, PTL

\* However registrations, renames, their rollbacks, unregistrations and adoptions of a
\* name overlap, an undo puts back exactly the last completed value, and a provisional
\* value in the registry has an owner or was abandoned.
THEOREM UndoRestoresCompleted == Spec => []UndoIsExact
<1>1. RegistryInv => UndoIsExact
  <2> SUFFICES ASSUME RegistryInv, NEW n \in Names
               PROVE  /\ \/ registry[n] = completed[n]
                         \/ registry[n] = pending[n] /\ restore[n] = completed[n]
                      /\ registry[n] # None /\ registry[n].kind = "provisional" =>
                           \/ registry[n] \in abandoned[n]
                           \/ \E c \in Clients : client[c].to = n /\ client[c].wrote = registry[n]
    BY DEF UndoIsExact, RollbackRestoresCompleted, ProvisionalIsOwned
  <2>1. UndoInv(n)
    BY DEF RegistryInv
  <2>2. registry[n] # None /\ registry[n].kind = "provisional" => registry[n] \in Provisionals
    BY <2>1, Kinds DEF UndoInv
  <2> QED BY <2>1, <2>2 DEF UndoInv
<1> QED BY <1>1, RegistryInvariant, PTL

\* The live sessions of a name are those whose record bears it, and a client at rest
\* refreshes its own session and beats its own name.
THEOREM PresenceIsReliable == Spec => []PresenceIsKept
<1>1. RegistryInv => PresenceIsTrue
  BY RegistryAssumption DEF RegistryInv, TypeOK, PresenceInv, PresenceIsTrue, Live
<1>2. RegistryInv => IdentityKeptAlive
  BY DEF RegistryInv, IdentityInv, MayReturn, IdentityKeptAlive
<1>3. RegistryInv => PresenceIsKept
  BY <1>1, <1>2 DEF PresenceIsKept
<1> QED BY <1>3, RegistryInvariant, PTL

\* A closed or pruned session stays closed: no step gives it a record or a lease again.
THEOREM ClosedStaysClosed == Spec => NoResurrection
<1>1. ASSUME RegistryInv, RegistryInv', [Next]_vars
      PROVE  \A s \in used : record[s] = None => record'[s] = None /\ s \notin lease'
  BY <1>1, PresenceStep DEF NoRevival, PresenceInv
<1>2. RegistryInv /\ RegistryInv' /\ [Next]_vars =>
        [\A s \in used : record[s] = None => record'[s] = None /\ s \notin lease']_vars
  BY <1>1
<1> QED BY <1>2, RegistryInvariant, PTL DEF Spec, NoResurrection

\* A session moves to another name only where no other live session bears it: the guard
\* looks at the session set, and the set lists every live session.
THEOREM AdoptionFindsNobody == Spec => AdoptionIsExclusive
<1> DEFINE Exclusive ==
       \A s \in Sessions : record[s] # None /\ record'[s] \notin {None, record[s]} =>
         \A t \in lease \ {s} : record[t] # record'[s]
<1>1. ASSUME RegistryInv, [Next]_vars PROVE Exclusive
  <2>0. TypeOK /\ PresenceInv
    BY <1>1 DEF RegistryInv
  <2>1. ASSUME NEW c \in Clients, NEW n \in Names, AdoptIdentity(c, n) PROVE Exclusive
    <3>1. members[n] \cap lease = {} /\ record' = [record EXCEPT ![client[c].session] = n]
      BY <2>1 DEF AdoptIdentity, Adoptable, Live
    <3> QED BY <2>0, <3>1 DEF PresenceInv, TypeOK
  <2>2. ASSUME NEW c \in Clients, Create(c) PROVE Exclusive
    <3>1. PICK s \in Sessions \ used : record' = [record EXCEPT ![s] = client[c].to]
      BY <2>2 DEF Create
    <3> QED BY <2>0, <3>1 DEF PresenceInv, TypeOK
  <2>3. CASE \A s \in Sessions : record'[s] \in {None, record[s]}
    BY <2>3
  <2>4. ASSUME NEW c \in Clients,
               Prune(c) \/ CreateFails(c) \/ CloseDelete(c) \/ Unregister(c) \/ UnregisterFails(c)
        PROVE  Exclusive
    BY <2>0, <2>3, <2>4 DEF Prune, PruneExpired, CreateFails, CloseDelete, Unregister,
      UnregisterFails, UnregisterScript, TypeOK
  <2>5. CASE UNCHANGED record
    BY <2>5
  <2> QED
    BY ZenonT(60), <1>1, <2>1, <2>2, <2>4, <2>5
    DEF Next, vars, store, Register, Write, Migrate, Undo, UndoFails, Retire, Unbeat, Publish,
      Ensure, PublishFails, CloseRead, CloseRemove, CloseFails, CloseCurrentSession, Stop,
      Reconnect, Refresh, Beat, Crash, LeaseLapses, HeartbeatLapses
<1>2. RegistryInv /\ [Next]_vars => [Exclusive]_vars
  BY <1>1
<1> QED BY <1>2, RegistryInvariant, PTL DEF Spec, AdoptionIsExclusive
=============================================================================
