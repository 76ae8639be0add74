--------------------------- MODULE ActorDirectory ---------------------------
(***************************************************************************)
(* The durable actor directory: ActorDirectory.register of                 *)
(* src/core/actor-directory.ts, the tool actor_register and the script     *)
(* actor-conditional-set.lua.                                              *)
(*                                                                         *)
(* A registration reads the stored record, compares its owner with the     *)
(* calling session and writes conditionally, at most twice, while other    *)
(* sessions register the same actor, the operator edits the launch policy  *)
(* and the stored record may be damaged.  Actors are independent fields of *)
(* one hash, so one actor is enough.                                       *)
(***************************************************************************)
EXTENDS Integers

CONSTANTS
    Calls,     \* actor_register calls
    Sessions,  \* the sessions that make them
    Launches,  \* launch contracts
    None

VARIABLES
    stored,   \* the actor's field: None or a record
    allowed,  \* the launches the operator's policy allows
    call

vars == <<stored, allowed, call>>

\* registered_by, the launch of a wake_if_offline actor, and whether the record
\* passes the read admission.  A garbled value has no owner the script can read.
Record == [owner : Sessions \cup {None}, launch : Launches \cup {None}, sound : BOOLEAN]

Attempts == 2

Init ==
    /\ stored = None
    /\ allowed \in SUBSET Launches
    /\ call = [c \in Calls |-> [at |-> "idle", by |-> None, launch |-> None, attempt |-> 0]]

Answered(c, answer) == call' = [call EXCEPT ![c].at = answer]

-----------------------------------------------------------------------------
\* bindSession and admission.  wake is the activation policy wake_if_offline,
\* which requires a launch; a store_only actor's launch is not looked at.
Begin(c, s, wake, launch) ==
    /\ call[c].at = "idle"
    /\ call' = [call EXCEPT ![c] =
         [at |-> IF ~wake THEN "read" ELSE IF launch = None THEN "invalid" ELSE "policy",
          by |-> s, launch |-> launch, attempt |-> 1]]
    /\ UNCHANGED <<stored, allowed>>

\* The profile fails admitActorProfile.
Reject(c) ==
    /\ call[c].at = "idle"
    /\ Answered(c, "invalid")
    /\ UNCHANGED <<stored, allowed>>

\* evaluateLaunchPolicy, which reads the operator's allowlist.
EvaluateLaunchPolicy(c) ==
    /\ call[c].at = "policy"
    /\ Answered(c, IF call[c].launch \in allowed THEN "read" ELSE "disallowed")
    /\ UNCHANGED <<stored, allowed>>

\* Mutant: the owner is left to the script, and a lost race is retried for ever.
ReadRecord_RetriesForever(c) ==
    /\ call[c].at = "read"
    /\ Answered(c, IF stored # None /\ ~stored.sound THEN "corrupt" ELSE "write")
    /\ UNCHANGED <<stored, allowed>>

\* readRecord, at the head of each attempt and once more after the last: a
\* damaged record or a foreign owner ends the call.
ReadRecord(c) ==
    /\ call[c].at = "read"
    /\ Answered(c, IF stored # None /\ ~stored.sound THEN "corrupt"
                   ELSE IF stored # None /\ stored.owner # call[c].by THEN "elsewhere"
                   ELSE IF call[c].attempt <= Attempts THEN "write" ELSE "raced")
    /\ UNCHANGED <<stored, allowed>>

\* Mutant: the script writes what the earlier read allowed.
Writable_Always(by) == TRUE

\* The script's precondition.
Writable(by) == stored = None \/ stored.owner = by

\* conditionalSet, and the next attempt when its precondition failed.
ConditionalSet(c) ==
    /\ call[c].at = "write"
    /\ IF Writable(call[c].by)
       THEN /\ stored' = [owner |-> call[c].by, launch |-> call[c].launch, sound |-> TRUE]
            /\ Answered(c, "ok")
       ELSE /\ call' = [call EXCEPT ![c].at = "read", ![c].attempt = @ + 1]
            /\ UNCHANGED stored
    /\ UNCHANGED allowed

\* The operator edits the allowlist.
EditPolicy ==
    /\ allowed' \in (SUBSET Launches) \ {allowed}
    /\ UNCHANGED <<stored, call>>

\* The stored value is damaged from outside: a part that fails admission, or
\* all of it.
Damage ==
    /\ stored # None /\ stored.sound
    /\ \E owner \in {stored.owner, None} :
          stored' = [stored EXCEPT !.sound = FALSE, !.owner = owner]
    /\ UNCHANGED <<allowed, call>>

Next ==
    \/ \E c \in Calls : \/ \E s \in Sessions, wake \in BOOLEAN, l \in Launches \cup {None} :
                              Begin(c, s, wake, l)
                        \/ Reject(c) \/ EvaluateLaunchPolicy(c)
                        \/ ReadRecord(c) \/ ConditionalSet(c)
    \/ EditPolicy
    \/ Damage

Spec == Init /\ [][Next]_vars

-----------------------------------------------------------------------------
(* Properties *)

\* The record and the calls are well formed, and a call makes at most two
\* attempts.
TypeOK ==
    /\ stored \in Record \cup {None}
    /\ allowed \subseteq Launches
    /\ call \in [Calls -> [at : {"idle", "policy", "read", "write", "ok", "invalid",
                                 "disallowed", "corrupt", "elsewhere", "raced"},
                           by : Sessions \cup {None}, launch : Launches \cup {None},
                           attempt : 0..Attempts + 1]]
    /\ \A c \in Calls : call[c].at \in {"policy", "read", "write", "ok", "elsewhere"}
                          => call[c].by \in Sessions

\* The session that first registered an actor owns its profile for good: no
\* interleaving of registrations that read before it changes the owner.
OwnerForever ==
    [][stored # None /\ stored.sound => stored' # None /\ stored'.owner \in {stored.owner, None}]_vars

\* An answer is still true when it arrives: after ok the actor is the caller's,
\* after actor_owned_elsewhere it is another's, unless the record was damaged.
AnswerIsTrue ==
    stored # None /\ stored.owner # None => \A c \in Calls :
        /\ call[c].at = "ok" => stored.owner = call[c].by
        /\ call[c].at = "elsewhere" => stored.owner # call[c].by

\* A write that lost its race is explained by the re-read: the second attempt
\* never writes, so the retry is never exhausted and the answer "registered
\* concurrently; re-read and retry" is never given.
RaceIsExplained == \A c \in Calls : call[c].attempt >= 2 => call[c].at \notin {"write", "raced"}

=============================================================================
