----------------------------- MODULE WorkIntake -----------------------------
(***************************************************************************)
(* What the watcher supervisor promises of message intake, without its     *)
(* locks, its drain or its watch stream: at any time at most one child     *)
(* runs under a name, a message leaves the inbox only by the answer of a   *)
(* child that runs for it, and a container that goes down takes its        *)
(* children with it and no message.                                        *)
(***************************************************************************)
CONSTANTS WorkId, Key, NameOf, None

VARIABLES
  inbox,  \* ids of the unanswered messages
  busy    \* per name: the id whose child runs under it, or None

Idle == [k \in Key |-> None]

Init == inbox = {} /\ busy = Idle

Arrive(id) == inbox' = inbox \cup {id} /\ UNCHANGED busy

\* A child may begin for an id that was answered meanwhile: the supervisor acts
\* on a listing it took earlier.
Begin(id) ==
  /\ busy[NameOf[id]] = None
  /\ busy' = [busy EXCEPT ![NameOf[id]] = id]
  /\ UNCHANGED inbox

Answered(id) ==
  /\ busy[NameOf[id]] = id
  /\ inbox' = inbox \ {id}
  /\ UNCHANGED busy

Finish(k) ==
  /\ busy[k] # None
  /\ busy' = [busy EXCEPT ![k] = None]
  /\ UNCHANGED inbox

Halt == busy' = Idle /\ UNCHANGED inbox

Next ==
  \/ \E id \in WorkId : Arrive(id) \/ Begin(id) \/ Answered(id)
  \/ \E k \in Key : Finish(k)
  \/ Halt

Spec == Init /\ [][Next]_<<inbox, busy>>
=============================================================================
