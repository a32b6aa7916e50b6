----------------------------- MODULE Dispatcher -----------------------------
(***************************************************************************)
(* The reactive dispatcher that is poured into every container:            *)
(* dispatcher.fabro, a run that cycles through its nodes poll, dispatch    *)
(* and wait, and dispatch_acp_agent.py, the process behind its dispatch    *)
(* node.  Each prompt carries the listing that poll took; the agent spawns *)
(* a detached child for every id it does not know to be in flight.         *)
(*                                                                         *)
(* What it knows are the ids its tracker has recorded, in the memory of    *)
(* the process, and the runs fabro reports with the prompt.  The listing   *)
(* is as old as the last poll and is taken as it is, an id it names twice  *)
(* included: here it is a function that counts how often it names each id. *)
(* A detached child is a run that fabro can report only some time after    *)
(* Popen has returned.                                                     *)
(*                                                                         *)
(* fabro, the inbox and the children are external.  A node without         *)
(* max_retries has one attempt (workflow.fabro:137-141), and dispatch has  *)
(* no failure edge, so an agent that dies under a prompt ends the run.     *)
(***************************************************************************)
EXTENDS Naturals

CONSTANTS
  WorkId,    \* work ids a message can carry
  None,      \* no work id
  Child,     \* bound: children alive at the same time
  Times,     \* bound: how often one listing names an id
  Observes,  \* fabro reports its runs with the prompt
  Faults     \* what may go wrong in this instance

FaultKind == {"poll", "garbled", "spawn", "child", "replaced", "stop"}

ASSUME DispatcherNone   == None \notin WorkId
ASSUME DispatcherTimes  == Times \in Nat \ {0}
ASSUME DispatcherFlags  == Observes \in BOOLEAN
ASSUME DispatcherFaults == Faults \subseteq FaultKind

VARIABLES
  inbox,    \* ids of the unanswered messages
  node,     \* the node of dispatcher.fabro, "end" when no run exists
  listing,  \* per id: how often the last poll's listing names it
  tracker,  \* DispatchTracker.in_flight
  todo,     \* per id: SPAWN decisions of this prompt still to be executed
  begun,    \* history: ids for which this agent process has begun a child
  cpc,      \* per child: free, launching (Popen returned), running (a run fabro
            \* knows), answered
  cid,      \* per child: its work id
  strays,   \* history: children nobody could know of when their agent ended
  twins,    \* history: children begun for a further naming of their id in one listing
  standing  \* history: ids in begun whose message nobody has answered since

agentVars == <<tracker, todo, begun, standing>>
childVars == <<cpc, cid, strays, twins>>
vars == <<inbox, node, listing, agentVars, childVars>>

Live(c) == cpc[c] # "free"
Empty   == [id \in WorkId |-> 0]

\* the in-flight run state that rides on the prompt
Reported ==
  IF Observes THEN {cid[c] : c \in {d \in Child : cpc[d] \in {"running", "answered"}}}
  ELSE {}

Init ==
  /\ inbox = {} /\ node = "end" /\ listing = Empty
  /\ tracker = {} /\ todo = Empty /\ begun = {} /\ standing = {}
  /\ cpc = [c \in Child |-> "free"] /\ cid = [c \in Child |-> None]
  /\ strays = {} /\ twins = {}

-----------------------------------------------------------------------------
(* Mutants: the mistakes the properties are there to catch *)

\* a tracker per prompt instead of one per process
DecideFreshTracker ==
  /\ node = "dispatch" /\ node' = "spawning"
  /\ todo' = [id \in WorkId |-> IF id \in Reported THEN 0 ELSE listing[id]]
  /\ tracker' = tracker \cup {id \in WorkId : todo'[id] > 0}
  /\ UNCHANGED <<inbox, listing, begun, standing, childVars>>

\* an id is retired as soon as fabro does not report it
DecideRetires ==
  /\ node = "dispatch" /\ node' = "spawning"
  /\ todo' = [id \in WorkId |-> IF id \in Reported THEN 0 ELSE listing[id]]
  /\ tracker' = (tracker \cap Reported) \cup {id \in WorkId : todo'[id] > 0}
  /\ UNCHANGED <<inbox, listing, begun, standing, childVars>>

\* a spawn that raises is logged and passed over
SpawnSwallows(id) ==
  /\ node = "spawning" /\ todo[id] > 0
  /\ todo' = [todo EXCEPT ![id] = @ - 1]
  /\ UNCHANGED <<inbox, node, listing, tracker, begun, standing, childVars>>

\* the handler returns after the first spawn of a prompt
SpawnFirstOnly(id) ==
  /\ node = "spawning" /\ todo[id] > 0
  /\ todo' = Empty
  /\ begun' = begun \cup {id} /\ standing' = standing \cup {id}
  /\ \E c \in Child :
       /\ cpc[c] = "free"
       /\ cpc' = [cpc EXCEPT ![c] = "launching"]
       /\ cid' = [cid EXCEPT ![c] = id]
  /\ UNCHANGED <<inbox, node, listing, tracker, strays, twins>>

-----------------------------------------------------------------------------
(* The environment: messages and children *)

Send(id) ==
  /\ id \notin inbox
  /\ inbox' = inbox \cup {id}
  /\ UNCHANGED <<node, listing, agentVars, childVars>>

\* fabro accepts the child's run
Register(c) ==
  /\ cpc[c] = "launching"
  /\ cpc' = [cpc EXCEPT ![c] = "running"]
  /\ UNCHANGED <<inbox, node, listing, agentVars, cid, strays, twins>>

\* its emit node answers the message
Answer(c) ==
  /\ cpc[c] = "running"
  /\ cpc' = [cpc EXCEPT ![c] = "answered"]
  /\ inbox' = inbox \ {cid[c]}
  /\ standing' = standing \ {cid[c]}
  /\ UNCHANGED <<node, listing, tracker, todo, begun, cid, strays, twins>>

\* A child ends, with its answer or without.  Nobody waits for the handle that
\* spawn_child returns, so the agent does not hear of it.
ChildEnds(c) ==
  /\ \/ cpc[c] = "answered"
     \/ cpc[c] \in {"launching", "running"} /\ "child" \in Faults
  /\ cpc' = [cpc EXCEPT ![c] = "free"]
  /\ cid' = [cid EXCEPT ![c] = None]
  /\ strays' = strays \ {c} /\ twins' = twins \ {c}
  /\ UNCHANGED <<inbox, node, listing, agentVars>>

-----------------------------------------------------------------------------
(* The cycle of dispatcher.fabro *)

\* The agent process ends and its tracker with it.  The children go on; those
\* fabro cannot report are known to nobody.
AgentLost ==
  /\ tracker' = {} /\ todo' = Empty /\ begun' = {} /\ standing' = {}
  /\ strays' = strays \cup {c \in Child : Live(c) /\ ~(Observes /\ cpc[c] # "launching")}

StartRun ==
  /\ node = "end" /\ node' = "poll"
  /\ UNCHANGED <<inbox, listing, agentVars, childVars>>

\* The listing names every pending id, some perhaps more than once.
Poll ==
  /\ node = "poll" /\ node' = "dispatch"
  /\ \E often \in [WorkId -> 1..Times] :
       listing' = [id \in WorkId |-> IF id \in inbox THEN often[id] ELSE 0]
  /\ UNCHANGED <<inbox, agentVars, childVars>>

\* poll -> end on outcome=failed
PollFails ==
  /\ "poll" \in Faults
  /\ node = "poll" /\ node' = "end" /\ listing' = Empty
  /\ AgentLost
  /\ UNCHANGED <<inbox, cpc, cid, twins>>

\* session/prompt: DispatchTracker.cycle decides on the whole listing against what
\* was known before the prompt, so every naming of an unknown id is a SPAWN, and
\* records the ids before the first SPAWN is executed.
Decide ==
  /\ node = "dispatch" /\ node' = "spawning"
  /\ todo' = [id \in WorkId |-> IF id \in tracker \cup Reported THEN 0 ELSE listing[id]]
  /\ tracker' = tracker \cup {id \in WorkId : todo'[id] > 0}
  /\ UNCHANGED <<inbox, listing, begun, standing, childVars>>

\* No block of the prompt is JSON: the context is empty, and so are the decisions.
DecideGarbled ==
  /\ "garbled" \in Faults
  /\ node = "dispatch" /\ node' = "spawning" /\ listing' = Empty
  /\ UNCHANGED <<inbox, agentVars, childVars>>

\* A block is JSON and not an object, or its lists are not lists: _parse_context or
\* decide raises, nothing catches it, and main ends with the prompt unanswered.
DecideRaises ==
  /\ "garbled" \in Faults
  /\ node = "dispatch" /\ node' = "end" /\ listing' = Empty
  /\ AgentLost
  /\ UNCHANGED <<inbox, cpc, cid, twins>>

\* spawn_child: the child's config is written and `fabro run --detach` started
Spawn(id) ==
  /\ node = "spawning" /\ todo[id] > 0
  /\ todo' = [todo EXCEPT ![id] = @ - 1]
  /\ begun' = begun \cup {id} /\ standing' = standing \cup {id}
  /\ \E c \in Child :
       /\ cpc[c] = "free"
       /\ cpc' = [cpc EXCEPT ![c] = "launching"]
       /\ cid' = [cid EXCEPT ![c] = id]
       /\ twins' = IF todo[id] < listing[id] THEN twins \cup {c} ELSE twins
  /\ UNCHANGED <<inbox, node, listing, tracker, strays>>

\* open or Popen raises: nothing catches it, and main ends with the prompt
\* unanswered
SpawnRaises ==
  /\ "spawn" \in Faults
  /\ node = "spawning" /\ todo # Empty /\ node' = "end" /\ listing' = Empty
  /\ AgentLost
  /\ UNCHANGED <<inbox, cpc, cid, twins>>

\* dispatch -> wait, when the agent has answered the prompt
Reply ==
  /\ node = "spawning" /\ todo = Empty /\ node' = "wait" /\ listing' = Empty
  /\ UNCHANGED <<inbox, agentVars, childVars>>

\* the back-edge wait -> poll
Wait ==
  /\ node = "wait" /\ node' = "poll"
  /\ UNCHANGED <<inbox, listing, agentVars, childVars>>

\* fabro starts the agent anew between two prompts
AgentReplaced ==
  /\ "replaced" \in Faults
  /\ node \in {"poll", "dispatch", "wait"}
  /\ AgentLost
  /\ UNCHANGED <<inbox, node, listing, cpc, cid, twins>>

\* The container is stopped: run, agent and children are gone.
Stop ==
  /\ "stop" \in Faults
  /\ node' = "end" /\ listing' = Empty
  /\ tracker' = {} /\ todo' = Empty /\ begun' = {} /\ standing' = {}
  /\ strays' = {} /\ twins' = {}
  /\ cpc' = [c \in Child |-> "free"] /\ cid' = [c \in Child |-> None]
  /\ UNCHANGED inbox

LoopStep ==
  \/ Poll \/ PollFails \/ Decide \/ DecideGarbled \/ DecideRaises
  \/ (\E id \in WorkId : Spawn(id)) \/ SpawnRaises \/ Reply \/ Wait

ChildStep(c) == Register(c) \/ Answer(c) \/ ChildEnds(c)

Next ==
  \/ \E id \in WorkId : Send(id)
  \/ \E c \in Child : ChildStep(c)
  \/ StartRun \/ LoopStep \/ AgentReplaced \/ Stop

Spec == Init /\ [][Next]_vars

\* The run and its children go on; not every prompt is garbled.  Nothing is asked
\* of who starts a run.
FairSpec ==
  /\ Spec
  /\ WF_vars(LoopStep) /\ SF_vars(Decide)
  /\ \A c \in Child : WF_vars(ChildStep(c))

-----------------------------------------------------------------------------
\* The variables have their types.
TypeOK ==
  /\ inbox \subseteq WorkId
  /\ node \in {"end", "poll", "dispatch", "spawning", "wait"}
  /\ listing \in [WorkId -> 0..Times] /\ todo \in [WorkId -> 0..Times]
  /\ tracker \subseteq WorkId /\ begun \subseteq WorkId /\ standing \subseteq WorkId
  /\ cpc \in [Child -> {"free", "launching", "running", "answered"}]
  /\ cid \in [Child -> WorkId \cup {None}]
  /\ strays \subseteq Child /\ twins \subseteq Child

\* "the two cannot collide on the shared per-WORK_ID git worktree" (decide): two
\* children of one id run at the same time only when one of them was begun by an
\* agent process that ended before fabro could report the child, or when one listing
\* named the id more than once: decide does not add an id to its in-flight set when
\* it decides SPAWN (dispatch_acp_agent.py:44-49), so each naming begins a child.
OneChildPerId ==
  \A c, d \in Child :
    Live(c) /\ Live(d) /\ cid[c] = cid[d] /\ c # d => {c, d} \cap (strays \cup twins) # {}

\* All ids of a prompt are recorded before the first is spawned.  Still no id
\* stays recorded without a child: between prompts the tracker holds exactly the
\* ids this process has begun a child for, since a spawn that raises ends it.
TrackerIsBegun == node # "spawning" => tracker = begun

\* "a work id that stays pending across cycles ... is SKIPped on every cycle after
\* the first rather than re-spawned" (DispatchTracker): while the message of a child
\* this process has begun is unanswered, the process begins another child for that id
\* only for a further naming in the same listing, whatever became of the first.
StandingNotRespawned ==
  [][\A c \in Child :
       cpc[c] = "free" /\ cpc'[c] = "launching" /\ cid'[c] \in standing => c \in twins']_vars

\* An id that is pending is not forgotten by the loop: it is answered, or the
\* agent process has begun a child for it, or the run ends.  Since nothing calls
\* retire, the second is for the life of the process: a message that its child
\* did not answer, or that reuses the id, is not taken up again by this process.
EventuallyBegun ==
  \A id \in WorkId : id \in inbox ~> (id \notin inbox \/ id \in begun \/ node = "end")

\* Inductive strengthening: the tracker holds what was begun and what is about to
\* be; an id with decisions left was not begun before this prompt; a child that is
\* no stray and no twin is one of this process or one fabro reports.
DispatchInv ==
  /\ tracker = begun \cup {id \in WorkId : todo[id] > 0}
  /\ standing \subseteq begun
  /\ \A id \in WorkId : todo[id] <= listing[id]
  /\ \A id \in WorkId : todo[id] > 0 /\ todo[id] = listing[id] => id \notin begun
  /\ node # "spawning" => todo = Empty
  /\ \A c \in Child : Live(c) /\ c \notin strays \cup twins =>
       /\ todo[cid[c]] > 0 => todo[cid[c]] < listing[cid[c]]
       /\ cid[c] \in begun \/ (Observes /\ cpc[c] # "launching")
  /\ \A c \in Child : Live(c) => cid[c] \in WorkId
  /\ OneChildPerId
=============================================================================
