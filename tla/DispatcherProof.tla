-------------------------- MODULE DispatcherProof --------------------------
(***************************************************************************)
(* Proofs about Dispatcher: for every set of work ids and of children,     *)
(* whatever fails, however often a listing names an id, and whether or not *)
(* fabro reports its runs, the agent begins no child beside one it could   *)
(* know of, except for a further naming in the same listing.               *)
(***************************************************************************)
EXTENDS Dispatcher, TLAPS

LEMMA InitType == Init => TypeOK
  BY DispatcherTimes DEF Init, TypeOK, Empty

LEMMA TypeStep == TypeOK /\ [Next]_vars => TypeOK'
<1> SUFFICES ASSUME TypeOK, [Next]_vars PROVE TypeOK'
  OBVIOUS
<1> USE DispatcherTimes DEF TypeOK, Empty
<1>1. CASE UNCHANGED vars
  BY <1>1 DEF vars, agentVars, childVars
<1>2. ASSUME NEW id \in WorkId, Send(id) PROVE TypeOK'
  BY <1>2 DEF Send, agentVars, childVars
<1>3. ASSUME NEW c \in Child, ChildStep(c) PROVE TypeOK'
  <2>1. CASE Register(c)
    BY <2>1 DEF Register, agentVars
  <2>2. CASE Answer(c)
    BY <2>2 DEF Answer, agentVars
  <2>3. CASE ChildEnds(c)
    BY <2>3 DEF ChildEnds, agentVars
  <2>4. QED
    BY <1>3, <2>1, <2>2, <2>3 DEF ChildStep
<1>4. CASE StartRun
  BY <1>4 DEF StartRun, agentVars, childVars
<1>5. CASE Poll
  BY <1>5 DEF Poll, agentVars, childVars
<1>6. CASE PollFails
  BY <1>6 DEF PollFails, AgentLost
<1>7. CASE Decide
  BY <1>7 DEF Decide, childVars
<1>8. CASE DecideGarbled
  BY <1>8 DEF DecideGarbled, agentVars, childVars
<1>9. ASSUME NEW id \in WorkId, Spawn(id) PROVE TypeOK'
  <2>1. todo[id] - 1 \in 0..Times
    BY <1>9 DEF Spawn
  <2>2. todo' \in [WorkId -> 0..Times]
    BY <1>9, <2>1 DEF Spawn
  <2>3. QED
    BY <1>9, <2>2 DEF Spawn
<1>10. CASE SpawnRaises
  BY <1>10 DEF SpawnRaises, AgentLost
<1>11. CASE Reply
  BY <1>11 DEF Reply, agentVars, childVars
<1>12. CASE Wait
  BY <1>12 DEF Wait, agentVars, childVars
<1>13. CASE AgentReplaced
  BY <1>13 DEF AgentReplaced, AgentLost
<1>14. CASE Stop
  BY <1>14 DEF Stop
<1>15. CASE DecideRaises
  BY <1>15 DEF DecideRaises, AgentLost
<1>16. QED
  BY <1>1, <1>2, <1>3, <1>4, <1>5, <1>6, <1>7, <1>8, <1>9, <1>10, <1>11, <1>12,
     <1>13, <1>14, <1>15 DEF Next, LoopStep

\* Every variable keeps its type.
THEOREM TypeCorrect == Spec => []TypeOK
<1>1. QED
  BY InitType, TypeStep, PTL DEF Spec

-----------------------------------------------------------------------------
LEMMA InitInv == Init => DispatchInv
  BY DEF Init, DispatchInv, OneChildPerId, Live, Empty

\* The agent process ends: what it has begun and fabro cannot report is a stray.
LEMMA LostKeepsInv ==
  ASSUME TypeOK, DispatchInv, AgentLost, cpc' = cpc, cid' = cid, twins' = twins,
         listing' \in [WorkId -> 0..Times]
  PROVE  DispatchInv'
<1> USE DispatcherTimes
<1>1. /\ tracker' = begun' \cup {id \in WorkId : todo'[id] > 0}
      /\ standing' \subseteq begun'
      /\ \A id \in WorkId : todo'[id] <= listing'[id] /\ ~(todo'[id] > 0)
      /\ todo' = Empty
  BY DEF AgentLost, Empty
<1>2. \A c \in Child : Live(c)' => cid'[c] \in WorkId
  BY DEF DispatchInv, Live
<1>3. ASSUME NEW c \in Child, Live(c)', c \notin strays' \cup twins'
      PROVE  ~(todo'[cid'[c]] > 0) /\ (Observes /\ cpc'[c] # "launching")
  BY <1>1, <1>2, <1>3 DEF AgentLost, Live
<1>4. OneChildPerId'
  BY DEF OneChildPerId, DispatchInv, AgentLost, Live
<1>5. QED
  BY <1>1, <1>2, <1>3, <1>4 DEF DispatchInv

\* A child begun in this prompt, for the first naming of its id or a further one.
LEMMA SpawnKeepsInv ==
  ASSUME TypeOK, DispatchInv, NEW id \in WorkId, Spawn(id)
  PROVE  DispatchInv'
<1> USE DispatcherTimes DEF Live
<1>1. PICK k \in Child :
        /\ cpc[k] = "free"
        /\ cpc' = [cpc EXCEPT ![k] = "launching"]
        /\ cid' = [cid EXCEPT ![k] = id]
        /\ twins' = IF todo[id] < listing[id] THEN twins \cup {k} ELSE twins
  BY DEF Spawn
<1>2. /\ cid'[k] = id
      /\ \A c \in Child \ {k} : cid'[c] = cid[c] /\ cpc'[c] = cpc[c]
  BY <1>1 DEF TypeOK
<1>3. /\ todo'[id] = todo[id] - 1 /\ todo[id] > 0 /\ todo[id] <= listing[id]
      /\ todo'[id] < listing[id]
      /\ \A i \in WorkId \ {id} : todo'[i] = todo[i]
      /\ \A i \in WorkId : todo[i] \in 0..Times /\ listing[i] \in 0..Times
  BY DEF Spawn, TypeOK, DispatchInv
<1>4. node' = "spawning" /\ listing' = listing /\ tracker' = tracker /\ strays' = strays
      /\ begun' = begun \cup {id} /\ standing' = standing \cup {id}
  BY DEF Spawn
<1>5. /\ tracker' = begun' \cup {i \in WorkId : todo'[i] > 0}
      /\ standing' \subseteq begun'
  BY <1>3, <1>4 DEF DispatchInv
<1>6. /\ \A i \in WorkId : todo'[i] <= listing'[i]
      /\ \A i \in WorkId : todo'[i] > 0 /\ todo'[i] = listing'[i] => i \notin begun'
  BY <1>3, <1>4 DEF DispatchInv
<1>7. \A c \in Child : Live(c)' => cid'[c] \in WorkId
  BY <1>2 DEF DispatchInv
<1>8. ASSUME NEW c \in Child, Live(c)', c \notin strays' \cup twins'
      PROVE  /\ todo'[cid'[c]] > 0 => todo'[cid'[c]] < listing'[cid'[c]]
             /\ cid'[c] \in begun' \/ (Observes /\ cpc'[c] # "launching")
  <2>1. CASE c = k
    BY <1>2, <1>3, <1>4, <2>1
  <2>2. CASE c # k
    <3>1. Live(c) /\ c \notin strays \cup twins /\ cid'[c] = cid[c] /\ cpc'[c] = cpc[c]
      BY <1>1, <1>2, <1>4, <1>8, <2>2
    <3>2. cid[c] \in WorkId
      BY <3>1 DEF DispatchInv
    <3>3. /\ todo[cid[c]] > 0 => todo[cid[c]] < listing[cid[c]]
          /\ cid[c] \in begun \/ (Observes /\ cpc[c] # "launching")
      BY <3>1 DEF DispatchInv
    <3>4. QED
      BY <1>3, <1>4, <3>1, <3>2, <3>3
  <2>3. QED
    BY <2>1, <2>2
<1>9. ASSUME NEW c \in Child \ {k}, Live(c), cid[c] = id, k \notin twins'
      PROVE  c \in strays \cup twins
  BY <1>1, <1>3, <1>9 DEF DispatchInv
<1>10. OneChildPerId'
  BY <1>1, <1>2, <1>4, <1>9 DEF OneChildPerId, DispatchInv
<1>11. QED
  BY <1>4, <1>5, <1>6, <1>7, <1>8, <1>10 DEF DispatchInv

\* A decision is taken on ids nothing is begun for and fabro does not report.
LEMMA DecideKeepsInv ==
  ASSUME TypeOK, DispatchInv, Decide
  PROVE  DispatchInv'
<1> USE DispatcherTimes DEF Live
<1>1. tracker = begun
  BY DEF Decide, DispatchInv, Empty
<1>2. \A id \in WorkId :
        todo'[id] = IF id \in begun \cup Reported THEN 0 ELSE listing[id]
  BY <1>1 DEF Decide
<1>3. /\ tracker' = begun' \cup {id \in WorkId : todo'[id] > 0}
      /\ standing' \subseteq begun' /\ node' = "spawning"
      /\ listing' = listing /\ begun' = begun /\ UNCHANGED childVars
  BY <1>1 DEF Decide, DispatchInv
<1>4. \A id \in WorkId : /\ todo'[id] <= listing'[id]
                         /\ todo'[id] > 0 => id \notin begun'
  BY <1>2, <1>3 DEF TypeOK
<1>5. ASSUME NEW c \in Child, Live(c), c \notin strays \cup twins
      PROVE  ~(todo'[cid[c]] > 0)
  <2>1. cid[c] \in WorkId
    BY <1>5 DEF DispatchInv
  <2>2. CASE cid[c] \in begun
    BY <1>2, <2>1, <2>2
  <2>3. CASE Observes /\ cpc[c] # "launching"
    <3>1. cpc[c] \in {"running", "answered"}
      BY <1>5, <2>3 DEF TypeOK
    <3>2. cid[c] \in Reported
      BY <2>3, <3>1 DEF Reported
    <3>3. QED
      BY <1>2, <2>1, <3>2
  <2>4. QED
    BY <1>5, <2>2, <2>3 DEF DispatchInv
<1>6. OneChildPerId'
  BY <1>3 DEF OneChildPerId, DispatchInv, childVars
<1>7. QED
  BY <1>3, <1>4, <1>5, <1>6 DEF DispatchInv, childVars

LEMMA InvStep == TypeOK /\ DispatchInv /\ [Next]_vars => DispatchInv'
<1> SUFFICES ASSUME TypeOK, DispatchInv, [Next]_vars PROVE DispatchInv'
  OBVIOUS
<1>0. TypeOK'
  BY TypeStep
<1>1. CASE UNCHANGED vars
  BY <1>1 DEF vars, agentVars, childVars, DispatchInv, OneChildPerId, Live
<1>2. ASSUME NEW id \in WorkId, Send(id) PROVE DispatchInv'
  BY <1>2 DEF Send, agentVars, childVars, DispatchInv, OneChildPerId, Live
<1>3. ASSUME NEW c \in Child, ChildStep(c) PROVE DispatchInv'
  <2> USE DEF DispatchInv, OneChildPerId, Live, TypeOK
  <2>1. CASE Register(c)
    BY <2>1 DEF Register, agentVars
  <2>2. CASE Answer(c)
    BY <2>2 DEF Answer
  <2>3. CASE ChildEnds(c)
    BY <2>3 DEF ChildEnds, agentVars
  <2>4. QED
    BY <1>3, <2>1, <2>2, <2>3 DEF ChildStep
<1>4. CASE StartRun
  BY <1>4 DEF StartRun, agentVars, childVars, DispatchInv, OneChildPerId, Live
<1>5. CASE Poll \/ DecideGarbled \/ Reply
  <2>1. /\ todo = Empty /\ UNCHANGED <<agentVars, childVars>>
    BY <1>5 DEF Poll, DecideGarbled, Reply, DispatchInv
  <2>2. /\ \A id \in WorkId : todo'[id] <= listing'[id] /\ ~(todo'[id] > 0)
        /\ \A id \in WorkId : todo[id] = 0
    BY <1>0, <2>1, DispatcherTimes DEF TypeOK, Empty, agentVars
  <2>3. QED
    BY <2>1, <2>2 DEF agentVars, childVars, DispatchInv, OneChildPerId, Live
<1>6. CASE PollFails
  BY <1>0, <1>6, LostKeepsInv DEF PollFails, TypeOK
<1>7. CASE Decide
  BY <1>7, DecideKeepsInv
<1>8. CASE DecideRaises
  BY <1>0, <1>8, LostKeepsInv DEF DecideRaises, TypeOK
<1>9. ASSUME NEW id \in WorkId, Spawn(id) PROVE DispatchInv'
  BY <1>9, SpawnKeepsInv
<1>10. CASE SpawnRaises
  BY <1>0, <1>10, LostKeepsInv DEF SpawnRaises, TypeOK
<1>11. CASE Wait
  BY <1>11 DEF Wait, agentVars, childVars, DispatchInv, OneChildPerId, Live
<1>12. CASE AgentReplaced
  BY <1>0, <1>12, LostKeepsInv DEF AgentReplaced, TypeOK
<1>13. CASE Stop
  <2>1. /\ \A id \in WorkId : todo'[id] <= listing'[id] /\ ~(todo'[id] > 0)
        /\ todo' = Empty
    BY <1>13 DEF Stop, Empty
  <2>2. QED
    BY <1>13, <2>1 DEF Stop, DispatchInv, OneChildPerId, Live
<1>14. QED
  BY <1>1, <1>2, <1>3, <1>4, <1>5, <1>6, <1>7, <1>8, <1>9, <1>10, <1>11, <1>12,
     <1>13 DEF Next, LoopStep

LEMMA InvAlways == Spec => [](TypeOK /\ DispatchInv)
<1>1. Init => TypeOK /\ DispatchInv
  BY InitType, InitInv
<1>2. TypeOK /\ DispatchInv /\ [Next]_vars => (TypeOK /\ DispatchInv)'
  BY TypeStep, InvStep
<1>3. QED
  BY <1>1, <1>2, PTL DEF Spec

\* Two children of one id run together only if one was begun by an agent process
\* that ended before fabro could report the child, or for a further naming of the id
\* in the listing that named it first (dispatch_acp_agent.py:44-49).
THEOREM NoSecondChild == Spec => []OneChildPerId
<1>1. DispatchInv => OneChildPerId
  BY DEF DispatchInv
<1>2. QED
  BY InvAlways, <1>1, PTL

\* Between prompts the tracker holds exactly what this process has begun, although
\* it records all ids of a prompt before it spawns the first.
THEOREM NothingRecordedUnbegun == Spec => []TrackerIsBegun
<1>1. DispatchInv => TrackerIsBegun
  BY DEF DispatchInv, TrackerIsBegun, Empty
<1>2. QED
  BY InvAlways, <1>1, PTL

\* A step that begins a child is a spawn, and the child is a twin unless its id is
\* new to the process.
LEMMA StandingStep ==
  ASSUME TypeOK, DispatchInv, [Next]_vars, NEW c \in Child,
         cpc[c] = "free", cpc'[c] = "launching", cid'[c] \in standing
  PROVE  c \in twins'
<1>1. ASSUME NEW id \in WorkId, Spawn(id) PROVE c \in twins'
  <2>1. PICK k \in Child :
          /\ cpc' = [cpc EXCEPT ![k] = "launching"]
          /\ cid' = [cid EXCEPT ![k] = id]
          /\ twins' = IF todo[id] < listing[id] THEN twins \cup {k} ELSE twins
    BY <1>1 DEF Spawn
  <2>2. k = c /\ id \in begun
    BY <2>1 DEF TypeOK, DispatchInv
  <2>3. todo[id] < listing[id]
    BY <1>1, <2>2, DispatcherTimes DEF Spawn, TypeOK, DispatchInv
  <2>4. QED
    BY <2>1, <2>2, <2>3
<1>2. ASSUME NEW d \in Child, ChildStep(d) PROVE FALSE
  BY <1>2 DEF ChildStep, Register, Answer, ChildEnds, TypeOK
<1>3. CASE Stop
  BY <1>3 DEF Stop
<1>4. CASE UNCHANGED cpc
  BY <1>4
<1>5. ASSUME NEW id \in WorkId, Send(id) PROVE FALSE
  BY <1>5 DEF Send, childVars
<1>6. QED
  BY <1>1, <1>2, <1>3, <1>4, <1>5
  DEF Next, LoopStep, vars, childVars, StartRun, Poll, PollFails, Decide, DecideGarbled,
      DecideRaises, SpawnRaises, Reply, Wait, AgentReplaced

\* While the message of a child it has begun is unanswered, an agent process begins
\* no other child for the id, further namings in the same listing apart
\* (DispatchTracker.cycle).
THEOREM NoRespawn == Spec => StandingNotRespawned
<1>1. TypeOK /\ DispatchInv /\ [Next]_vars =>
        [\A c \in Child :
           cpc[c] = "free" /\ cpc'[c] = "launching" /\ cid'[c] \in standing
             => c \in twins']_vars
  BY StandingStep
<1>2. QED
  BY InvAlways, <1>1, PTL DEF Spec, StandingNotRespawned
=============================================================================
