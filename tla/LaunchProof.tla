----------------------------- MODULE LaunchProof -----------------------------
(***************************************************************************)
(* What holds of Launch for every set of commands and requests, every      *)
(* choice of images and every fault: the types, that only a launch whose   *)
(* container has been replaced provisions a mounted tree, that a launch    *)
(* that succeeds is ready, and that what is left alone recovers.           *)
(***************************************************************************)
EXTENDS Launch, TLAPS

ProvisionSteps == {"ca", "clone", "tracker", "refresh", "final"}
EngageSteps    == {"wiring", "db", "vault", "engage", "wait"}
LaunchSteps    == {"network", "create", "source", "image", "run"} \cup ProvisionSteps

\* What a command's step says of what it was asked for and of the container it started
Stage(c) ==
  /\ mine[c] <= id
  /\ pc[c] \in {"check", "network", "create", "source", "image", "run", "remove"} => mine[c] = 0
  /\ pc[c] \in LaunchSteps => req[c].cmd = "launch"
  /\ pc[c] \in EngageSteps \cup {"check"} => req[c].cmd # "stop"
  /\ pc[c] = "remove" => req[c].cmd = "stop"
  /\ pc[c] \in {"image", "run"} => req[c].source # "none"
  /\ pc[c] \in ProvisionSteps => req[c].source = "clone"
  /\ pc[c] = "wait" => req[c].tier = "tmux"

StageInv == \A c \in Cmd : Stage(c)

\* The workspace is there, as far as command c is concerned
Past(c) ==
  \/ pc[c] \in {"tracker", "refresh", "final"} \cup EngageSteps
  \/ pc[c] = "idle" /\ exit[c] = "ok"

\* ... and so is what the template refresh could pour into it
Refreshed(c) ==
  \/ pc[c] \in {"final"} \cup EngageSteps
  \/ pc[c] = "idle" /\ exit[c] = "ok"

Own(c) == mine[c] = id /\ id > 0

\* The tier runs, or there was no definition for it
Engaged(c) ==
  \/ req[c].tier \in agents
  \/ req[c].tier = "fabro" /\ ~req[c].carried /\ (req[c].source = "mount" \/ unpoured)

\* In its own container a launch does not meet a mount it has not made, finds what it
\* has provisioned, and leaves its tier running
OwnFinds(c) ==
  /\ mine[c] = id /\ pc[c] \in ProvisionSteps => tree # "mount"
  /\ Own(c) /\ Up /\ Past(c) => tree = req[c].source /\ (req[c].carried => def)
  /\ Own(c) /\ Up /\ Refreshed(c) /\ req[c].source = "clone" => def \/ unpoured
  /\ Own(c) /\ Up /\ pc[c] = "idle" /\ exit[c] = "ok" => Engaged(c)

OwnInv == \A c \in Cmd : OwnFinds(c)

\* In an image of root's, a path of root's in a clone has a final chown still to come if
\* nobody was killed; in another image something has run as root
RootInv ==
  /\ user = "root" /\ Up /\ rooted /\ tree = "clone" /\ ~cut
       => \E d \in Cmd : pc[d] \in {"tracker", "refresh", "final"}
  /\ user # "root" /\ rooted => rerooted

Alone(c) == \A o \in Cmd \ {c} : pc[o] = "idle"

\* What a command that nothing interferes with finds at each step
CleanFinds(c) ==
  clean[c] =>
    /\ Alone(c) /\ req[c].cmd # "stop"
    /\ req[c].cmd = "launch" /\ pc[c] \in {"check", "network", "create", "source", "image", "run"}
         => status = "absent"
    /\ pc[c] = "create" => ~network
    /\ pc[c] \in {"source", "image", "run"} => network \/ ~req[c].derived
    /\ pc[c] \in {"ca", "clone"} => tree = "empty" /\ (rooted => user = "root")
    /\ pc[c] \in ProvisionSteps \cup EngageSteps => Up
    /\ req[c].cmd = "start-agent" /\ pc[c] = "check" => Up
    /\ pc[c] = "wait" => "tmux" \in agents

Recovered(c) ==
  clean[c] /\ At(c, "idle") =>
    \/ exit[c] = "ok" /\ Up /\ (req[c].cmd = "start-agent" => "tmux" \in agents)
    \/ req[c].cmd = "launch" /\ (req[c].source = "none" \/ (~req[c].derived /\ ~network))

CleanInv ==
  /\ stopped /\ Quiet => status = "absent"
  /\ \A c \in Cmd : CleanFinds(c) /\ Recovered(c)

LaunchInv == StageInv /\ OwnInv /\ RootInv /\ CleanInv
-----------------------------------------------------------------------------
(* Types *)

\* How a step moves the command and what it does to its history
Goes(c)  == \E p \in Steps : Goto(c, p)
Ends(c)  == \E x \in {"ok", "failed", "raised"} : End(c, x)
Marks(c) == clean' = clean \/ clean' = [clean EXCEPT ![c] = FALSE]

ControlTypeOK ==
  /\ pc \in [Cmd -> Steps \cup {"idle"}] /\ stopped \in BOOLEAN
  /\ exit \in [Cmd -> {"none", "ok", "failed", "raised"}] /\ clean \in [Cmd -> BOOLEAN]

DockerTypeOK ==
  /\ network \in BOOLEAN /\ status \in {"absent", "running", "exited"} /\ id \in 0..MaxRuns
  /\ user \in Users

TreeTypeOK ==
  /\ tree \in {"empty", "clone", "mount", "other"}
  /\ rooted \in BOOLEAN /\ def \in BOOLEAN /\ touched \in BOOLEAN /\ cut \in BOOLEAN
  /\ rerooted \in BOOLEAN /\ unpoured \in BOOLEAN

AgentsTypeOK == agents \subseteq {"tmux", "fabro"} /\ (status # "running" => agents = {})

BooksTypeOK == req \in [Cmd -> Requests] /\ mine \in [Cmd -> 0..MaxRuns]

WorldTypeOK == DockerTypeOK /\ TreeTypeOK /\ AgentsTypeOK /\ BooksTypeOK

LEMMA Types == TypeOK <=> ControlTypeOK /\ WorldTypeOK
BY DEF TypeOK, ControlTypeOK, WorldTypeOK, DockerTypeOK, TreeTypeOK, AgentsTypeOK, BooksTypeOK, Up

\* What does not change keeps its type
LEMMA Untouched ==
  ASSUME WorldTypeOK
  PROVE  /\ UNCHANGED dockerVars => DockerTypeOK'
         /\ UNCHANGED <<tree, rooted, def, marks>> => TreeTypeOK'
         /\ UNCHANGED <<status, agents>> => AgentsTypeOK'
         /\ UNCHANGED <<req, mine>> => BooksTypeOK'
<1>1. UNCHANGED dockerVars => DockerTypeOK'
  BY DEF WorldTypeOK, DockerTypeOK, dockerVars
<1>2. UNCHANGED <<tree, rooted, def, marks>> => TreeTypeOK'
  BY DEF WorldTypeOK, TreeTypeOK, marks
<1>3. UNCHANGED <<status, agents>> => AgentsTypeOK'
  BY DEF WorldTypeOK, AgentsTypeOK
<1>4. UNCHANGED <<req, mine>> => BooksTypeOK'
  BY DEF WorldTypeOK, BooksTypeOK
<1>. QED
  BY <1>1, <1>2, <1>3, <1>4

LEMMA FaultMarks ==
  ASSUME NEW c \in Cmd, NEW f, Fault(c, f) \/ Smooth
  PROVE  Marks(c)
BY DEF Fault, Smooth, Marks

LEMMA GotoGoes ==
  ASSUME NEW c \in Cmd, NEW p \in Steps, Goto(c, p)
  PROVE  Goes(c)
BY DEF Goes

LEMMA EndEnds ==
  ASSUME NEW c \in Cmd, End(c, "ok") \/ End(c, "failed") \/ End(c, "raised")
  PROVE  Ends(c)
BY DEF Ends

LEMMA ControlType ==
  ASSUME ControlTypeOK, NEW c \in Cmd, Goes(c) \/ Ends(c), Marks(c)
  PROVE  ControlTypeOK'
<1>1. clean' \in [Cmd -> BOOLEAN]
  BY DEF Marks, ControlTypeOK
<1>2. CASE Goes(c)
  <2>1. PICK p \in Steps : Goto(c, p)
    BY <1>2 DEF Goes
  <2>2. pc' = [pc EXCEPT ![c] = p] /\ UNCHANGED <<exit, stopped>>
    BY <2>1 DEF Goto
  <2>3. pc' \in [Cmd -> Steps \cup {"idle"}]
    BY <2>2 DEF ControlTypeOK
  <2>. QED
    BY <1>1, <2>2, <2>3 DEF ControlTypeOK
<1>3. CASE Ends(c)
  <2>1. PICK x \in {"ok", "failed", "raised"} : End(c, x)
    BY <1>3 DEF Ends
  <2>2. /\ pc' = [pc EXCEPT ![c] = "idle"] /\ exit' = [exit EXCEPT ![c] = x]
        /\ stopped' \in BOOLEAN
    BY <2>1 DEF End
  <2>3. pc' \in [Cmd -> Steps \cup {"idle"}]
    BY <2>2 DEF ControlTypeOK
  <2>4. exit' \in [Cmd -> {"none", "ok", "failed", "raised"}]
    BY <2>2 DEF ControlTypeOK
  <2>. QED
    BY <1>1, <2>2, <2>3, <2>4 DEF ControlTypeOK
<1>. QED
  BY <1>2, <1>3

\* Every step moves its own command on, or ends it, and at most takes its cleanness
LEMMA StepControls ==
  ASSUME NEW c \in Cmd, Step(c)
  PROVE  (Goes(c) \/ Ends(c)) /\ Marks(c)
<1>. USE GotoGoes, EndEnds, FaultMarks
<1>a. AfterProvisioning(c) \in {"wiring", "db"} /\ AfterRun(c) \in {"ca", "wiring", "db"}
  BY DEF AfterProvisioning, AfterRun
<1>b. /\ {"network", "create", "source", "image", "run", "ca", "clone", "tracker", "refresh"} \subseteq Steps
      /\ {"final", "wiring", "db", "vault", "engage", "wait"} \subseteq Steps
  BY DEF Steps
<1>1. CASE Check(c)
  BY <1>1, <1>b DEF Check
<1>2. CASE Network(c)
  BY <1>2, <1>b DEF Network
<1>3. CASE Create(c)
  BY <1>3, <1>b DEF Create
<1>4. CASE ResolveSource(c)
  BY <1>4, <1>b DEF ResolveSource
<1>5. CASE Image(c)
  BY <1>5, <1>b DEF Image
<1>6. CASE Run(c)
  BY <1>6, <1>a, <1>b DEF Run
<1>7. CASE CaPrep(c)
  BY <1>7, <1>b DEF CaPrep
<1>8. CASE Clone(c)
  BY <1>8, <1>b DEF Clone
<1>9. CASE Tracker(c)
  BY <1>9, <1>b DEF Tracker
<1>10. CASE Refresh(c)
  BY <1>10, <1>b DEF Refresh
<1>11. CASE FinalChown(c)
  BY <1>11, <1>a, <1>b DEF FinalChown
<1>12. CASE Wiring(c)
  BY <1>12, <1>b DEF Wiring
<1>13. CASE DbBarrier(c)
  BY <1>13, <1>b DEF DbBarrier, Barrier
<1>14. CASE VaultBarrier(c)
  BY <1>14, <1>b DEF VaultBarrier, Barrier
<1>15. CASE Engage(c)
  BY <1>15, <1>b DEF Engage
<1>16. CASE Wait(c)
  BY <1>16, <1>b DEF Wait
<1>17. CASE Remove(c)
  BY <1>17 DEF Remove
<1>. QED
  BY <1>1, <1>2, <1>3, <1>4, <1>5, <1>6, <1>7, <1>8, <1>9, <1>10, <1>11, <1>12, <1>13, <1>14,
      <1>15, <1>16, <1>17 DEF Step

\* A step that only asks leaves the world as it is
Asks(c) ==
  \/ Check(c) \/ Network(c) \/ ResolveSource(c) \/ Image(c) \/ CaPrep(c) \/ Wiring(c)
  \/ DbBarrier(c) \/ VaultBarrier(c) \/ Wait(c)

LEMMA AsksOnly ==
  ASSUME NEW c \in Cmd, Asks(c)
  PROVE  UNCHANGED <<dockerVars, boxVars, req, mine>>
BY DEF Asks, Check, Network, ResolveSource, Image, CaPrep, Wiring, DbBarrier, VaultBarrier,
       Barrier, Wait

LEMMA StepType ==
  ASSUME TypeOK, NEW c \in Cmd, Step(c)
  PROVE  TypeOK'
<1>0. ControlTypeOK /\ WorldTypeOK
  BY Types
<1>1. ControlTypeOK'
  BY <1>0, StepControls, ControlType
<1>. SUFFICES WorldTypeOK'
  BY <1>1 DEF TypeOK, ControlTypeOK, WorldTypeOK, DockerTypeOK, TreeTypeOK, AgentsTypeOK,
              BooksTypeOK, Up
<1>2. CASE Asks(c)
  <2>1. UNCHANGED <<dockerVars, boxVars, req, mine>>
    BY <1>2, AsksOnly
  <2>2. /\ UNCHANGED dockerVars /\ UNCHANGED <<tree, rooted, def, marks>>
        /\ UNCHANGED <<status, agents>> /\ UNCHANGED <<req, mine>>
    BY <2>1 DEF dockerVars, boxVars, marks
  <2>. QED
    BY <1>0, <2>2, Untouched DEF WorldTypeOK
<1>3. CASE Create(c)
  <2>1. network' \in BOOLEAN /\ UNCHANGED <<status, id, user, boxVars, req, mine>>
    BY <1>0, <1>3 DEF Create, WorldTypeOK, DockerTypeOK
  <2>2. /\ UNCHANGED <<tree, rooted, def, marks>>
        /\ UNCHANGED <<status, agents>> /\ UNCHANGED <<req, mine>>
    BY <2>1 DEF boxVars, marks
  <2>3. DockerTypeOK'
    BY <1>0, <2>1 DEF WorldTypeOK, DockerTypeOK
  <2>. QED
    BY <1>0, <2>2, <2>3, Untouched DEF WorldTypeOK
<1>4. CASE Run(c)
  <2>1. UNCHANGED <<network, agents, req>>
    BY <1>4 DEF Run
  <2>2. status' \in {"absent", "running", "exited"} /\ user' \in Users
    BY <1>0, <1>4 DEF Run, WorldTypeOK, DockerTypeOK
  <2>3. id' \in 0..MaxRuns
    BY <1>0, <1>4, MaxRunsAssumption DEF Run, WorldTypeOK, DockerTypeOK
  <2>4. DockerTypeOK'
    BY <1>0, <2>1, <2>2, <2>3 DEF WorldTypeOK, DockerTypeOK
  <2>5. mine' = mine \/ (mine' = [mine EXCEPT ![c] = id + 1] /\ id + 1 \in 0..MaxRuns)
    BY <1>0, <1>4, MaxRunsAssumption DEF Run, WorldTypeOK, DockerTypeOK
  <2>6. BooksTypeOK'
    BY <1>0, <2>1, <2>5 DEF WorldTypeOK, BooksTypeOK
  <2>7. tree' \in {"empty", "clone", "mount", "other"} /\ rooted' \in BOOLEAN
    BY <1>0, <1>4 DEF Run, WorldTypeOK, TreeTypeOK
  <2>c. req[c].carried \in BOOLEAN
    BY <1>0, RequestAssumption DEF WorldTypeOK, BooksTypeOK, Request
  <2>8. /\ def' \in BOOLEAN /\ touched' \in BOOLEAN /\ cut' \in BOOLEAN
        /\ rerooted' \in BOOLEAN /\ unpoured' \in BOOLEAN
    BY <1>0, <1>4, <2>c DEF Run, WorldTypeOK, TreeTypeOK, marks
  <2>9. AgentsTypeOK'
    <3>1. status' = status \/ status # "running"
      BY <1>4 DEF Run
    <3>. QED
      BY <1>0, <2>1, <3>1 DEF WorldTypeOK, AgentsTypeOK
  <2>. QED
    BY <2>4, <2>6, <2>7, <2>8, <2>9 DEF WorldTypeOK, TreeTypeOK
<1>5. CASE Clone(c) \/ Tracker(c) \/ Refresh(c) \/ FinalChown(c)
  <2>1. UNCHANGED <<dockerVars, agents, cut, req, mine>>
    BY <1>5 DEF Clone, Tracker, Refresh, FinalChown
  <2>c. req[c].carried \in BOOLEAN
    BY <1>0, RequestAssumption DEF WorldTypeOK, BooksTypeOK, Request
  <2>2. touched' \in BOOLEAN
    BY <1>5 DEF Clone, Tracker, Refresh, FinalChown, Provisions
  <2>3. rooted' \in BOOLEAN
    <3>1. Chowned \in BOOLEAN
      BY DEF Chowned
    <3>2. Reroot(Chowned) \/ Reroot(FALSE) => rooted' \in BOOLEAN
      BY <3>1 DEF Reroot
    <3>. QED
      BY <1>5, <3>1, <3>2 DEF Clone, Tracker, Refresh, FinalChown
  <2>3a. rerooted' \in BOOLEAN /\ unpoured' \in BOOLEAN
    BY <1>0, <1>5 DEF Clone, Tracker, Refresh, FinalChown, Reroot, WorldTypeOK, TreeTypeOK
  <2>4. def' \in BOOLEAN
    BY <1>0, <1>5, <2>c DEF Clone, Tracker, Refresh, FinalChown, WorldTypeOK, TreeTypeOK
  <2>5. tree' \in {"empty", "clone", "mount", "other"}
    BY <1>0, <1>5 DEF Clone, Tracker, Refresh, FinalChown, WorldTypeOK, TreeTypeOK
  <2>6. TreeTypeOK'
    BY <1>0, <2>1, <2>2, <2>3, <2>3a, <2>4, <2>5 DEF WorldTypeOK, TreeTypeOK
  <2>7. UNCHANGED dockerVars /\ UNCHANGED <<status, agents>> /\ UNCHANGED <<req, mine>>
    BY <2>1 DEF dockerVars
  <2>. QED
    BY <1>0, <2>6, <2>7, Untouched DEF WorldTypeOK
<1>6. CASE Engage(c)
  <2>1. UNCHANGED <<dockerVars, tree, rooted, def, marks, req, mine>>
    BY <1>6 DEF Engage
  <2>2. agents' = agents \/ (Up /\ agents' \subseteq agents \cup {"tmux", "fabro"})
    BY <1>0, <1>6 DEF Engage, Up, WorldTypeOK, AgentsTypeOK
  <2>3. UNCHANGED status
    BY <2>1 DEF dockerVars
  <2>4. AgentsTypeOK'
    BY <1>0, <2>2, <2>3 DEF WorldTypeOK, AgentsTypeOK, Up
  <2>5. /\ UNCHANGED dockerVars /\ UNCHANGED <<tree, rooted, def, marks>>
        /\ UNCHANGED <<req, mine>>
    BY <2>1
  <2>. QED
    BY <1>0, <2>4, <2>5, Untouched DEF WorldTypeOK
<1>7. CASE Remove(c)
  <2>1. UNCHANGED <<network, id, user, marks, req, mine>>
    BY <1>7 DEF Remove
  <2>2. \/ status' = "absent" /\ agents' = {} /\ tree' = "empty" /\ rooted' = FALSE /\ def' = FALSE
        \/ UNCHANGED <<status, agents, tree, rooted, def>>
    BY <1>7 DEF Remove
  <2>3. DockerTypeOK'
    BY <1>0, <2>1, <2>2 DEF WorldTypeOK, DockerTypeOK
  <2>4. TreeTypeOK'
    BY <1>0, <2>1, <2>2 DEF WorldTypeOK, TreeTypeOK, marks
  <2>5. AgentsTypeOK'
    BY <1>0, <2>2 DEF WorldTypeOK, AgentsTypeOK
  <2>6. UNCHANGED <<req, mine>>
    BY <2>1
  <2>. QED
    BY <1>0, <2>3, <2>4, <2>5, <2>6, Untouched DEF WorldTypeOK
<1>. QED
  BY <1>2, <1>3, <1>4, <1>5, <1>6, <1>7 DEF Step, Asks

\* The types, for every set of commands and requests and every fault.
THEOREM TypeCorrect == Spec => []TypeOK
<1>1. Init => TypeOK
  <2>. SUFFICES ASSUME Init PROVE TypeOK
    OBVIOUS
  <2>1. clean \in [Cmd -> BOOLEAN] /\ stopped \in BOOLEAN
    BY DEF Init
  <2>2. mine \in [Cmd -> 0..MaxRuns] /\ id \in 0..MaxRuns
    BY MaxRunsAssumption DEF Init
  <2>. QED
    BY <2>1, <2>2 DEF Init, TypeOK, Up
<1>2. TypeOK /\ [Next]_vars => TypeOK'
  <2>. SUFFICES ASSUME TypeOK, [Next]_vars PROVE TypeOK'
    OBVIOUS
  <2>1. ASSUME NEW c \in Cmd, NEW r \in Requests, Begin(c, r) PROVE TypeOK'
    <3>1. clean' \in [Cmd -> BOOLEAN]
      BY <2>1 DEF Begin
    <3>2. pc' \in [Cmd -> Steps \cup {"idle"}] /\ req' \in [Cmd -> Requests]
      BY <2>1 DEF TypeOK, Begin, Steps
    <3>3. exit' \in [Cmd -> {"none", "ok", "failed", "raised"}] /\ mine' \in [Cmd -> 0..MaxRuns]
      BY <2>1, MaxRunsAssumption DEF TypeOK, Begin
    <3>. QED
      BY <2>1, <3>1, <3>2, <3>3 DEF TypeOK, Begin, Up, dockerVars, boxVars, marks
  <2>2. ASSUME NEW c \in Cmd, Step(c) PROVE TypeOK'
    BY <2>2, StepType
  <2>3. CASE Die
    BY <2>3 DEF TypeOK, Die, Up, cmdVars, marks
  <2>5. ASSUME NEW c \in Cmd, Kill(c) PROVE TypeOK'
    BY <2>5 DEF TypeOK, Kill, End, Steps, Up, dockerVars
  <2>4. CASE UNCHANGED vars
    BY <2>4 DEF TypeOK, vars, dockerVars, boxVars, marks, cmdVars, Up
  <2>. QED
    BY <2>1, <2>2, <2>3, <2>4, <2>5 DEF Next
<1>. QED
  BY <1>1, <1>2, PTL DEF Spec

-----------------------------------------------------------------------------
(* What a command's step leaves alone *)

LEMMA OthersStay ==
  ASSUME TypeOK, NEW c \in Cmd, Step(c), NEW d \in Cmd, d # c
  PROVE  /\ pc'[d] = pc[d] /\ exit'[d] = exit[d] /\ mine'[d] = mine[d] /\ clean'[d] = clean[d]
<1>. USE DEF TypeOK, Goto, End, Fault, Smooth
<1>1. CASE Check(c)
  BY <1>1 DEF Check
<1>2. CASE Network(c)
  BY <1>2 DEF Network
<1>3. CASE Create(c)
  BY <1>3 DEF Create
<1>4. CASE ResolveSource(c)
  BY <1>4 DEF ResolveSource
<1>5. CASE Image(c)
  BY <1>5 DEF Image
<1>6. CASE Run(c)
  BY <1>6 DEF Run
<1>7. CASE CaPrep(c)
  BY <1>7 DEF CaPrep
<1>8. CASE Clone(c)
  BY <1>8 DEF Clone
<1>9. CASE Tracker(c)
  BY <1>9 DEF Tracker
<1>10. CASE Refresh(c)
  BY <1>10 DEF Refresh
<1>11. CASE FinalChown(c)
  BY <1>11 DEF FinalChown
<1>12. CASE Wiring(c)
  BY <1>12 DEF Wiring
<1>13. CASE DbBarrier(c)
  BY <1>13 DEF DbBarrier, Barrier
<1>14. CASE VaultBarrier(c)
  BY <1>14 DEF VaultBarrier, Barrier
<1>15. CASE Engage(c)
  BY <1>15 DEF Engage
<1>16. CASE Wait(c)
  BY <1>16 DEF Wait
<1>17. CASE Remove(c)
  BY <1>17 DEF Remove
<1>. QED
  BY <1>1, <1>2, <1>3, <1>4, <1>5, <1>6, <1>7, <1>8, <1>9, <1>10, <1>11, <1>12, <1>13, <1>14,
      <1>15, <1>16, <1>17 DEF Step

LEMMA RequestStays ==
  ASSUME NEW c \in Cmd, Step(c)
  PROVE  req' = req
BY DEF Step, Check, Network, Create, ResolveSource, Image, Run, CaPrep, Clone, Tracker,
    Refresh, FinalChown, Wiring, DbBarrier, VaultBarrier, Engage, Wait, Remove, Barrier

\* Only a start gives the name to another container, and brings one up
LEMMA IdMoves ==
  ASSUME TypeOK, NEW c \in Cmd, Step(c)
  PROVE  /\ Run(c) \/ (id' = id /\ mine' = mine /\ user' = user)
         /\ id' = id \/ (id' = id + 1 /\ mine' = [mine EXCEPT ![c] = id'])
         /\ Up' => Up \/ id' = id + 1
<1>1. CASE Check(c)
  BY <1>1 DEF Check, TypeOK, dockerVars, boxVars, marks, Up
<1>2. CASE Network(c)
  BY <1>2 DEF Network, TypeOK, dockerVars, boxVars, marks, Up
<1>3. CASE Create(c)
  BY <1>3 DEF Create, TypeOK, dockerVars, boxVars, marks, Up
<1>4. CASE ResolveSource(c)
  BY <1>4 DEF ResolveSource, TypeOK, dockerVars, boxVars, marks, Up
<1>5. CASE Image(c)
  BY <1>5 DEF Image, TypeOK, dockerVars, boxVars, marks, Up
<1>6. CASE Run(c)
  BY <1>6 DEF Run, TypeOK, dockerVars, boxVars, marks, Up
<1>7. CASE CaPrep(c)
  BY <1>7 DEF CaPrep, TypeOK, dockerVars, boxVars, marks, Up
<1>8. CASE Clone(c)
  BY <1>8 DEF Clone, TypeOK, dockerVars, boxVars, marks, Up
<1>9. CASE Tracker(c)
  BY <1>9 DEF Tracker, TypeOK, dockerVars, boxVars, marks, Up
<1>10. CASE Refresh(c)
  BY <1>10 DEF Refresh, TypeOK, dockerVars, boxVars, marks, Up
<1>11. CASE FinalChown(c)
  BY <1>11 DEF FinalChown, TypeOK, dockerVars, boxVars, marks, Up
<1>12. CASE Wiring(c)
  BY <1>12 DEF Wiring, TypeOK, dockerVars, boxVars, marks, Up
<1>13. CASE DbBarrier(c)
  BY <1>13 DEF DbBarrier, Barrier, TypeOK, dockerVars, boxVars, marks, Up
<1>14. CASE VaultBarrier(c)
  BY <1>14 DEF VaultBarrier, Barrier, TypeOK, dockerVars, boxVars, marks, Up
<1>15. CASE Engage(c)
  BY <1>15 DEF Engage, TypeOK, dockerVars, boxVars, marks, Up
<1>16. CASE Wait(c)
  BY <1>16 DEF Wait, TypeOK, dockerVars, boxVars, marks, Up
<1>17. CASE Remove(c)
  BY <1>17 DEF Remove, TypeOK, dockerVars, boxVars, marks, Up
<1>. QED
  BY <1>1, <1>2, <1>3, <1>4, <1>5, <1>6, <1>7, <1>8, <1>9, <1>10, <1>11, <1>12, <1>13, <1>14,
      <1>15, <1>16, <1>17 DEF Step

-----------------------------------------------------------------------------
LEMMA StageStep ==
  ASSUME TypeOK, StageInv, NEW c \in Cmd, Step(c)
  PROVE  StageInv'
<1>. SUFFICES ASSUME NEW d \in Cmd PROVE Stage(d)'
  BY DEF StageInv
<1>0. Stage(d) /\ req' = req /\ id \in Nat /\ mine[d] \in Nat /\ mine[c] \in Nat
  BY RequestStays, MaxRunsAssumption DEF StageInv, TypeOK
<1>a. CASE d # c
  BY <1>a, <1>0, OthersStay, IdMoves DEF Stage
<1>b. CASE d = c
  <2>. USE <1>0, <1>b DEF Stage, LaunchSteps, ProvisionSteps, EngageSteps, TypeOK, Goto, End,
      At,
         dockerVars
  <2>1. CASE Check(c)
    BY <2>1 DEF Check
  <2>2. CASE Network(c)
    BY <2>2 DEF Network
  <2>3. CASE Create(c)
    BY <2>3 DEF Create
  <2>4. CASE ResolveSource(c)
    BY <2>4 DEF ResolveSource
  <2>5. CASE Image(c)
    BY <2>5 DEF Image
  <2>6. CASE Run(c)
    BY <2>6 DEF Run, AfterRun, AfterProvisioning
  <2>7. CASE CaPrep(c)
    BY <2>7 DEF CaPrep
  <2>8. CASE Clone(c)
    BY <2>8 DEF Clone
  <2>9. CASE Tracker(c)
    BY <2>9 DEF Tracker
  <2>10. CASE Refresh(c)
    BY <2>10 DEF Refresh
  <2>11. CASE FinalChown(c)
    BY <2>11 DEF FinalChown, AfterProvisioning
  <2>12. CASE Wiring(c)
    BY <2>12 DEF Wiring
  <2>13. CASE DbBarrier(c)
    BY <2>13 DEF DbBarrier, Barrier
  <2>14. CASE VaultBarrier(c)
    BY <2>14 DEF VaultBarrier, Barrier
  <2>15. CASE Engage(c)
    BY <2>15 DEF Engage
  <2>16. CASE Wait(c)
    BY <2>16 DEF Wait
  <2>17. CASE Remove(c)
    BY <2>17 DEF Remove
  <2>. QED
    BY <2>1, <2>2, <2>3, <2>4, <2>5, <2>6, <2>7, <2>8, <2>9, <2>10, <2>11, <2>12, <2>13,
        <2>14, <2>15, <2>16, <2>17 DEF Step
<1>. QED
  BY <1>a, <1>b

-----------------------------------------------------------------------------
\* While the name stays with one container that stays up, its workspace is filled once
\* and keeps its definition, and its agents stay
LEMMA WorkspaceStays ==
  ASSUME TypeOK, NEW c \in Cmd, Step(c), id' = id
  PROVE  /\ tree' = "mount" => tree = "mount"
         /\ Up' => /\ Up /\ (tree # "empty" => tree' = tree)
                   /\ tree # "empty" /\ def => def'
                   /\ agents \subseteq agents' /\ (unpoured => unpoured')
<1>. USE DEF TypeOK, Up, dockerVars, boxVars, marks
<1>1. CASE Check(c)
  BY <1>1 DEF Check
<1>2. CASE Network(c)
  BY <1>2 DEF Network
<1>3. CASE Create(c)
  BY <1>3 DEF Create
<1>4. CASE ResolveSource(c)
  BY <1>4 DEF ResolveSource
<1>5. CASE Image(c)
  BY <1>5 DEF Image
<1>6. CASE Run(c)
  BY <1>6 DEF Run, AfterRun, AfterProvisioning
<1>7. CASE CaPrep(c)
  BY <1>7 DEF CaPrep
<1>8. CASE Clone(c)
  <2>1. status' = status /\ agents' = agents /\ unpoured' = unpoured
    BY <1>8 DEF Clone
  <2>2. (tree' = tree /\ def' = def) \/ (tree = "empty" /\ tree' = "clone")
    BY <1>8 DEF Clone
  <2>. QED
    BY <2>1, <2>2
<1>9. CASE Tracker(c)
  BY <1>9 DEF Tracker
<1>10. CASE Refresh(c)
  BY <1>10 DEF Refresh
<1>11. CASE FinalChown(c)
  BY <1>11 DEF FinalChown, AfterProvisioning
<1>12. CASE Wiring(c)
  BY <1>12 DEF Wiring
<1>13. CASE DbBarrier(c)
  BY <1>13 DEF DbBarrier, Barrier
<1>14. CASE VaultBarrier(c)
  BY <1>14 DEF VaultBarrier, Barrier
<1>15. CASE Engage(c)
  BY <1>15 DEF Engage
<1>16. CASE Wait(c)
  BY <1>16 DEF Wait
<1>17. CASE Remove(c)
  BY <1>17 DEF Remove
<1>. QED
  BY <1>1, <1>2, <1>3, <1>4, <1>5, <1>6, <1>7, <1>8, <1>9, <1>10, <1>11, <1>12, <1>13, <1>14,
      <1>15, <1>16, <1>17 DEF Step

LEMMA OwnStep ==
  ASSUME TypeOK, StageInv, OwnInv, NEW c \in Cmd, Step(c)
  PROVE  OwnInv'
<1>. SUFFICES ASSUME NEW d \in Cmd PROVE OwnFinds(d)'
  BY DEF OwnInv
<1>0. /\ Stage(d) /\ OwnFinds(d) /\ req' = req /\ id \in Nat /\ mine[d] \in Nat
      /\ req[d].source \in {"clone", "mount", "none"}
  BY RequestStays, RequestAssumption, MaxRunsAssumption DEF StageInv, OwnInv, TypeOK, Request
<1>a. CASE d # c
  <2>. SUFFICES ASSUME mine'[d] = id' PROVE OwnFinds(d)'
    BY DEF OwnFinds, Own
  <2>1. mine'[d] = mine[d] /\ pc'[d] = pc[d] /\ exit'[d] = exit[d]
    BY <1>a, OthersStay
  <2>2. id' = id /\ mine[d] = id
    BY <1>0, <2>1, IdMoves DEF Stage
  <2>. QED
    BY <1>0, <2>1, <2>2, WorkspaceStays DEF OwnFinds, Own, Past, Refreshed, Engaged
<1>b. CASE d = c
  <2>. USE <1>0, <1>b DEF OwnFinds, Own, Past, Refreshed, Engaged, Stage, ProvisionSteps, EngageSteps, LaunchSteps,
         TypeOK, Goto, End, At, Up, dockerVars, boxVars, marks
  <2>1. CASE Check(c)
    BY <2>1 DEF Check
  <2>2. CASE Network(c)
    BY <2>2 DEF Network
  <2>3. CASE Create(c)
    BY <2>3 DEF Create
  <2>4. CASE ResolveSource(c)
    BY <2>4 DEF ResolveSource
  <2>5. CASE Image(c)
    BY <2>5 DEF Image
  <2>6. CASE Run(c)
    BY <2>6 DEF Run, AfterRun, AfterProvisioning
  <2>7. CASE CaPrep(c)
    BY <2>7 DEF CaPrep
  <2>8. CASE Clone(c)
    <3>1. status' = status /\ agents' = agents /\ id' = id /\ mine' = mine
      BY <2>8 DEF Clone
    <3>2. CASE /\ Up /\ tree = "empty" /\ tree' = "clone" /\ def' = req[c].carried
               /\ Goto(c, "tracker")
      <4>1. pc'[c] = "tracker" /\ (req[c].carried => def') /\ req[c].source = "clone"
        BY <2>8, <3>2 DEF Clone
      <4>. QED
        BY <3>1, <3>2, <4>1
    <3>3. CASE tree' = tree /\ def' = def /\ End(c, "failed")
      BY <3>1, <3>3
    <3>. QED
      BY <2>8, <3>2, <3>3 DEF Clone
  <2>9. CASE Tracker(c)
    BY <2>9 DEF Tracker
  <2>10. CASE Refresh(c)
    <3>1. /\ status' = status /\ agents' = agents /\ id' = id /\ mine' = mine
          /\ pc[c] = "refresh" /\ pc'[c] = "final" /\ exit' = exit
      BY <2>10 DEF Refresh
    <3>2. /\ unpoured' = (unpoured \/ ~def')
          /\ def' = def \/ def'
          /\ tree' = tree \/ tree = "empty"
      BY <2>10 DEF Refresh
    <3>3. tree' = "mount" => tree = "mount"
      BY <2>10 DEF Refresh
    <3>4. req[c].source = "clone"
      BY <3>1
    <3>5. Own(c) /\ Up => tree' = "clone" /\ (req[c].carried => def')
      BY <3>1, <3>2, <3>4
    <3>6. pc'[c] # "idle" /\ req'[c] = req[c]
      BY <3>1
    <3>7. def' \/ unpoured'
      BY <3>2
    <3>. QED
      BY <3>1, <3>3, <3>4, <3>5, <3>6, <3>7
  <2>11. CASE FinalChown(c)
    BY <2>11 DEF FinalChown, AfterProvisioning
  <2>12. CASE Wiring(c)
    BY <2>12 DEF Wiring
  <2>13. CASE DbBarrier(c)
    BY <2>13 DEF DbBarrier, Barrier
  <2>14. CASE VaultBarrier(c)
    BY <2>14 DEF VaultBarrier, Barrier
  <2>15. CASE Engage(c)
    BY <2>15 DEF Engage
  <2>16. CASE Wait(c)
    BY <2>16 DEF Wait
  <2>17. CASE Remove(c)
    BY <2>17 DEF Remove
  <2>. QED
    BY <2>1, <2>2, <2>3, <2>4, <2>5, <2>6, <2>7, <2>8, <2>9, <2>10, <2>11, <2>12, <2>13,
        <2>14, <2>15, <2>16, <2>17 DEF Step
<1>. QED
  BY <1>a, <1>b

LEMMA RootStep ==
  ASSUME TypeOK, RootInv, NEW c \in Cmd, Step(c)
  PROVE  RootInv'
<1>0. user' # "root" /\ rooted' => rerooted'
  <2>. SUFFICES ASSUME user' # "root", rooted' PROVE rerooted'
    OBVIOUS
  <2>1. CASE Run(c)
    <3>1. (user' = "root" \/ ~rooted') \/ UNCHANGED <<user, rooted, rerooted>>
      BY <2>1 DEF Run, marks
    <3>. QED
      BY <3>1 DEF RootInv
  <2>2. CASE Clone(c) \/ Tracker(c) \/ Refresh(c) \/ FinalChown(c)
    <3>1. user' = user /\ Chowned = rooted
      BY <2>2 DEF Clone, Tracker, Refresh, FinalChown, dockerVars, Chowned, TypeOK
    <3>2. rooted => rerooted
      BY <3>1 DEF RootInv
    <3>3. \/ Reroot(FALSE) \/ Reroot(rooted)
          \/ rooted' = rooted /\ rerooted' = rerooted
      BY <2>2, <3>1 DEF Clone, Tracker, Refresh, FinalChown
    <3>4. CASE Reroot(FALSE)
      <4>1. rooted' \in {FALSE, TRUE} /\ rerooted' = (rerooted \/ rooted' # FALSE)
        BY <3>4 DEF Reroot
      <4>. QED
        BY <4>1
    <3>5. CASE Reroot(rooted)
      <4>1. rerooted' = (rerooted \/ rooted' # rooted)
        BY <3>5 DEF Reroot
      <4>. QED
        BY <3>2, <4>1
    <3>. QED
      BY <3>2, <3>3, <3>4, <3>5
  <2>3. CASE Remove(c)
    BY <2>3 DEF Remove, RootInv, marks
  <2>4. CASE rooted' = rooted /\ user' = user /\ rerooted' = rerooted
    BY <2>4 DEF RootInv
  <2>. QED
    BY <2>1, <2>2, <2>3, <2>4
       DEF Step, Check, Network, Create, ResolveSource, Image, CaPrep, Wiring, DbBarrier,
           VaultBarrier, Barrier, Engage, Wait, dockerVars, boxVars, marks
<1>. DEFINE Chowning(d) == pc[d] \in {"tracker", "refresh", "final"}
<1>. SUFFICES ASSUME user' = "root", Up', rooted', tree' = "clone", ~cut'
              PROVE  \E d \in Cmd : Chowning(d)'
  BY <1>0 DEF RootInv
<1>1. ASSUME user = "root", Up, rooted, tree = "clone", ~cut, ~Chowning(c)
      PROVE  \E d \in Cmd : Chowning(d)'
  <2>1. PICK d \in Cmd : Chowning(d)
    BY <1>1 DEF RootInv
  <2>. QED
    BY <1>1, <2>1, OthersStay
<1>2. CASE Run(c)
  <2>1. \/ tree' # "clone" \/ ~Up'
        \/ rooted' = rooted /\ tree' = tree /\ status' = status /\ user' = user /\ cut' = cut
    BY <1>2 DEF Run, Up, marks
  <2>. QED
    BY <1>1, <1>2, <2>1 DEF Run, At, Up
<1>3. CASE Remove(c)
  BY <1>3, <1>1 DEF Remove, Up, At, dockerVars, boxVars, marks
<1>4. CASE Clone(c)
  <2>1. Goto(c, "tracker") \/ (rooted' = Chowned /\ status' = status /\ user' = user)
    BY <1>4 DEF Clone, dockerVars
  <2>2. CASE Goto(c, "tracker")
    BY <2>2 DEF Goto, TypeOK
  <2>. QED
    BY <2>1, <2>2 DEF Chowned, Up
<1>5. CASE Tracker(c) \/ Refresh(c)
  <2>1. pc'[c] \in {"refresh", "final"}
    BY <1>5 DEF Tracker, Refresh, Goto, TypeOK
  <2>. QED
    BY <2>1
<1>6. CASE FinalChown(c)
  BY <1>6 DEF FinalChown, Chowned, Up, dockerVars
<1>7. CASE /\ ~Chowning(c)
           /\ rooted' = rooted /\ tree' = tree /\ status' = status /\ user' = user
           /\ cut' = cut
  BY <1>7, <1>1 DEF Up
<1>. QED
  BY <1>2, <1>3, <1>4, <1>5, <1>6, <1>7
     DEF Step, Check, Network, Create, ResolveSource, Image, CaPrep, Wiring, DbBarrier,
         VaultBarrier, Barrier, Engage, Wait, At, dockerVars, boxVars, marks

LEMMA CleanStep ==
  ASSUME TypeOK, StageInv, CleanInv, NEW c \in Cmd, Step(c)
  PROVE  CleanInv'
<1>0. /\ Stage(c) /\ req' = req /\ req[c] \in Request
  BY RequestStays, RequestAssumption DEF StageInv, TypeOK
<1>1. stopped' /\ Quiet' => status' = "absent"
  <2>. SUFFICES ASSUME pc'[c] = "idle", stopped' PROVE status' = "absent"
    BY DEF Quiet, At
  <2>. USE <1>0 DEF Stage, LaunchSteps, ProvisionSteps, EngageSteps, TypeOK, Goto, End, At
  <2>1. CASE Check(c)
    BY <2>1 DEF Check
  <2>2. CASE Network(c)
    BY <2>2 DEF Network
  <2>3. CASE Create(c)
    BY <2>3 DEF Create
  <2>4. CASE ResolveSource(c)
    BY <2>4 DEF ResolveSource
  <2>5. CASE Image(c)
    BY <2>5 DEF Image
  <2>6. CASE Run(c)
    BY <2>6 DEF Run, AfterRun, AfterProvisioning
  <2>7. CASE CaPrep(c)
    BY <2>7 DEF CaPrep
  <2>8. CASE Clone(c)
    BY <2>8 DEF Clone
  <2>9. CASE Tracker(c)
    BY <2>9 DEF Tracker
  <2>10. CASE Refresh(c)
    BY <2>10 DEF Refresh
  <2>11. CASE FinalChown(c)
    BY <2>11 DEF FinalChown, AfterProvisioning
  <2>12. CASE Wiring(c)
    BY <2>12 DEF Wiring
  <2>13. CASE DbBarrier(c)
    BY <2>13 DEF DbBarrier, Barrier
  <2>14. CASE VaultBarrier(c)
    BY <2>14 DEF VaultBarrier, Barrier
  <2>15. CASE Engage(c)
    BY <2>15 DEF Engage
  <2>16. CASE Wait(c)
    BY <2>16 DEF Wait
  <2>17. CASE Remove(c)
    BY <2>17 DEF Remove
  <2>. QED
    BY <2>1, <2>2, <2>3, <2>4, <2>5, <2>6, <2>7, <2>8, <2>9, <2>10, <2>11, <2>12, <2>13,
        <2>14, <2>15, <2>16, <2>17 DEF Step
<1>2. ASSUME NEW d \in Cmd PROVE (CleanFinds(d) /\ Recovered(d))'
  <2>a. CASE d # c
    <3>1. pc[c] # "idle"
      BY DEF Step, Check, Network, Create, ResolveSource, Image, Run, CaPrep, Clone, Tracker,
             Refresh, FinalChown, Wiring, DbBarrier, VaultBarrier, Barrier, Engage, Wait,
             Remove, At
    <3>2. ~clean[d]
      BY <2>a, <3>1 DEF CleanInv, CleanFinds, Alone
    <3>. QED
      BY <2>a, <3>2, OthersStay DEF CleanFinds, Recovered
  <2>b. CASE d = c
    <3>. SUFFICES ASSUME clean'[c] PROVE (CleanFinds(c) /\ Recovered(c))'
      BY <2>b DEF CleanFinds, Recovered
    <3>0. clean[c] /\ CleanFinds(c)
      BY DEF CleanInv, Step, Check, Network, Create, ResolveSource, Image, Run, CaPrep, Clone,
             Tracker, Refresh, FinalChown, Wiring, DbBarrier, VaultBarrier, Barrier, Engage,
             Wait, Remove, Smooth, Fault, TypeOK
    <3>z. Alone(c)' /\ Alone(c)
      BY <3>0, OthersStay DEF CleanFinds, Alone
    <3>. USE <1>0, <3>0, <3>z DEF CleanFinds, Recovered, Stage, LaunchSteps, ProvisionSteps,
        EngageSteps,
           TypeOK, Request, Goto, End, At, Up, Fault, Smooth, dockerVars, boxVars, marks
    <3>1. CASE Check(c)
      BY <3>1 DEF Check
    <3>2. CASE Network(c)
      BY <3>2 DEF Network
    <3>3. CASE Create(c)
      BY <3>3 DEF Create
    <3>4. CASE ResolveSource(c)
      BY <3>4 DEF ResolveSource
    <3>5. CASE Image(c)
      BY <3>5 DEF Image
    <3>6. CASE Run(c)
      <4>1. /\ pc[c] = "run" /\ req' = req /\ network' = network
            /\ status = "absent" /\ req[c].cmd = "launch" /\ req[c] \in Request
        BY <3>6, RequestAssumption DEF Run
      <4>2. CASE Goto(c, AfterRun(c)) /\ status' = "running"
                 /\ tree' = (IF req[c].source = "mount" THEN "mount" ELSE "empty")
                 /\ rooted' = (req[c].source # "mount" /\ user' = "root")
        <5>1. pc'[c] = AfterRun(c)
          BY <4>2
        <5>2. /\ pc'[c] \in {"ca", "wiring", "db"}
              /\ pc'[c] = "ca" => tree' = "empty" /\ (rooted' => user' = "root")
          BY <4>2, <5>1 DEF AfterRun, AfterProvisioning
        <5>. QED
          BY <4>1, <4>2, <5>2
      <4>3. CASE End(c, "raised") /\ ~network
        <5>1. pc'[c] = "idle" /\ ~req[c].derived
          BY <4>1, <4>3
        <5>. QED
          BY <4>1, <4>3, <5>1
      <4>. QED
        BY <3>6, <4>1, <4>2, <4>3 DEF Run
    <3>7. CASE CaPrep(c)
      BY <3>7 DEF CaPrep
    <3>8. CASE Clone(c)
      <4>1. /\ pc[c] = "clone" /\ Up /\ tree = "empty" /\ (rooted => user = "root")
            /\ UNCHANGED <<dockerVars, agents, req>>
        BY <3>8 DEF Clone
      <4>2. ~Chowned
        BY <4>1 DEF Chowned
      <4>3. Goto(c, "tracker")
        BY <3>8, <4>1, <4>2 DEF Clone
      <4>4. pc'[c] = "tracker"
        BY <4>3
      <4>. QED
        BY <4>1, <4>4
    <3>9. CASE Tracker(c)
      BY <3>9 DEF Tracker, Provisions, Chowned
    <3>10. CASE Refresh(c)
      BY <3>10 DEF Refresh, Provisions, Chowned
    <3>11. CASE FinalChown(c)
      BY <3>11 DEF FinalChown, Provisions, Chowned, AfterProvisioning
    <3>12. CASE Wiring(c)
      BY <3>12 DEF Wiring
    <3>13. CASE DbBarrier(c)
      BY <3>13 DEF DbBarrier, Barrier
    <3>14. CASE VaultBarrier(c)
      BY <3>14 DEF VaultBarrier, Barrier
    <3>15. CASE Engage(c)
      BY <3>15 DEF Engage
    <3>16. CASE Wait(c)
      BY <3>16 DEF Wait
    <3>17. CASE Remove(c)
      BY <3>17 DEF Remove
    <3>. QED
      BY <3>1, <3>2, <3>3, <3>4, <3>5, <3>6, <3>7, <3>8, <3>9, <3>10, <3>11, <3>12, <3>13,
          <3>14, <3>15, <3>16, <3>17 DEF Step
  <2>. QED
    BY <2>a, <2>b
<1>. QED
  BY <1>1, <1>2 DEF CleanInv

LEMMA BeginKeeps ==
  ASSUME TypeOK, LaunchInv, NEW c \in Cmd, NEW r \in Requests, Begin(c, r)
  PROVE  LaunchInv'
<1>0. \A d \in Cmd \ {c} : pc'[d] = pc[d] /\ req'[d] = req[d] /\ exit'[d] = exit[d] /\ mine'[d] = mine[d]
  BY DEF Begin, TypeOK
<1>1. /\ pc[c] = "idle" /\ req'[c] = r /\ mine'[c] = 0
      /\ pc'[c] = IF r.cmd = "stop" THEN "remove" ELSE "check"
  BY DEF Begin, TypeOK, At
<1>2. UNCHANGED <<dockerVars, boxVars>> /\ ~stopped'
  BY DEF Begin
<1>3. StageInv'
  BY <1>0, <1>1, <1>2, MaxRunsAssumption
     DEF LaunchInv, StageInv, Stage, TypeOK, LaunchSteps, ProvisionSteps, EngageSteps,
         dockerVars
<1>4. OwnInv'
  BY <1>0, <1>1, <1>2
     DEF LaunchInv, OwnInv, OwnFinds, Own, Past, Refreshed, Engaged, Up, ProvisionSteps, EngageSteps, dockerVars,
         boxVars, marks
<1>5. RootInv'
  BY <1>0, <1>1, <1>2 DEF LaunchInv, RootInv, Up, dockerVars, boxVars, marks
<1>6. CleanInv'
  <2>. SUFFICES ASSUME NEW d \in Cmd, clean'[d] PROVE (CleanFinds(d) /\ Recovered(d))'
    BY <1>2 DEF CleanInv, CleanFinds, Recovered
  <2>1. /\ d = c /\ \A o \in Cmd : pc[o] = "idle"
        /\ (r.cmd = "launch" /\ stopped) \/ (r.cmd = "start-agent" /\ Up)
    BY DEF Begin, At
  <2>2. r.cmd = "launch" => status = "absent"
    BY <2>1 DEF LaunchInv, CleanInv, Quiet, At
  <2>3. Alone(c)'
    BY <1>0, <2>1 DEF Alone
  <2>. QED
    BY <1>1, <1>2, <2>1, <2>2, <2>3
       DEF CleanFinds, Recovered, Up, At, ProvisionSteps, EngageSteps, dockerVars
<1>. QED
  BY <1>3, <1>4, <1>5, <1>6 DEF LaunchInv

LEMMA KillKeeps ==
  ASSUME TypeOK, LaunchInv, NEW c \in Cmd, Kill(c)
  PROVE  LaunchInv'
<1>0. \A d \in Cmd \ {c} : pc'[d] = pc[d] /\ exit'[d] = exit[d] /\ clean'[d] = clean[d]
  BY DEF Kill, End, TypeOK
<1>1. /\ pc[c] # "idle" /\ pc'[c] = "idle" /\ exit'[c] = "raised" /\ ~clean'[c]
      /\ cut' /\ ~stopped'
      /\ UNCHANGED <<dockerVars, tree, rooted, def, agents, rerooted, unpoured, req, mine>>
  BY DEF Kill, End, TypeOK, At
<1>2. StageInv'
  BY <1>0, <1>1
     DEF LaunchInv, StageInv, Stage, LaunchSteps, ProvisionSteps, EngageSteps, dockerVars
<1>3. OwnInv'
  BY <1>0, <1>1
     DEF LaunchInv, OwnInv, OwnFinds, Own, Past, Refreshed, Engaged, Up, ProvisionSteps, EngageSteps, dockerVars
<1>4. RootInv'
  BY <1>1 DEF RootInv, LaunchInv, dockerVars
<1>5. CleanInv'
  <2>1. \A d \in Cmd \ {c} : ~clean[d]
    BY <1>1 DEF LaunchInv, CleanInv, CleanFinds, Alone
  <2>. QED
    BY <1>0, <1>1, <2>1 DEF CleanInv, CleanFinds, Recovered
<1>. QED
  BY <1>2, <1>3, <1>4, <1>5 DEF LaunchInv

\* What every command finds at each of its steps (launch, start_agent and stop), for
\* every set of commands, requests and faults.
THEOREM LaunchInvariant == Spec => [](TypeOK /\ LaunchInv)
<1>1. Init => LaunchInv
  BY DEF Init, LaunchInv, StageInv, Stage, OwnInv, OwnFinds, Own, Past, Refreshed, Engaged, RootInv, CleanInv,
      CleanFinds,
         Recovered, Up, At, LaunchSteps, ProvisionSteps, EngageSteps
<1>2. TypeOK /\ LaunchInv /\ [Next]_vars => LaunchInv'
  <2>. SUFFICES ASSUME TypeOK, LaunchInv, [Next]_vars PROVE LaunchInv'
    OBVIOUS
  <2>1. ASSUME NEW c \in Cmd, NEW r \in Requests, Begin(c, r) PROVE LaunchInv'
    BY <2>1, BeginKeeps
  <2>2. ASSUME NEW c \in Cmd, Step(c) PROVE LaunchInv'
    BY <2>2, StageStep, OwnStep, RootStep, CleanStep DEF LaunchInv
  <2>3. CASE Die
    <3>1. StageInv' /\ RootInv'
      BY <2>3 DEF Die, LaunchInv, StageInv, Stage, RootInv, Up, cmdVars, marks
    <3>2. OwnInv'
      BY <2>3 DEF Die, LaunchInv, OwnInv, OwnFinds, Own, Up, cmdVars, marks
    <3>3. CleanInv'
      BY <2>3 DEF Die, LaunchInv, CleanInv, CleanFinds, Recovered, Quiet, At, Up, cmdVars
    <3>. QED
      BY <3>1, <3>2, <3>3 DEF LaunchInv
  <2>5. ASSUME NEW c \in Cmd, Kill(c) PROVE LaunchInv'
    BY <2>5, KillKeeps
  <2>4. CASE UNCHANGED vars
    BY <2>4 DEF vars, dockerVars, boxVars, marks, cmdVars, LaunchInv, StageInv, Stage, OwnInv,
        OwnFinds,
                Own, Past, Refreshed, Engaged, RootInv, CleanInv, CleanFinds, Recovered, Alone, Quiet, At, Up
  <2>. QED
    BY <2>1, <2>2, <2>3, <2>4, <2>5 DEF Next
<1>. QED
  BY <1>1, <1>2, TypeCorrect, PTL DEF Spec

-----------------------------------------------------------------------------
\* A launch that reports success over its own container leaves its clone or mount there,
\* whatever other commands did in it (_launch.py:431-501); a clone with a path of root's
\* only where no chown could take it or a command was killed, and without the fabro tier
\* only where the repository has no definition and none was poured.
THEOREM LaunchedIsReady == Spec => []LaunchedMeansReady
<1>1. TypeOK /\ LaunchInv => LaunchedMeansReady
  BY DEF LaunchInv, OwnInv, OwnFinds, Own, Past, Refreshed, Engaged, RootInv, LaunchedMeansReady, Launched, Quiet,
      At
<1>. QED
  BY <1>1, LaunchInvariant, PTL

\* After a stop a launch that is left alone works, and start-agent brings an agent into a
\* cloned container that has none, whatever failed before.
THEOREM LeftAloneRecovers == Spec => []RecoveryWorks
<1>1. LaunchInv => RecoveryWorks
  BY DEF LaunchInv, CleanInv, Recovered, RecoveryWorks, At
<1>. QED
  BY <1>1, LaunchInvariant, PTL

\* No launch provisions the operator's mounted tree as long as its own container has the
\* name (_launch_prep.py:74-76).
THEOREM OnlyStraysProvisionMounts == Spec => MountProvisionedByStrayOnly
<1>1. TypeOK /\ LaunchInv /\ [Next]_vars
      => [touched' /\ ~touched => \E c \in Cmd : pc'[c] # pc[c] /\ mine[c] # id]_vars
  <2>. SUFFICES ASSUME TypeOK, LaunchInv, Next, touched', ~touched
                PROVE  \E c \in Cmd : pc'[c] # pc[c] /\ mine[c] # id
    BY DEF vars, dockerVars, boxVars, marks, cmdVars
  <2>1. PICK c \in Cmd : Clone(c) \/ Tracker(c) \/ Refresh(c) \/ FinalChown(c)
    BY DEF Next, Begin, Die, Kill, Step, Check, Network, Create, ResolveSource, Image, Run, CaPrep,
        Wiring,
           DbBarrier, VaultBarrier, Barrier, Engage, Wait, Remove, boxVars, marks
  <2>2. tree = "mount"
    BY <2>1 DEF Clone, Tracker, Refresh, FinalChown, Provisions
  <2>3. pc[c] \in ProvisionSteps /\ pc'[c] # pc[c]
    BY <2>1 DEF Clone, Tracker, Refresh, FinalChown, At, Goto, End, TypeOK, ProvisionSteps,
                AfterProvisioning
  <2>. QED
    BY <2>2, <2>3 DEF LaunchInv, OwnInv, OwnFinds
<1>. QED
  BY <1>1, LaunchInvariant, PTL DEF Spec, MountProvisionedByStrayOnly

=============================================================================
