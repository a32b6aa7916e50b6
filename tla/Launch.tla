-------------------------------- MODULE Launch --------------------------------
(***************************************************************************)
(* The commands of the launcher on one BC: launch, start-agent and stop    *)
(* (controller/_launch.py, _provisioning.py, _engage.py, _commands.py).    *)
(*                                                                         *)
(* A command is a process of its own that addresses docker, the container  *)
(* and its workspace by name, step by step; several run at the same time,  *)
(* and nothing locks the BC.  Most steps only warn when they fail; the     *)
(* others end the command with exit 1 ("failed") or with an exception      *)
(* ("raised"), and it may be killed anywhere.  The agent session is        *)
(* AgentSession and the beads ladder is TrackerProvision; here each is one *)
(* step.                                                                   *)
(***************************************************************************)
EXTENDS Naturals

CONSTANTS
  Cmd,       \* commands that run at the same time
  Requests,  \* what the operator asks for
  Users,     \* the images: the user each runs an exec as that names none
  Faults,    \* what may go wrong: "docker": a docker or registry call that is no exec;
             \* "net": the CA or the clone; "db", "vault": a barrier; "agent": claude does not come up;
             \* "pour": the template refresh; "die": the container ends by itself;
             \* "root": something leaves paths of root's under /workspace while it is provisioned;
             \* "kill": a command is killed
  MaxRuns    \* bound: containers ever started

\* source is what /workspace shall hold, as far as it can be resolved; derived: the network
\* is not given but derived, and then created; carried: the repository brings a fabro
\* definition of its own.  start-agent only knows the tmux tier.
Request ==
  {r \in [cmd : {"launch", "start-agent", "stop"}, source : {"clone", "mount", "none"},
          tier : {"tmux", "fabro"}, derived : BOOLEAN, dsn : BOOLEAN, carried : BOOLEAN] :
     r.cmd = "start-agent" => r.tier = "tmux"}

ASSUME RequestAssumption == Requests \subseteq Request
ASSUME UsersAssumption == Users \subseteq {"root", "vscode"}
ASSUME LaunchFaultAssumption ==
  Faults \subseteq {"docker", "net", "db", "vault", "agent", "pour", "die", "root", "kill"}
ASSUME MaxRunsAssumption == MaxRuns \in Nat

VARIABLES
  network,  \* the docker network exists
  status,   \* the container: "absent", "running" or "exited"
  id,       \* which container has the name: they are numbered
  user,     \* the user of its image
  tree,     \* what /workspace holds: "empty", "clone", "mount", "other"
  rooted,   \* some of it belongs to root
  def,      \* it holds /workspace/.fabro
  agents,   \* the tiers that run in the container
  touched,  \* provisioning has written to the operator's mounted tree (history)
  cut,      \* a command was killed since the container was started (history)
  rerooted, \* something made paths under /workspace root's since then (history)
  unpoured, \* a template refresh left it without a definition since then (history)
  pc,       \* per command: the step it is at
  req,      \* what it was asked for
  exit,     \* how it ended: "ok", "failed", "raised"; "none" before
  mine,     \* the container it has started, or 0
  clean,    \* nothing has interfered with it (history)
  stopped   \* the last command that ended was a stop (history)

dockerVars == <<network, status, id, user>>
marks      == <<touched, cut, rerooted, unpoured>>
boxVars    == <<tree, rooted, def, agents, marks>>
cmdVars    == <<pc, req, exit, mine>>
vars == <<dockerVars, boxVars, cmdVars, clean, stopped>>

Steps == {"check", "network", "create", "source", "image", "run", "ca", "clone", "tracker",
          "refresh", "final", "wiring", "db", "vault", "engage", "wait", "remove"}

Up == status = "running"
At(c, p) == pc[c] = p

Goto(c, p) == pc' = [pc EXCEPT ![c] = p] /\ UNCHANGED <<exit, stopped>>
End(c, x)  ==
  /\ pc' = [pc EXCEPT ![c] = "idle"] /\ exit' = [exit EXCEPT ![c] = x]
  /\ stopped' = (req[c].cmd = "stop" /\ x = "ok")

\* a fault meets command c; without one, clean stays
Fault(c, f) == f \in Faults /\ clean' = [clean EXCEPT ![c] = FALSE]
Smooth == UNCHANGED clean

Init ==
  /\ network = FALSE /\ status = "absent" /\ id = 0 /\ user \in Users
  /\ tree = "empty" /\ rooted = FALSE /\ def = FALSE /\ agents = {}
  /\ touched = FALSE /\ cut = FALSE /\ rerooted = FALSE /\ unpoured = FALSE
  /\ pc = [c \in Cmd |-> "idle"] /\ req \in [Cmd -> Requests]
  /\ exit = [c \in Cmd |-> "none"] /\ mine = [c \in Cmd |-> 0]
  /\ clean = [c \in Cmd |-> FALSE] /\ stopped = FALSE

-----------------------------------------------------------------------------
(* Mutants: the mistakes the properties are there to catch *)

\* the container is stopped and not removed
RemoveStopsOnly(c) ==
  /\ At(c, "remove")
  /\ \/ /\ status' = (IF status = "absent" THEN "absent" ELSE "exited")
        /\ agents' = {} /\ End(c, "ok") /\ Smooth
     \/ Fault(c, "docker") /\ End(c, "raised") /\ UNCHANGED <<status, agents>>
  /\ UNCHANGED <<network, id, user, tree, rooted, def, marks, req, mine>>

\* the last chown is taken for a repetition and dropped
FinalChownDropped(c) ==
  /\ At(c, "final")
  /\ Goto(c, IF req[c].tier = "fabro" THEN "wiring" ELSE "db") /\ Smooth
  /\ UNCHANGED <<dockerVars, boxVars, req, mine>>

\* a mounted workspace is provisioned like a clone
AfterRunProvisions(c) == "ca"

\* a container that ends by itself keeps its agents in the books
DieUnnoticed ==
  /\ "die" \in Faults /\ Up
  /\ status' = "exited" /\ clean' = [c \in Cmd |-> FALSE]
  /\ UNCHANGED <<network, id, user, boxVars, cmdVars, stopped>>

-----------------------------------------------------------------------------
(* The operator, and the container by itself *)

\* The operator may ask for anything while other commands run.  A command is clean if it
\* is alone and follows a stop, or starts the agent of a provisioned container without one.
Begin(c, r) ==
  /\ At(c, "idle")
  /\ pc' = [pc EXCEPT ![c] = IF r.cmd = "stop" THEN "remove" ELSE "check"]
  /\ req' = [req EXCEPT ![c] = r] /\ exit' = [exit EXCEPT ![c] = "none"]
  /\ mine' = [mine EXCEPT ![c] = 0] /\ stopped' = FALSE
  /\ clean' = [d \in Cmd |->
       /\ d = c
       /\ \A o \in Cmd : At(o, "idle")
       /\ \/ r.cmd = "launch" /\ stopped
          \/ r.cmd = "start-agent" /\ Up /\ tree = "clone" /\ agents = {}]
  /\ UNCHANGED <<dockerVars, boxVars>>

\* there is no restart policy, and docker ps does not list what has exited
Die ==
  /\ "die" \in Faults /\ Up
  /\ status' = "exited" /\ agents' = {} /\ clean' = [c \in Cmd |-> FALSE]
  /\ UNCHANGED <<network, id, user, tree, rooted, def, marks, cmdVars, stopped>>

\* A command is killed between two of its steps.  A call it has made of docker, git or
\* the container goes on: that is a command killed after the step.
Kill(c) ==
  /\ "kill" \in Faults /\ ~At(c, "idle")
  /\ End(c, "raised") /\ cut' = TRUE
  /\ clean' = [clean EXCEPT ![c] = FALSE]
  /\ UNCHANGED <<dockerVars, tree, rooted, def, agents, touched, rerooted, unpoured, req, mine>>

-----------------------------------------------------------------------------
(* launch: up to the container *)

\* is_running: it raises when the socket cannot be reached; docker ps failing otherwise
\* reads like a container that is not there.  The probe that start-agent adds finds a
\* claude whose watch is armed.
Check(c) ==
  /\ At(c, "check")
  /\ \/ Fault(c, "docker") /\ End(c, "raised")
     \/ req[c].cmd = "launch" /\ Up /\ End(c, "ok") /\ Smooth
     \/ /\ req[c].cmd = "launch" /\ Goto(c, "network")
        /\ (~Up /\ Smooth) \/ Fault(c, "docker")
     \/ /\ req[c].cmd = "start-agent" /\ End(c, "failed")
        /\ (~Up /\ Smooth) \/ Fault(c, "docker")
     \/ req[c].cmd = "start-agent" /\ Up /\ "tmux" \in agents /\ End(c, "ok") /\ Smooth
     \/ req[c].cmd = "start-agent" /\ Up /\ Goto(c, "db") /\ Smooth
  /\ UNCHANGED <<dockerVars, boxVars, req, mine>>

\* an explicit network is taken as it is
Network(c) ==
  /\ At(c, "network") /\ Smooth
  /\ Goto(c, IF req[c].derived /\ ~network THEN "create" ELSE "source")
  /\ UNCHANGED <<dockerVars, boxVars, req, mine>>

\* docker network create refuses a name that exists
Create(c) ==
  /\ At(c, "create")
  /\ \/ ~network /\ network' = TRUE /\ Goto(c, "source") /\ Smooth
     \/ network /\ UNCHANGED network /\ End(c, "raised") /\ Smooth
     \/ Fault(c, "docker") /\ UNCHANGED network /\ End(c, "raised")
  /\ UNCHANGED <<status, id, user, boxVars, req, mine>>

ResolveSource(c) ==
  /\ At(c, "source") /\ Smooth
  /\ IF req[c].source = "none" THEN End(c, "failed") ELSE Goto(c, "image")
  /\ UNCHANGED <<dockerVars, boxVars, req, mine>>

\* the digest is resolved and pulled
Image(c) ==
  /\ At(c, "image")
  /\ \/ Goto(c, "run") /\ Smooth
     \/ Fault(c, "docker") /\ End(c, "raised")
  /\ UNCHANGED <<dockerVars, boxVars, req, mine>>

AfterProvisioning(c) == IF req[c].tier = "fabro" THEN "wiring" ELSE "db"
AfterRun(c) == IF req[c].source = "clone" THEN "ca" ELSE AfterProvisioning(c)

\* docker run refuses a name that is taken, also by a container that has exited; without
\* its network, or on an error of docker's own, it may leave the container created
Run(c) ==
  /\ At(c, "run")
  /\ \/ /\ status = "absent" /\ network /\ id < MaxRuns
        /\ status' = "running" /\ id' = id + 1 /\ mine' = [mine EXCEPT ![c] = id + 1]
        /\ user' \in Users
        /\ tree' = (IF req[c].source = "mount" THEN "mount" ELSE "empty")
        /\ rooted' = (req[c].source # "mount" /\ user' = "root")
        /\ def' = (req[c].source = "mount" /\ req[c].carried)
        /\ touched' = FALSE /\ cut' = FALSE /\ rerooted' = FALSE /\ unpoured' = FALSE
        /\ Goto(c, AfterRun(c)) /\ Smooth
     \/ /\ status # "absent"
        /\ End(c, "raised") /\ Smooth
        /\ UNCHANGED <<status, id, user, mine, tree, rooted, def, marks>>
     \/ /\ status = "absent"
        /\ \/ ~network /\ Smooth
           \/ Fault(c, "docker")
        /\ status' \in {"absent", "exited"} /\ End(c, "raised")
        /\ UNCHANGED <<id, user, mine, tree, rooted, def, marks>>
  /\ UNCHANGED <<network, agents, req>>

-----------------------------------------------------------------------------
(* launch: provisioning of a clone, in whatever container has the name by now *)

Provisions == touched' = (touched \/ (Up /\ tree = "mount"))

\* chown -R /workspace, as the user of the image: only root takes a path from root
Chowned == rooted /\ ~(Up /\ user = "root")

\* a path may be root's before, and something in the container may run as root now
Reroot(before) ==
  /\ rooted' \in IF "root" \in Faults /\ Up THEN {before, TRUE} ELSE {before}
  /\ rerooted' = (rerooted \/ rooted' # before)

CaPrep(c) ==
  /\ At(c, "ca")
  /\ \/ Up /\ Goto(c, "clone") /\ Smooth
     \/ ~Up /\ End(c, "failed") /\ Smooth
     \/ Fault(c, "net") /\ End(c, "failed")
  /\ UNCHANGED <<dockerVars, boxVars, req, mine>>

\* chown, then git clone as vscode into a directory that must be empty and its own
Clone(c) ==
  /\ At(c, "clone") /\ Provisions
  /\ \/ /\ Up /\ tree = "empty" /\ ~Chowned
        /\ tree' = "clone" /\ def' = req[c].carried /\ Reroot(FALSE)
        /\ Goto(c, "tracker") /\ Smooth
     \/ /\ \/ (~Up \/ tree # "empty" \/ Chowned) /\ Smooth
           \/ Fault(c, "net")
        /\ rooted' = Chowned
        /\ End(c, "failed") /\ UNCHANGED <<tree, def, rerooted>>
  /\ UNCHANGED <<dockerVars, agents, cut, unpoured, req, mine>>

\* chown, safe.directory, registry, chown, origin owner and the beads ladder: all of it
\* only warns
Tracker(c) ==
  /\ At(c, "tracker") /\ Provisions
  /\ Reroot(Chowned)
  /\ Goto(c, "refresh") /\ Smooth
  /\ UNCHANGED <<dockerVars, tree, def, agents, cut, unpoured, req, mine>>

\* chown and shop-templates update, which pours .fabro and works in any directory of its own
Refresh(c) ==
  /\ At(c, "refresh") /\ Provisions
  /\ Goto(c, "final") /\ Reroot(Chowned)
  /\ \/ /\ Up /\ Smooth
        /\ def' = TRUE /\ tree' = (IF tree = "empty" THEN "other" ELSE tree)
     \/ (~Up \/ Chowned) /\ Smooth /\ UNCHANGED <<def, tree>>
     \/ Up /\ Fault(c, "pour") /\ UNCHANGED <<def, tree>>
  /\ unpoured' = (unpoured \/ ~def')
  /\ UNCHANGED <<dockerVars, agents, cut, req, mine>>

FinalChown(c) ==
  /\ At(c, "final") /\ Provisions
  /\ rooted' = Chowned
  /\ Goto(c, AfterProvisioning(c)) /\ Smooth
  /\ UNCHANGED <<dockerVars, tree, def, agents, cut, rerooted, unpoured, req, mine>>

\* the definition's identity, the provider's shim and settings, for the fabro tier: all of
\* it inside .fabro or outside the workspace, and all of it only warns
Wiring(c) ==
  /\ At(c, "wiring") /\ Goto(c, "db") /\ Smooth
  /\ UNCHANGED <<dockerVars, boxVars, req, mine>>

-----------------------------------------------------------------------------
(* launch and start-agent: barriers, probed from inside the container, and engage *)

Barrier(c, here, next, fault) ==
  /\ At(c, here)
  /\ \/ Up /\ Goto(c, next) /\ Smooth
     \/ ~Up /\ End(c, "failed") /\ Smooth
     \/ Fault(c, fault) /\ End(c, "failed")
  /\ UNCHANGED <<dockerVars, boxVars, req, mine>>

\* without a DSN there is nothing to probe
DbBarrier(c) ==
  \/ req[c].dsn /\ Barrier(c, "db", "vault", "db")
  \/ /\ At(c, "db") /\ ~req[c].dsn
     /\ Goto(c, "vault") /\ Smooth /\ UNCHANGED <<dockerVars, boxVars, req, mine>>

VaultBarrier(c) == Barrier(c, "vault", "engage", "vault")

\* tmux: the command line is typed, whatever comes of it.  fabro: the supervisor is
\* started detached, and dies at its cd when there is no definition.
Engage(c) ==
  /\ At(c, "engage") /\ Smooth
  /\ \/ /\ req[c].tier = "tmux" /\ Goto(c, "wait")
        /\ agents' = (IF Up THEN agents \cup {"tmux"} ELSE agents)
     \/ /\ req[c].tier = "fabro" /\ Up /\ End(c, "ok")
        /\ agents' = (IF def THEN agents \cup {"fabro"} ELSE agents)
     \/ req[c].tier = "fabro" /\ ~Up /\ End(c, "failed") /\ UNCHANGED agents
  /\ UNCHANGED <<dockerVars, tree, rooted, def, marks, req, mine>>

\* the markers and the prompt, see AgentSession
Wait(c) ==
  /\ At(c, "wait")
  /\ \/ "tmux" \in agents /\ End(c, "ok") /\ Smooth
     \/ "tmux" \notin agents /\ End(c, "failed") /\ Smooth
     \/ Fault(c, "agent") /\ End(c, "failed")
  /\ UNCHANGED <<dockerVars, boxVars, req, mine>>

-----------------------------------------------------------------------------
(* stop *)

\* docker rm -f, of whatever has the name, and its file system with it
Remove(c) ==
  /\ At(c, "remove")
  /\ \/ /\ status' = "absent" /\ agents' = {} /\ End(c, "ok") /\ Smooth
        /\ tree' = "empty" /\ rooted' = FALSE /\ def' = FALSE
     \/ Fault(c, "docker") /\ End(c, "raised") /\ UNCHANGED <<status, agents, tree, rooted, def>>
  /\ UNCHANGED <<network, id, user, marks, req, mine>>

Step(c) ==
  \/ Check(c) \/ Network(c) \/ Create(c) \/ ResolveSource(c) \/ Image(c) \/ Run(c)
  \/ CaPrep(c) \/ Clone(c) \/ Tracker(c) \/ Refresh(c) \/ FinalChown(c) \/ Wiring(c)
  \/ DbBarrier(c) \/ VaultBarrier(c) \/ Engage(c) \/ Wait(c) \/ Remove(c)

Next ==
  \/ \E c \in Cmd : (\E r \in Requests : Begin(c, r)) \/ Step(c) \/ Kill(c)
  \/ Die

Spec == Init /\ [][Next]_vars

-----------------------------------------------------------------------------
\* The variables have their types.
TypeOK ==
  /\ network \in BOOLEAN /\ status \in {"absent", "running", "exited"} /\ id \in 0..MaxRuns
  /\ user \in Users
  /\ tree \in {"empty", "clone", "mount", "other"}
  /\ rooted \in BOOLEAN /\ def \in BOOLEAN /\ touched \in BOOLEAN /\ cut \in BOOLEAN
  /\ rerooted \in BOOLEAN /\ unpoured \in BOOLEAN
  /\ stopped \in BOOLEAN
  /\ agents \subseteq {"tmux", "fabro"} /\ (~Up => agents = {})
  /\ pc \in [Cmd -> Steps \cup {"idle"}] /\ req \in [Cmd -> Requests]
  /\ exit \in [Cmd -> {"none", "ok", "failed", "raised"}]
  /\ mine \in [Cmd -> 0..MaxRuns] /\ clean \in [Cmd -> BOOLEAN]

Quiet == \A c \in Cmd : At(c, "idle")

\* a launch that reports success over the container it has started, while that one runs
Launched(c) ==
  /\ At(c, "idle") /\ exit[c] = "ok" /\ req[c].cmd = "launch"
  /\ id > 0 /\ mine[c] = id /\ Up

\* A launch that reports success over a container of its own has provisioned it: once
\* every command is done, that container holds the launch's clone or its mount, and runs
\* the tier asked for -- although commands that began earlier, for a container that has
\* gone, do their steps in this one (_launch.py:431-501).  A clone has a path of root's
\* only if the image's user is root and a command was killed, perhaps before its last
\* chown, or if the user is another and something ran as root, which no chown of such an
\* image can undo (_provisioning.py:344).  The fabro tier is missing only when the
\* repository carries no definition and none was poured: it is mounted, or a refresh
\* poured nothing.
LaunchedMeansReady ==
  \A c \in Cmd :
    Quiet /\ Launched(c) =>
      /\ tree = req[c].source
      /\ req[c].source = "clone" /\ rooted => IF user = "root" THEN cut ELSE rerooted
      /\ \/ req[c].tier \in agents
         \/ /\ req[c].tier = "fabro" /\ ~req[c].carried
            /\ req[c].source = "mount" \/ unpoured

\* "no file under /workspace remains root-owned" (bc_container_beads_usable.feature:56):
\* the workspace that a successful launch hands over is "UNCONDITIONALLY vscode-owned
\* ... regardless of any intermediate re-root" (_provisioning.py:337-339).
WorkspaceHandedOver ==
  \A c \in Cmd : Quiet /\ Launched(c) /\ req[c].source = "clone" => ~rooted

\* What failed or killed commands leave behind never keeps the next from working: after a
\* stop a launch that is left alone succeeds, whatever was there before (a network, a
\* container that exited or was only created, a mounted tree), and start-agent brings
\* an agent into a cloned container that has none ("no pre-agent-start step may
\* fatal-strand the container", _beads_provisioning.py:217).
RecoveryWorks ==
  \A c \in Cmd :
    clean[c] /\ At(c, "idle") =>
      \/ exit[c] = "ok" /\ Up /\ (req[c].cmd = "start-agent" => "tmux" \in agents)
      \/ req[c].cmd = "launch" /\ (req[c].source = "none" \/ (~req[c].derived /\ ~network))

\* A mounted tree's .beads and .claude stay as they are (_launch_prep.py:74-76): only a
\* launch whose own container has been replaced provisions it.
MountProvisionedByStrayOnly ==
  [][touched' /\ ~touched => \E c \in Cmd : pc'[c] # pc[c] /\ mine[c] # id]_vars
=============================================================================
