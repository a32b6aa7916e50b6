------------------------------- MODULE Watcher -------------------------------
(***************************************************************************)
(* The fabro watcher supervisor: the shell script that                     *)
(* fabro/engage.py:_fabro_engage_script builds and that a `docker exec -d` *)
(* leaves running in a BC container.                                       *)
(*                                                                         *)
(* One supervisor process drains the pending inbox, then reads the lines   *)
(* of `shop-msg watch`; for each work id it takes an in-flight lock (a     *)
(* mkdir) and forks a worker (run_finite) that runs one `fabro run` child  *)
(* against the one shared server, removes the child's config file and      *)
(* drops the lock.  The inbox is in the messaging database: it outlives    *)
(* the container, and a message leaves it when a child answers.            *)
(*                                                                         *)
(* The presence heartbeat has a module of its own.  The completed counter  *)
(* and the telemetry file that reports it decide nothing and are left out. *)
(***************************************************************************)
EXTENDS Naturals, Sequences

CONSTANTS
  WorkId,         \* work ids a message can carry
  Key,            \* file names a work id can be sanitised to
  SanitizedName,  \* [WorkId -> Key]: tr -c 'A-Za-z0-9._-' '_'
  Worker,         \* slots for forked run_finite processes
  None,           \* no work id
  Mounted,        \* /workspace is a bind mount: it survives the container
  Faults,         \* what may go wrong in this instance
  StreamCap       \* bound: unread lines of `shop-msg watch`

FaultKind == {"stop", "bootstrap", "statedir", "server", "query", "config", "child"}

ASSUME NameAssumption == SanitizedName \in [WorkId -> Key]
ASSUME NoneAssumption == None \notin WorkId
ASSUME FlagAssumption == Mounted \in BOOLEAN
ASSUME FaultAssumption == Faults \subseteq FaultKind
ASSUME BoundAssumption == StreamCap \in Nat

VARIABLES
  pending,    \* `shop-msg pending inbox`: ids of the unanswered messages
  phase,      \* where the supervisor's script stands
  snap,       \* lines of the drain's `shop-msg pending` output not yet read
  listening,  \* `shop-msg watch` has its LISTEN open
  stream,     \* lines it has written and the loop has not read
  server,     \* the one fabro server
  stateDir,   \* the in-flight directory exists
  locks,      \* its entries
  config,     \* per key: the work id written in child-<key>.toml
  wpc,        \* per worker: the step of run_finite it is at
  wid         \* per worker: its work id

supVars    == <<phase, snap, listening, stream>>
workerVars == <<wpc, wid>>
fileVars   == <<stateDir, locks, config>>
vars == <<pending, supVars, server, fileVars, workerVars>>

Phases   == {"down", "exec", "socket", "drain", "draining", "connect", "watch", "dead"}
Steps    == {"free", "start", "run", "answered", "exited", "cleaned"}

Live(w)      == wpc[w] # "free"
KeyOf(w)     == SanitizedName[wid[w]]
Running(id)  == \E w \in Worker : Live(w) /\ wid[w] = id

Goto(w, from, to) == wpc[w] = from /\ wpc' = [wpc EXCEPT ![w] = to]

Init ==
  /\ pending = {}
  /\ phase = "down" /\ snap = {} /\ listening = FALSE /\ stream = <<>>
  /\ server = "down"
  /\ stateDir = FALSE /\ locks = {} /\ config = [k \in Key |-> None]
  /\ wpc = [w \in Worker |-> "free"] /\ wid = [w \in Worker |-> None]

-----------------------------------------------------------------------------
(* Mutants: the mistakes the properties are there to catch *)

\* the drain's `[ -n "$_dr_wid" ]` guard dropped: a blank line is a work id
DrainQueryBlank ==
  /\ phase = "drain" /\ phase' = "draining"
  /\ snap' = pending \cup {None}
  /\ UNCHANGED <<pending, listening, stream, server, fileVars, workerVars>>

\* the lock taken with mkdir -p, which succeeds on an existing directory
SpawnMkdirP(id) ==
  /\ stateDir
  /\ locks' = locks \cup {SanitizedName[id]}
  /\ \E w \in Worker :
       /\ wpc[w] = "free"
       /\ wpc' = [wpc EXCEPT ![w] = "start"]
       /\ wid' = [wid EXCEPT ![w] = id]
  /\ UNCHANGED <<pending, stateDir, config>>

\* rm of the child's config file forgotten
ConfigKept(w) ==
  /\ Goto(w, "exited", "cleaned")
  /\ UNCHANGED <<pending, supVars, server, fileVars, wid>>

\* run_finite returns before rm of the lock when the child failed
ReleaseOnSuccess(w) ==
  /\ Goto(w, "cleaned", "free")
  /\ locks' = IF wid[w] \in pending THEN locks ELSE locks \ {KeyOf(w)}
  /\ wid' = [wid EXCEPT ![w] = None]
  /\ UNCHANGED <<pending, supVars, server, stateDir, config>>

\* the worker takes its message out of the inbox when the child is over, answered
\* or not
ReleaseAcks(w) ==
  /\ Goto(w, "cleaned", "free")
  /\ locks' = locks \ {KeyOf(w)}
  /\ pending' = pending \ {wid[w]}
  /\ wid' = [wid EXCEPT ![w] = None]
  /\ UNCHANGED <<supVars, server, stateDir, config>>

\* no drain at the end of the stream
StreamEndsNoDrain ==
  /\ phase = "watch" /\ ~listening /\ stream = <<>>
  /\ phase' = "connect"
  /\ UNCHANGED <<pending, snap, listening, stream, server, fileVars, workerVars>>

-----------------------------------------------------------------------------
(* The environment *)

\* Another shop sends a message.  The row is in the inbox at once; a line
\* reaches the supervisor only if its watch is listening at that moment.
Send(id) ==
  /\ id \notin pending
  /\ IF listening
     THEN Len(stream) < StreamCap /\ stream' = Append(stream, id)
     ELSE stream' = stream
  /\ pending' = pending \cup {id}
  /\ UNCHANGED <<phase, snap, listening, server, fileVars, workerVars>>

ServerBinds ==
  /\ server = "starting" /\ server' = "up"
  /\ UNCHANGED <<pending, supVars, fileVars, workerVars>>

ServerDies ==
  /\ "server" \in Faults
  /\ server # "down" /\ server' = "down"
  /\ UNCHANGED <<pending, supVars, fileVars, workerVars>>

\* `bc-container stop` (docker rm -f): every process of the container dies, and
\* its file system goes too unless the workspace is a mount.
Stop ==
  /\ "stop" \in Faults
  /\ phase # "down"
  /\ phase' = "down" /\ snap' = {} /\ listening' = FALSE /\ stream' = <<>>
  /\ server' = "down"
  /\ wpc' = [w \in Worker |-> "free"] /\ wid' = [w \in Worker |-> None]
  /\ IF Mounted
     THEN UNCHANGED fileVars
     ELSE /\ stateDir' = FALSE /\ locks' = {} /\ config' = [k \in Key |-> None]
  /\ UNCHANGED pending

-----------------------------------------------------------------------------
(* The supervisor *)

\* launch's detached exec: docker starts the script and returns.
Engage ==
  /\ phase = "down" /\ phase' = "exec"
  /\ UNCHANGED <<pending, snap, listening, stream, server, fileVars, workerVars>>

\* The bootstrap chain to its end.  mkdir -p leaves what it finds in the
\* in-flight directory; only the counter is reset.
Bootstrap ==
  /\ phase = "exec" /\ phase' = "socket"
  /\ stateDir' = TRUE
  /\ server' = "starting"
  /\ UNCHANGED <<pending, snap, listening, stream, locks, config, workerVars>>

\* cd or `fabro install` fails: `|| true` hides it, but no server.env was
\* written and sourcing a missing file ends the shell.
BootstrapExits ==
  /\ "bootstrap" \in Faults
  /\ phase = "exec" /\ phase' = "dead"
  /\ UNCHANGED <<pending, snap, listening, stream, server, fileVars, workerVars>>

\* The settings append or the mkdir fails: the rest of the chain is skipped,
\* no server is started, and the script goes on.
BootstrapCutShort ==
  /\ "statedir" \in Faults
  /\ phase = "exec" /\ phase' = "socket"
  /\ UNCHANGED <<pending, snap, listening, stream, server, fileVars, workerVars>>

\* The wait for the socket ends when it is there, when the server is dead, or
\* after 150 probes: in every case the script goes on.
SocketWaitEnds ==
  /\ phase = "socket" /\ phase' = "drain"
  /\ UNCHANGED <<pending, snap, listening, stream, server, fileVars, workerVars>>

\* drain: one `shop-msg pending inbox` whose output is then read line by line
DrainQuery ==
  /\ phase = "drain" /\ phase' = "draining"
  /\ snap' = pending
  /\ UNCHANGED <<pending, listening, stream, server, fileVars, workerVars>>

DrainQueryFails ==
  /\ "query" \in Faults
  /\ phase = "drain" /\ phase' = "connect"
  /\ UNCHANGED <<pending, snap, listening, stream, server, fileVars, workerVars>>

\* dispatch <id>: the mkdir succeeds and a worker is forked ...
Spawn(id) ==
  /\ stateDir /\ SanitizedName[id] \notin locks
  /\ locks' = locks \cup {SanitizedName[id]}
  /\ \E w \in Worker :
       /\ wpc[w] = "free"
       /\ wpc' = [wpc EXCEPT ![w] = "start"]
       /\ wid' = [wid EXCEPT ![w] = id]
  /\ UNCHANGED <<pending, stateDir, config>>

\* ... or it fails, for whatever reason, and the id is skipped
Skip(id) ==
  /\ ~stateDir \/ SanitizedName[id] \in locks
  /\ UNCHANGED <<pending, fileVars, workerVars>>

Dispatch(id) == Spawn(id) \/ Skip(id)

DrainLine(id) ==
  /\ phase = "draining" /\ id \in snap
  /\ Dispatch(id)
  /\ snap' = snap \ {id}
  /\ UNCHANGED <<phase, listening, stream, server>>

DrainEnds ==
  /\ phase = "draining" /\ snap = {}
  /\ phase' = "connect"
  /\ UNCHANGED <<pending, snap, listening, stream, server, fileVars, workerVars>>

\* `shop-msg watch` is started (after a drain, and the sleep 2) and opens its
\* LISTEN ...
Listen ==
  /\ phase = "connect" /\ phase' = "watch" /\ listening' = TRUE
  /\ UNCHANGED <<pending, snap, stream, server, fileVars, workerVars>>

\* ... or cannot connect and exits: the stream ends with no line
ListenFails ==
  /\ "query" \in Faults
  /\ phase = "connect" /\ phase' = "drain"
  /\ UNCHANGED <<pending, snap, listening, stream, server, fileVars, workerVars>>

WatchLine ==
  /\ phase = "watch" /\ stream # <<>>
  /\ Dispatch(Head(stream))
  /\ stream' = Tail(stream)
  /\ UNCHANGED <<phase, snap, listening, server>>

\* the watch process ends (its database connection drops)
WatchEnds ==
  /\ phase = "watch" /\ listening /\ listening' = FALSE
  /\ UNCHANGED <<pending, phase, snap, stream, server, fileVars, workerVars>>

\* the read loop has consumed what the pipe still held and sees the end of file
StreamEnds ==
  /\ phase = "watch" /\ ~listening /\ stream = <<>>
  /\ phase' = "drain"
  /\ UNCHANGED <<pending, snap, listening, stream, server, fileVars, workerVars>>

-----------------------------------------------------------------------------
(* run_finite, one worker *)

Materialize(w) ==
  /\ Goto(w, "start", "run")
  /\ config' = [config EXCEPT ![KeyOf(w)] = wid[w]]
  /\ UNCHANGED <<pending, supVars, server, stateDir, locks, wid>>

\* non-fatal: the file is left as it was, or empty
MaterializeFails(w) ==
  /\ "config" \in Faults
  /\ Goto(w, "start", "run")
  /\ config' \in {config, [config EXCEPT ![KeyOf(w)] = None]}
  /\ UNCHANGED <<pending, supVars, server, stateDir, locks, wid>>

\* the child can work: the server accepts it and the file names its id
Configured(w) == server = "up" /\ config[KeyOf(w)] = wid[w]

\* the child's emit node answers the message
Answer(w) ==
  /\ Goto(w, "run", "answered")
  /\ Configured(w)
  /\ pending' = pending \ {wid[w]}
  /\ UNCHANGED <<supVars, server, fileVars, wid>>

ChildEnds(w) ==
  /\ \/ Goto(w, "answered", "exited")
     \/ /\ Goto(w, "run", "exited")
        /\ "child" \in Faults \/ ~Configured(w)
  /\ UNCHANGED <<pending, supVars, server, fileVars, wid>>

RemoveConfig(w) ==
  /\ Goto(w, "exited", "cleaned")
  /\ config' = [config EXCEPT ![KeyOf(w)] = None]
  /\ UNCHANGED <<pending, supVars, server, stateDir, locks, wid>>

Release(w) ==
  /\ Goto(w, "cleaned", "free")
  /\ locks' = locks \ {KeyOf(w)}
  /\ wid' = [wid EXCEPT ![w] = None]
  /\ UNCHANGED <<pending, supVars, server, stateDir, config>>

WorkerStep(w) ==
  \/ Materialize(w) \/ MaterializeFails(w) \/ Answer(w) \/ ChildEnds(w)
  \/ RemoveConfig(w) \/ Release(w)

SupervisorStep ==
  \/ Bootstrap \/ BootstrapExits \/ BootstrapCutShort \/ SocketWaitEnds
  \/ DrainQuery \/ DrainQueryFails \/ (\E id \in WorkId : DrainLine(id)) \/ DrainEnds
  \/ Listen \/ ListenFails \/ WatchLine \/ StreamEnds

Next ==
  \/ \E id \in WorkId : Send(id)
  \/ ServerBinds \/ ServerDies \/ Stop \/ Engage \/ WatchEnds
  \/ SupervisorStep
  \/ \E w \in Worker : WorkerStep(w)

Spec == Init /\ [][Next]_vars

\* Every process that can run does; the operator engages a BC that is down; the
\* server binds.  DrainQuery and Listen are retried for ever, so they succeed.
Fairness ==
  /\ WF_vars(SupervisorStep) /\ WF_vars(Engage) /\ WF_vars(ServerBinds)
  /\ SF_vars(DrainQuery) /\ SF_vars(Listen)
  /\ \A w \in Worker : WF_vars(WorkerStep(w))

FairSpec == Spec /\ Fairness

-----------------------------------------------------------------------------
\* The variables have their types.
TypeOK ==
  /\ pending \subseteq WorkId
  /\ phase \in Phases
  /\ snap \subseteq WorkId
  /\ listening \in BOOLEAN
  /\ stream \in Seq(WorkId)
  /\ server \in {"down", "starting", "up"}
  /\ stateDir \in BOOLEAN
  /\ locks \subseteq Key
  /\ config \in [Key -> WorkId \cup {None}]
  /\ wpc \in [Worker -> Steps]
  /\ wid \in [Worker -> WorkId \cup {None}]

-----------------------------------------------------------------------------
(* Safety *)

\* Exactly one child per work id concurrently (engage.py:121): two live workers
\* never run under one name, so they never share a config file or a worktree.
OneChildPerName ==
  \A v, w \in Worker : Live(v) /\ Live(w) /\ KeyOf(v) = KeyOf(w) => v = w

\* A worker's child-<key>.toml names the worker's own id or nothing, from the
\* fork to the release: no other worker, earlier or later, writes it or removes it
\* under a running child, although ids that collide after tr share the file.
OwnConfigOnly ==
  \A w \in Worker : Live(w) => config[KeyOf(w)] \in {wid[w], None}

\* A lock in the in-flight directory stands for a live worker, so a skipped id
\* really has a child in flight and no failure of a child leaks a lock.
LockMeansRunning ==
  \A k \in locks : \E w \in Worker : Live(w) /\ KeyOf(w) = k

\* The watcher implements the intake it promises.
busy ==
  [k \in Key |->
     IF \E w \in Worker : Live(w) /\ KeyOf(w) = k
     THEN wid[CHOOSE w \in Worker : Live(w) /\ KeyOf(w) = k]
     ELSE None]

Intake == INSTANCE WorkIntake WITH NameOf <- SanitizedName, inbox <- pending
IntakeSpec == Intake!Spec

\* Inductive strengthening of the safety invariants.  The first conjunct ties a
\* worker to its lock, the second says a config file needs its lock, so a worker
\* that has just taken a lock starts with no file under its name; the third is
\* what makes the release keep the second.
LockInv ==
  /\ \A w \in Worker : Live(w) => wid[w] \in WorkId /\ KeyOf(w) \in locks
  /\ \A k \in Key : config[k] # None => k \in locks
  /\ \A w \in Worker : wpc[w] = "cleaned" => config[KeyOf(w)] = None
  /\ OneChildPerName
  /\ OwnConfigOnly

\* The directory is there once the bootstrap that makes it is over: without it every
\* id would be skipped (the mkdir of its lock fails) with nothing in flight.
DirInv == phase \notin {"down", "exec", "dead"} => stateDir

-----------------------------------------------------------------------------
(* Steps *)

\* "SKIP if a child is already running for it" (engage.py:450): a drain line is
\* passed over only when a child runs under that name.
SkipMeansInFlight ==
  [][\A id \in WorkId :
       phase = "draining" /\ id \in snap /\ id \notin snap' /\ locks' = locks /\ phase' = phase
       => \E w \in Worker : Live(w) /\ KeyOf(w) = SanitizedName[id]]_vars

-----------------------------------------------------------------------------
(* Liveness *)

\* another id that sanitises alike has the name
NameTaken(id) == \E w \in Worker : Live(w) /\ wid[w] # id /\ KeyOf(w) = SanitizedName[id]

\* the script runs, past its bootstrap, and can take locks
Supervising == phase \notin {"down", "exec", "dead"} /\ stateDir

\* A message that no child runs for, because no wake came, because its wake was skipped or
\* because its child failed, gets a child from the next drain, answered ones excepted.
\* The next drain comes when the watch ends (engage.py:485), and nothing in the code ends
\* it: a watch that stays connected for good is the one case in which none comes.
\* Nothing is said of a script that does not supervise, or while a colliding id has
\* the name.
PendingIsRetried ==
  \A id \in WorkId :
    id \in pending /\ ~Running(id)
      ~> \/ Running(id) \/ id \notin pending
         \/ []listening
         \/ NameTaken(id) \/ ~Supervising

\* What the comment on the supervise loop says (engage.py:476-477): every message is
\* served, those that arrive while the watch is not listening too.  No drain comes after
\* the LISTEN, so one that arrives just before it waits for the watch to end.
EventuallyServed ==
  \A id \in WorkId : id \in pending ~> Running(id) \/ id \notin pending

\* The in-flight lock is ALWAYS released (engage.py:432), however the child ends.
LockReleased ==
  \A k \in Key : k \in locks ~> k \notin locks
=============================================================================
