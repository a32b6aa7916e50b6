# Verification of shopsystem-bc-launcher

`bc-container` launches one docker container per *bounded context* (BC) and
engages an agent in it: a `claude` session in tmux, or a `fabro` watcher
supervisor.  This directory holds TLA+ models of the launcher and of what it
leaves running, the TLC instances that check them, and TLAPS proofs.  Paths
below are relative to `src/src/bc_launcher/` of the repository.

## 1. Inventory

| component | state | operations | interacts with | what is hard | what makes it correct |
|---|---|---|---|---|---|
| watcher supervisor (`fabro/engage.py`) | in-flight locks, child configs, counter and telemetry, server process | bootstrap, drain, watch loop, dispatch, `run_finite` | inbox and NOTIFY of the messaging database, fabro server, the finite workflow | concurrent workers, missed notifications, stale listings, container removal | one child per work id, locks released, no message lost in a gap |
| agent session (`controller/_agent_session.py`, `_engage.py`, `readiness.py`, `driver/real.py`) | tmux session, pane contents, trust and readiness flags, diagnostics file | barriers, start claude, accept trust, wait for readiness, option screens, inject | messaging database, agent-vault broker, the pane | timeouts racing a late screen, two operators, keystrokes into the wrong screen | prompt only into a ready agent, one agent per container, bounded wait |
| launch (`controller/_launch.py`, `_launch_prep.py`, `_provisioning.py`, `_commands.py`) | container, network, workspace, engage state | launch, start-agent, stop, status, ensure-ready | docker, git, manifest, the two engage tiers | partial failure between steps, concurrent launches, idempotence | exit 0 means engaged over a workspace |
| tracker provisioning (`tracker_provision.py`, `controller/_beads_provisioning.py`) | local Dolt database, `issues.jsonl`, config, remote | bootstrap, create, seed, heal | GitHub, Dolt remote | a step of the heal failing half way, force push | no issue is lost |
| dispatcher agent (`assets/fabro-def/dispatch_acp_agent.py`, `dispatcher.fabro`) | in-flight set of the tracker | poll, decide, spawn | inbox, fabro | duplicates in one listing, spawn failing after it was recorded | one child per pending id |
| finite workflow (`assets/fabro-def/workflow.fabro`) | current node, retries, worktree, branch, main, outbox | one node per step, edges by outcome and directive | git, beads, messaging | retries, fail-closed routing | no response without a deliverable, always a report |
| presence (`fabro/engage.py`, `liveness.py`) | the BC's row in the messaging database, the heartbeat loop, the foreground watch | heartbeat loop, bounded watch | messaging database, `bc-status`, fabro server | cadence against the staleness window, server death | an idle live BC stays online, a dead one does not |
| manifest and networking (`manifest.py`, `manifest_controller.py`, `networking.py`, `naming.py`) | `bc-manifest.yaml`, the clones under `repos_dir` | validate, list, sync; resolution of network, slug, remote and probe address for launch and start-agent | git, GitHub, the environment and the shop's files | precedence of sources, a clone failing or killed in the middle of a sync, an operator who works beside it | sync can be repeated and agrees with validate; what validates can be launched |
| providers, settings, agent-vault strings (`fabro/provider.py`, `fabro/llm_provider.py`, `fabro/settings.py`, `agent_vault.py`) | none | build strings | - | - | - |
| command line (`cli.py`, `cli_parser.py`) | none | parse, call a controller method | - | - | - |

The behaviours that are hard to test are listed with their lines under
`hazards` in `PROJECT.json`.


## 2. Plan

Order: what the launcher leaves running first, since there every hazard is a
matter of timing; then what it does while launching; then the resolution of its
inputs, which is sequential.

| # | modules | component | state |
|---|---|---|---|
| 1 | `Watcher`, `WorkIntake`, `WatcherProof` | watcher supervisor, its abstract specification and the refinement | done |
| 2 | `AgentSession`, `AgentSessionProof` | the tmux tier: launch, start-agent and inject on one session | done |
| 3 | `TrackerProvision`, `TrackerProof` | the beads ladder: bootstrap, create, seed, heal | done |
| 4 | `Workflow`, `WorkflowProof` | the finite run behind the watcher's "child": nodes, edges and retries of `workflow.fabro`, several runs sharing `main`, worktrees, branches and the inbox; refines what the supervisor assumes of its children (`WorkIntake`) | done |
| 5 | `Launch`, `LaunchProof` | container lifecycle: launch, start-agent and stop on one BC, several at a time, each killed anywhere, with `AgentSession` and `TrackerProvision` as single steps | done |
| 6 | `Dispatcher`, `DispatcherProof` | the dispatcher agent's in-flight tracker, its polls, spawns and restarts | done |
| 7 | `Presence`, `PresenceProof` | heartbeat cadence against the staleness window, server death, the foreground watch | done |
| 8 | `Resolution`, `Manifest`, `ManifestProof` | precedence of network, slug, broker and remote sources as pure operators; manifest sync beside an operator, against validate and launch | done |

The abstract specification is `WorkIntake` (one child per name, a message leaves
only by the answer of its own child), which `Watcher` and `Workflow` are shown to
implement.  Every safety invariant and action property of the runs has a theorem;
liveness stays with TLC (section 12).  All modules keep their parameters as CONSTANTS with named
assumptions, one action per operation, and no RECURSIVE operator.

## 3. The watcher supervisor: `Watcher`, `WorkIntake`

**What is modelled.**  The shell script that `fabro/engage.py` builds: the
bootstrap chain (`Bootstrap`, `BootstrapExits` for `|| true && . server.env`
ending the shell, `BootstrapCutShort` for a chain broken after the install), the
bounded wait for the socket, the drain (`DrainQuery` takes the listing,
`DrainLine` works it off line by line, since messages come and go in between),
`shop-msg watch` (`Listen`, `WatchLine`, `StreamEnds`), `dispatch`
(`Spawn`/`Skip`: the `mkdir` of the lock succeeds or not) and `run_finite` one
statement per action: write the child's config, run the child, remove the config,
drop the lock.  The counter and the telemetry file are left out: they decide nothing.

| model | code |
|---|---|
| `phase`, `snap`, `stream`, `listening` | where the script stands, the unread lines of its two inputs, the watch's LISTEN |
| `locks`, `config`, `stateDir` | the files under the state directory |
| `wpc`, `wid` | one background `run_finite &` each |
| `pending` | the inbox in the messaging database |
| `SanitizedName` | the `tr` that makes a file name of a work id: two ids may collide |

The environment sends messages, binds and kills the server, drops the watch's
connection, and stops the container (`docker rm -f`), which destroys the file
system unless `/workspace` is a mount (`Mounted`).  A child answers its message or
not (`Answer`, `ChildEnds`); section 6 shows what is inside it.

**Abstract specification.**  `WorkIntake` knows an inbox and, per name, the id
whose child runs.  `Watcher!IntakeSpec` maps `inbox` to `pending` and `busy` to
the id of the live worker under a name.

| run | shows |
|---|---|
| `watcher` | three ids of which two collide on one file name, two workers, a stream of two lines, every fault, stop and relaunch, a watch that may stay connected for ever: `TypeOK`, `OneChildPerName`, `OwnConfigOnly`, `LockMeansRunning`, refinement of `WorkIntake`, `PendingIsRetried`, `LockReleased` (87 thousand states) |
| `watcher_gap` | fails: see finding 2 |
| `watcher_stale_lock` | fails: see finding 1 |

`PendingIsRetried` says how far intake can be relied on, whatever the watch does: a
pending message without a child gets one, is answered, or the watch listens for ever
after.  In that last case nothing comes, since only the end of a watch leads to a drain
and nothing in the code ends a watch: that is what `EventuallyServed` asks for and
`watcher_gap` refutes, with one id and no fault at all, and a child that fails while the
watch is healthy stays without another for the same reason.  Two more exceptions
are the supervisor's own: an id that sanitises alike has the name, or the script is down
or has no in-flight directory.

**Bounds.**  Two workers are the least that can collide, and a third id with a
name of its own lets a second child run beside them; the stream holds two
unread lines because a longer pipe only delays lines whose dispatch is
independent.  An id may be sent again whenever it is not pending.

**Fairness.**  Weak for the supervisor's script and every worker (processes that
can run do), for the operator's relaunch and the server's bind; strong for
`DrainQuery` and `Listen`, which the script retries for ever and which therefore
succeed in the end.  None for the end of a watch.  That a worker goes on includes that
its child ends: a provider that never answers is outside (section 6 bounds the graph's
steps, not an agent's time).

**Proof.**  `LockInv` is the inductive invariant: a live worker holds the lock of
its name; a config file exists only under a held lock; a worker that reaches the
release has removed its file; and `OneChildPerName` and `OwnConfigOnly`
themselves.  The second and third part are what make the config file of a worker
that has just taken a lock empty or its own although ids collide.  From it
`TypeCorrect`, `MutualExclusion`, `ConfigOwnership` (for all sets of ids, names
and workers, every fault, mounted or not), `NoStaleLock` (assuming `~Mounted`)
and `WatcherImplementsIntake`, where `busy` is a CHOOSE that `OneChildPerName`
makes unique.  `SkipsAreInFlight` is the other half of finding 1: with `~Mounted` and
an in-flight directory that could be made (`DirInv`), what `watcher_stale_lock` refutes
holds, whatever children, queries, configs and the server do.

## 4. The agent session: `AgentSession`

**What is modelled.**  The operator commands `launch`, `start-agent` and `inject`
as host processes on one tmux session: `_start_agent_session` from
`tmux new-session` over the two readiness barriers, the claude command, the two
loops (trust banner; input-ready marker with the declining of blocking prompts),
the option screen check, and the injection, typed or pasted from a buffer when
the prompt is longer than `MAX_ARG_STRLEN`.  Every capture and every send-keys
is a step of its own, so anything may happen in between; results that the code
does not look at (`new-session`, `send-keys`) are not looked at.

| model | code |
|---|---|
| `screen`, `todo`, `line`, `submitted` | the pane, what claude has still to show, whose prompts are on the input line, whose claude has been given |
| `disturbed`, `crashed` | history: commands that lost the input or the buffer after looking; claude or the container was killed |
| `seen`, `left` | `last_pane` ("changed" when the pane has moved on since) and the polls left to the deadline of `wait_for_pane_marker` and its callers |
| `buffer` | the tmux buffer `bc-startup-prompt`, shared by all commands |
| `pc`, `exit` | per command: the statement, and the result with its diagnostic cause |

Claude is external: which screens it shows (`Startup`, `Options`), that it passes
the trust screen by itself (`SelfAdvance`), and what Enter and Esc do to a screen
come from the launcher's comments and matchers.  Claude may hang on any screen
and may be killed (`exit`), the container may be stopped, probes may fail.

| run | shows |
|---|---|
| `session` | a launch and a start-agent, both with an oversized prompt, and an inject, all startup screens, option screens at any time, a pane that is redrawn at will, crashes, stops, failing probes: `TypeOK`, `PromptOnlyAtInput`, `EngagedMeansSubmitted`, `TrustNeverEscaped`, `DeadlinesKept`, `BlockingPromptDismissed` (253 thousand states) |

`EngagedMeansSubmitted` names the two cases in which the code loses a prompt and exits 0
all the same, and says that there is no third.  An option screen that comes after the one
look for it (`_engage.py:383`) takes the prompt's text and its Enter; another command's
load or paste of the buffer, which has one name for all, comes between the command's own
(`_agent_session.py:466`).  `disturbed` records exactly these.

`Remaining` counts the statements ahead of a command and weighs the polls until its
deadlines (`Budget`: two for each poll left to the first loop, three for each left to
the second, where a poll may lead back over the declining of a prompt).  `DeadlinesKept`
says that each step of a command leaves less, attempts and declined prompts included,
except a capture of a pane that has changed since the last.  So a command takes at most
16 + 5 * `Polls` steps of its own besides such captures, and only a claude that redraws
within every budget can hold it past its total (section 11): that exception is the code's
(`driver/real.py:470`), and a bound on it would be false.

**Bounds.**  One command of each kind: their steps differ only by kind and by the
form of the prompt.  `Polls` is 2 instead of 12: what counts is that a wait
may end with or without time left.
Deadlock is not checked: each command runs once, so the system stops.

**Fairness.**  Only for the steps of a command that has begun (a host process
runs on); nothing is asked of claude, which may hang on any screen.

**Proof.**  `SessionInv` says what each command knows of the screen at each
statement (past the first loop claude has left its startup screens, which come
only after a fresh claude command, and no second claude can start in a session
whose shell is gone); with the lemma that keys never lead backwards it is
inductive for any number of commands.  `TypeCorrect`, `PromptGoesToInput` and
`EscapeSparesTrust` follow.  `EngagedSubmits` adds `SubmitInv` (an undisturbed command's
prompt is in the shared buffer, on the line or among the submitted) and assumes nothing of
claude, of its screens or of the number of oversized prompts.  `DeadlinesBind` is
`DeadlinesKept` for any number of commands and any `Polls`, with every fault.

## 5. Tracker provisioning: `TrackerProvision`

**What is modelled.**  `_provision_beads_tracker` and the scripts of
`tracker_provision.py`: owner writeback, `bd bootstrap` and its outcomes, and the
three rungs it may lead to, each tried at most once and in the order of the code:
create the GitHub repository, seed an empty Dolt remote, rebuild a database bd
refuses to migrate.  The seed and the heal are one action per command, because
`set -e` or `|| true` decides after each what a failure does.  After provisioning
the agent works: it creates issues, commits the registry, pushes; other clones of
a lead's tracker push too; the next image brings a newer schema.

| model | code |
|---|---|
| `registry`, `committed` | `.beads/issues.jsonl` in the BC's repository |
| `kind`, `remote`, `stale` | per owner, the tracker repository: absent, without Dolt data, with Dolt data and schema |
| `db`, `local`, `origin` | `.beads/embeddeddolt`: none, partial, refused for its schema, open; its issues; its remote |
| `sync`, `stripped` | `sync.remote` in config.yaml, and its cutting out during seed and heal |
| `rung`, `result` | the `if` blocks of the ladder and the last outcome of bootstrap |

bd, git and gh are external, modelled from the scripts, their comments and
`docs/runbooks/beads-schema-skew-recovery.md`; in particular `bd init` and
`bd bootstrap` import the committed registry (runbook line 176).  An issue is its
id, as in the subset guard: the guard does not compare bodies, so an older body
of a known id passes it.

| run | shows |
|---|---|
| `tracker_safety` | a BC and a marked lead of the launcher's own org, relaunched over newer images, every external command failing or not: `TypeOK`, `OpenIsComplete`, `IssuesKept`, `Provisioned` |

**Bounds.**  Three issues, interchangeable (symmetry): one committed, one only on
the remote, one only local.  Nothing else is bounded; the ladder is finite.
`IssuesKept` leaves out the push after a failed export (section 11) and the end of
the container, which takes unpushed issues with it by design.

**Proof.**  `KeptInv` = `OpenIsComplete` /\ `CopyInv` (a database that cannot be
written holds nothing of its own) /\ `StageInv` (where the ladder stands tells
what the database is) /\ `HealInv` (the heal runs for the only clone, on a copy
of the remote that the guard found in the registry before anything was
destroyed).  `IssuesKept` is not implied by types or by `OpenIsComplete`: that the
forced push replaces nothing the registry lacks has to be carried over destroy,
rebuild and reseed.  `WritableIsComplete` holds without further assumption;
`NoIssueLost` assumes `Org = Origin` and no unmarked lead.

`Provisioned` says what a launch without a failed command ends with, and needs to
know that of every step before: `FaultlessInv` has one part per rung.
`BootstrapFinds`: a bootstrap is the launch's first, or follows a create that left a
repository, or a seed or heal that left a seeded database.  `SeedFinds`: the seed
starts from a repository without Dolt data, and once cleared it rebuilds from
nothing, so `bd init` cannot meet the partial database.  `HealFinds`: the heal has a remote to replace,
goes past its guard only after an export, and destroys only when there is a registry.
`FinishFinds`: what falls short of a seeded database is one of the refusals.  It is
guarded by `~fault` and inductive together with `StageInv`, which has no such guard:
whatever earlier, failing launches left behind is where a faultless one starts.
`FaultlessLaunchProvisions` needs `Org = Origin` and nothing of the shops.

## 6. The finite run: `Workflow`

**What is modelled.**  `assets/fabro-def/workflow.fabro`, every node and edge, for
several runs at once.  The graph is three tables: `OnSuccess` (edges without
condition), `Branch` (labelled edges of agent nodes) and `OnFailure` (edges with
`outcome=failed`).  A native node is its script; `integ` is split at the push,
since other runs push between its fetch and its push.  An agent node is external:
it ends with one of the directives its prompt names or with an error, repeated as
`max_retries` allows (`retry=N` is inert, as the file says).

| model | code |
|---|---|
| `node`, `attempt` | where each run stands; errors of the current agent node |
| `report` | what the current run has told the lead (history) |
| `pending`, `response` | the inbox listing; the one outbox response an id can have |
| `main`, `fetched` | origin's main, and how much of it the shared clone knows |
| `trees`, `base`, `own`, `dirty` | `../wt-<id>` and `work/<id>`: existence, base, added commits, uncommitted changes (`None`: the clone itself, where the flat lane works) |
| `Contains` | `armed` looks for an id by `grep` in the listing |

A commit is the id it belongs to, whether its message names that id, and whether
it is a `test(red)`, a `feat(green)` or neither.  Whether tests pass and whether
scenario tags are right is the agents' judgement and no data of the model.

| run | shows |
|---|---|
| `workflow_safety` | a scenario id and a flat id, the line of one found by a grep for the other, every command, model call, run and container failing or not: `TypeOK`, `CompleteMeansIntegrated`, `NothingLost`, `EndIsReported`, `MainOnlyGrows`, `RunIsFinite`, refinement of `WorkIntake` (1.5 million states) |
| `workflow_retry` | fails: see finding 2 |

**Bounds.**  Two ids, one per lane, since lanes differ and runs of one lane meet in
the same places (`workflow_retry` has two scenario ids).  `MaxMain` leaves room for
two commits: enough for a run whose id an earlier run has integrated and whose own
push is then rejected, which is where the gate's `git log --grep` could be fooled.
`MaxRetries` is 1 instead of 3 and 4: what counts is a failure with and without an
attempt left.  `Diligent` (implementers name the id and commit everything) is
assumed only where a run must fail in spite of it, and `FlatPushes` (the flat
implementer pushes although told not to) only where a flat id is to get through.

**Fairness.**  `workflow_retry` assumes that every run goes on and that the
supervisor starts a pending id again.  The second is more than the supervisor does with
a healthy watch (`PendingIsRetried` and `watcher_gap` in section 3): the run fails even
if every message is tried again for ever.  It has no faults, so the counterexample owes
nothing to an environment that stays broken.

**Proof.**  `WorkflowProof` first says where each kind of node can go: native nodes
along `OnSuccess` or `OnFailure`, agents along `Branch`, and no other run moves.
`EndIsReported` then needs `ReportInv`: a run has told the lead something exactly
when it stands at `reported` or `done`.  `MainOnlyGrows` holds step by step, since
the only pushes append; the next one also needs `BoundInv`: no branch is based
beyond main.
`CompleteMeansIntegrated` is not inductive: what makes it true is passed from gate
to gate.  `GateInv` says it at each node: behind the push main holds the whole log
of the worktree, behind the gate the worktree is also clean and the id is named on
main, and the answer keeps both.  Steps of other runs keep it because main only
grows and a prefix of a prefix is a prefix, which are lemmas of their own.
`RunIsFinite` weighs the nodes (`Level`): each edge, taken on success, on a branch or
on a failure, leads to a lighter one, and an error of an agent uses up an attempt.  So
`EveryRunEnds`: a run has at most 17 * (`MaxRetries` + 1) steps, whatever the agents
judge and whichever commands fail; the gap reports of the review and the failed gate
lead forward.  That is what `Watcher` asks of its children where weak fairness of its
workers lets every child end, and `LockReleased` rests on it; that each agent node ends
is assumed.
`WorkflowImplementsIntake` maps Send, Begin, the end of a run, its answer and the
container's end to the abstract steps; every other step leaves the run running.

## 7. The container and its commands: `Launch`

**What is modelled.**  The controller's `launch`, `start_agent` and `stop` as
processes that run at the same time on one BC.  Nothing locks the BC, and every
step addresses network, container and workspace by name, so a command may do its
next step in a container it has not started.  One action is one call or one block
of calls that succeed or warn together; the order, early returns, exit codes and
exceptions (`subprocess.run(check=True)`) are those of the code.  `AgentSession` is
the step `Wait` here, and `TrackerProvision` the step `Tracker`.

| model | code |
|---|---|
| `network`, `status`, `id`, `user` | docker's objects: the network, the container that has the name and whether it runs, and the user its image gives to an exec that names none |
| `tree`, `rooted`, `def` | `/workspace`: a clone, the operator's mount or neither; whether a path of it belongs to root; whether `.fabro` is there |
| `agents` | the tmux session with its claude, the fabro supervisor |
| `pc`, `req`, `exit`, `mine` | per command: its statement, its arguments as far as they decide something, its result, the container its `docker run` started |
| `touched`, `cut`, `rerooted`, `unpoured`, `clean`, `stopped` | history, for the properties |

Docker, git and the probed services are external and fail where `Faults` lets them:
`docker run` refuses a name that is taken, also by an exited container, and may
leave a created one behind; `docker ps` lists only what runs.  A
command may be killed between any two steps (`Kill`); a call it has already made
goes on without it, which is the same as a command killed after that step.  The workspace of a
clone launch belongs to root at first exactly when the image's user is root.

| run | shows |
|---|---|
| `launch_safety` | two commands at a time, out of launches (a clone for tmux, a mount for fabro, an explicit network, no resolvable source), start-agent and stop; images of either user; every fault, kills included: `TypeOK`, `LaunchedMeansReady`, `RecoveryWorks`, `MountProvisionedByStrayOnly` (2.0 million states) |
| `launch_owner` | one launch of a clone, the image's user `vscode`, something runs as root: fails, see finding 4 |

`LaunchedMeansReady` is what exit 0 may be trusted for, in spite of commands that
began for an earlier container; it covers a launch that has started the container
itself, and not the answer "already running" (section 11).  Its ownership part holds for
every image and names when a path of root's is left.  In an image whose user is root it
takes a killed command, which dies before its last chown.  In any other, like the published
one (`Dockerfile:397`), a chown cannot take anything from root, so it is left whenever
something ran as root in the container.  The fabro tier may be missing only where the
repository carries no definition and none was poured.  `launch_owner` asks
what `_provisioning.py:337-339` promises without condition and shows the second case.
`RecoveryWorks` is
about everything that failed or was killed before: after a stop a launch that nobody disturbs
succeeds, whatever was left behind.  It excepts a launch without a source, and one
whose explicit network does not exist, which the code does not create.

**Bounds.**  Two commands are the least that interfere, and each command may begin
again any number of times.  With `MaxRuns` 3 a container can be replaced under a
command, and replaced again.  The set of requests has each tier with each kind of
workspace the code treats differently; arguments that change no step (image tags,
DSN values, prompts) are left out.  Deadlock is not checked because `MaxRuns` stops
the last launch.

**Left out.**  A launch without a prompt (a session without an agent), a kill
inside a block of calls that is one action here, and `status`, `list` and `health`,
which only read.  A malformed
manifest ends a launch like an unresolvable source, and an unresolvable network
likewise.  A chown is taken to fail only for lack of privilege.

**Proof.**  `LaunchInv` is inductive for any set of commands and requests and has
four parts.  `StageInv`: what the statement of a command says of its request, and
that none before `docker run` has a container of its own.  `OwnInv`: as long
as a command's own container has the name, its workspace has become what the
statement implies, and no other command can change that (a stray `git clone` finds
the directory taken, a stray refresh only adds `.fabro`).  `RootInv`: while a
path of a clone belongs to root, some command has the final chown still to do, if
the image's user is root and nobody was killed; if it is another, something has
re-rooted a path.  `CleanInv`: an
undisturbed command is alone, so the state at each of its statements is known.
`LaunchedIsReady`, `LeftAloneRecovers` and `OnlyStraysProvisionMounts` follow from
them.

## 8. The dispatcher agent: `Dispatcher`

**What is modelled.**  The other way work is taken in: `dispatcher.fabro`, a run
that cycles through poll, dispatch and wait, and `dispatch_acp_agent.py`, the
process behind its dispatch node.  A prompt carries the listing the poll took;
`DispatchTracker.cycle` decides on all ids of it and records every one it will
spawn (`Decide`) before the first is spawned (`Spawn`).  `decide` compares with what was
known before the prompt and does not add to it in its loop (:44-49), so an id that a
listing names twice is spawned twice; the listing is therefore a multiset here.

| model | code |
|---|---|
| `node`, `listing` | the node of the run, and how often the poll's listing names each id |
| `tracker`, `todo` | `DispatchTracker.in_flight`; the SPAWN decisions still to be executed |
| `Reported` | the runs in the prompt (`observed_in_flight` of `cycle`), if fabro reports them (`Observes`) |
| `cpc`, `cid` | the detached children: `Popen` has returned, the run is known to fabro, it has answered |
| `begun`, `standing` | history: ids this process has begun a child for; those whose message nobody has answered since |
| `strays`, `twins` | history: children whose agent ended before fabro knew of them; children begun for a further naming of their id in one listing |

fabro, inbox and children are external.  A poll, a
spawn and a child may fail, a prompt may be without JSON (`DecideGarbled`: nothing to
do) or with JSON of another shape (`DecideRaises`: nothing catches it and the agent ends), fabro may replace the agent process, the container may
be stopped.  A spawn that raises ends the process with its tracker, since nothing
catches it, and the run with it, since dispatch has no failure edge.

| run | shows |
|---|---|
| `dispatcher` | two ids, two children, listings that name an id up to twice, every fault: `OneChildPerId`, `TrackerIsBegun`, `StandingNotRespawned`, `EventuallyBegun` (154 thousand states) |

`TrackerIsBegun` answers what recording before spawning could break: an id that is
in the tracker and has no child.  It cannot stay so, but only because the exception
ends the process.  `OneChildPerId` names the two ways to a second child for an id: an
agent that ended between `Popen` and the moment fabro knew the run, and a listing that
names the id twice.  `StandingNotRespawned` is what the tracker is for: as long as the
message of a child it has begun is unanswered, the process begins no other for it.  What
happens once it is answered is not in it: a new message of the same id is never taken up,
since nothing calls `retire` (section 11).

**Bounds.**  Two children: one live and one more are the least that shows a collision,
and `Times` 2 the least that repeats an id.  `Child` bounds what is alive, not what is
ever begun.

**Fairness.**  Weak for the cycle and for each child, strong for `Decide`: not every
prompt is garbled.  Nothing is asked of who starts the run (`EventuallyBegun`
ends with it), of fabro, or of the operator.

**Proof.**  `DispatchInv`: the tracker is what was begun and what is about to be; an id
with all its decisions of a prompt left was not begun before; and a child that is neither
stray nor twin is of this process or is reported by fabro, and what is left to spawn of
its id are further namings.  `NoSecondChild`, `NothingRecordedUnbegun` and `NoRespawn` hold for any set of ids and children, with or without reports.

## 9. Presence: `Presence`

**What is modelled.**  The row of a fabro BC in `bc_presence`, tick by tick: the
heartbeat loop, whose heartbeat is a `shop-msg watch` that `timeout` kills after
its bound and whose UPSERT may come at any moment of it or not at all; the look at
the server after each heartbeat; the foreground watch, which makes UPSERTs of its
own and looks at no server; the server's death, stop and relaunch.

| model | code |
|---|---|
| `Interval`, `Bound`, `Window` | `FABRO_WATCH_HEARTBEAT_INTERVAL_SECS`, `FABRO_WATCH_HEARTBEAT_BOUND_SECS`, `PRESENCE_ONLINE_MAX_SECONDS` |
| `age` | the age of `last_seen_at`, as far as `bc-status` tells ages apart |
| `beat`, `spent`, `done` | the background loop, the time in its current part, and whether this heartbeat has made its UPSERT |
| `watch`, `server` | the foreground watch; the shared fabro server |
| `Builds` | the refusal of other cadences in `_fabro_engage_script` |
| `lost`, `fresh`, `dead`, `quiet` | history, for the properties |

Time is discrete and the shell's own work takes none: a heartbeat ends at its bound
at the latest and a sleep at its interval.

| run | shows |
|---|---|
| `presence` | the shipped 30, 5 and 90 seconds in ticks of 2.5 s: `OneLostBeatTolerated`, `DeadServerShows`, `StoppedGoesOffline` (49 thousand states) |

**Bounds.**  `age` stops at the window and `dead` at `ShownBy`, where nothing can
tell them apart any more; `lost` stops at two.  2.5 s is the largest tick in which
all three numbers are whole, and the proofs hold for any.

**Fairness.**  Weak for time and for the shell's loop, and only `StoppedGoesOffline`
needs it.

**Proof.**  For every cadence and window: `AgeInv` bounds the age of the row at each
point of the loop, by what was lost so far, and `DeathInv` bounds how long the loop
outlives the server.  `LiveBCStaysOnline` assumes that the window is longer than the
interval and *two* bounds, `ALostBeatIsTolerated` two intervals and three bounds
(75 < 90 as shipped); `ADeadServerShows` assumes nothing.

## 10. Manifest and resolution: `Manifest`, `Resolution`

**What is modelled.**  `Resolution` translates where launch and start-agent take
network, system slug, clone source and the broker to probe from (option, environment,
shop files, manifest, default), as operators on records; `FirstOf` is the precedence.
`Manifest` is `manifest sync` step by step, entry by entry, with git's clone in two
steps, beside an operator who edits the file and makes, replaces and removes
directories, and a launcher that may be killed; `Valid` is what `manifest validate`
answers for a state.

| model | code |
|---|---|
| `manifest` | the file: absent, unparsable, without `bcs:`, or its product and entries |
| `root`, `dir`, `outer` | `repos_dir`, what has a BC's name in it, and the repository around it, which `git remote get-url` finds when the directory has none |
| `pc`, `plan`, `k`, `report` | the loop of `sync`, the entries it loaded, its warnings |
| `EntryValid`, `DirsValid` | the two halves of `validate` |
| `clean` | history: nobody else touched directories since the sync began |

| run | shows |
|---|---|
| `manifest` | ten manifests, six environments, five command lines: `SyncedInOrder`, `SyncThenValid`, `ValidMeansLaunchable`, `ProbeOnNetwork` (214 thousand states) |

Two of these relate pieces of code that read the same data each in its own way.
`SyncThenValid`: what a completed sync warns of is what validate rejects, but for
directories in no repository at all.  `ValidMeansLaunchable`: a manifest that
validates gives every BC of it a source that launch finds, unless `product:` is
malformed or no network can be found.

**Bounds.**  Two names, of which one has the form the product wants, two remotes and
a blank one; manifests with double, incomplete and unnamed entries, and each order
of precedence at least once with a value in it and a different one behind it.  A
command's environment and options are quantified in the properties.  Nothing bounds
how often the operator acts.

**Proof.**  `SyncInv`, for any names, remotes and manifests, of any length and with
any entries twice: `NamedInv` (what is cloned has a name), `PassedInv` (whatever is
behind the loop has a directory, and what is being cloned is not the directory of an
earlier entry, so a failing clone takes nothing away that was passed) and
`ReportInv` (the warnings so far are exactly the mismatches behind the loop).  From
it `SyncGoesInOrder` and `SyncAgreesWithValidate`; `ValidLaunches` and
`ProbesTheNetworksBroker` follow from the types and from lemmas on `FirstOf`.

## 11. Where code and documents disagree

Each of the first four is a run whose property states the document and which TLC
refutes (`findings` in `PROJECT.json` quotes the lines).

1. `watcher_stale_lock`: on a mounted workspace a stopped container leaves its
   locks, and the next launch skips their ids with no child in flight.  The mount is
   the only cause, besides an in-flight directory that could not be made (section 3).
2. `watcher_gap`: a message that arrives after the drain's query and before the watch's
   LISTEN (`engage.py:485`) is not dispatched while the watch stays connected, against
   lines 476-477 there and `features/bc_container_fabro_watch_engage.feature:87`.
3. `workflow_retry`: a run that blocks after its worktree was made leaves worktree
   and branch, so every later run of that id fails at `git worktree add -b`; one
   lost push race between two faultless runs is enough.
4. `launch_owner`: the chowns name no user (`_provisioning.py:344`) and so run as the
   image's, which is `vscode` on the published image and cannot take a path from root,
   against lines 334-340 there and `features/bc_container_beads_usable.feature:56`.

Met in the models too, and not kept as runs of their own:

- Session: start-agent on a claude whose watch is not armed yet types a second
  claude command into it.  An option screen after the one capture swallows the prompt and
  its Enter, and launch exits 0 (`_engage.py:383`, against `readiness.py:75-76`); two
  oversized prompts share one tmux buffer and one of them is lost the same way
  (`_agent_session.py:466`).  A pane that keeps changing keeps one wait going past the
  total that `_agent_session.py:351-352` documents.
  The option affordance is matched as "esc to" in one place and in either case in
  another; the trust-accept Enter may confirm the screen after the trust screen; a
  prompt shown before the trust banner blocks the first loop to its timeout.
- Tracker: with `Org # Origin`, create and seed act on the launcher's org
  (`tracker_provision.py:16`) and bootstrap on the derived owner, and a faultless
  launch ends without a tracker.
  A failed export skips the subset guard, and the heal pushes by force over issues
  it has not seen, against `docs/runbooks/beads-schema-skew-recovery.md:62`.  A lead
  whose `type.md` cannot be read is healed like a BC.
- Watcher: a child that fails is tried again only by a later drain, which a healthy watch
  does not bring; concurrent workers lose counts of `completed.count` (nothing reads it);
  a wake-up for an id whose child is about to end is skipped until the next drain;
  a drain may start a child for an id that was answered since its listing; without
  a state directory every id is skipped as if in flight.
- Workflow: the gate greps the whole history for red and green (`workflow.fabro:192`)
  and so passes on those of an earlier dispatch, where line 336 blocks on "RED not
  before GREEN".  `plan` and `impl` have only an edge without condition and a failure
  edge, so an agent that gives no directive goes on, where its prompt says "NO
  directive (fails closed to emit_blk)"; `armed` finds "lead-1" in the line of
  "lead-12" and runs an id that has been answered, which `emit_r` then refuses; a
  review that fails halts the run with the work on main and nothing reported; without
  `FlatPushes` nobody pushes on the flat lane, whose gate wants the id on origin's
  main.
- Launch: docker ps failing for any reason but an unreachable socket reads like a
  container that is not there (`driver/real.py:40-44`).
  Exit 0 with "already running" says nothing about an agent.  start-agent
  only asks whether the container runs, so it engages on one whose clone has failed,
  and starts a tmux claude beside a fabro supervisor.  When no definition was poured
  the detached supervisor dies at its `cd` and launch exits 0 (the `unpoured` of
  `LaunchedMeansReady`).  An exited or only created container is not running for
  `is_running` and blocks every launch until a stop.  A launch whose container was
  replaced provisions the next one, and if that one has a mount the operator's tree
  (what `MountProvisionedByStrayOnly` leaves open).
- Dispatcher: an id that one listing names twice gets two children
  (`dispatch_acp_agent.py:44-49`), against "EXACTLY ONCE" there.  Nothing calls `retire`, so an id whose child failed, or that is sent
  again after its answer, is not taken up again as long as the process lives.
- Presence: an UPSERT at the start of one heartbeat and the next at the end of the
  following one are an interval and two bounds apart, not an interval and one, as
  `engage.py:216-226` counts; the guard there accepts cadences that flap (not the
  shipped one).  The foreground watch looks at no server, so a BC whose server has
  died stays online as long as that watch reconnects, where `liveness.py` lets a
  "genuinely DEAD BC" age past the window.
- Manifest and resolution: `_engage.py:317` gives the order manifest, environment,
  default for the slug, and the code there, like launch, takes the environment first.
  A `SHOPMSG_SYSTEM_SLUG` of its own, an explicit network, or a network that comes from
  the shop's files make the probed host differ from the broker on the container's
  network; so does a product that is "Shopsystem", whose network is the default one
  and whose slug is compared unslugified; and so does start-agent without the
  `--agent-vault-broker` that launch was given.
  validate accepts a malformed `product:` that launch refuses, a `repos_dir` that does
  not exist, a file where a clone should be (sync raises there), and a plain directory
  in no repository (sync warns).  sync exits 0 over mismatches, and one remote that
  cannot be reached keeps the entries behind it from being cloned.  A clone that was
  killed leaves a directory that every later sync skips as present.

## 12. What is proved, what is only checked, what is left out

Proved with TLAPS for every value of the constants (under the named assumptions):
the type invariants, every safety invariant and every action property of the passing
runs, and that `Watcher` and `Workflow` refine `WorkIntake`.  Only model-checked: the
liveness properties (`PendingIsRetried`, `LockReleased`, `BlockingPromptDismissed`,
`EventuallyBegun`, `StoppedGoesOffline`), since fairness and ENABLED are out of the
prover's reach.  For the ends of commands and of runs the decreasing measure is proved:
`DeadlinesBind` for launch and start-agent, and `EveryRunEnds` for the children that
`LockReleased` waits for.

Not modelled, and why:

- definition bundle, providers and settings (`fabro/constants.py`, `fabro/provider.py`,
  `fabro/llm_provider.py`, `fabro/settings.py`): constants and builders of
  configuration text; the files are written by the steps `Refresh` and `Wiring` of
  `Launch`, and what must be in them is a question about strings.
- agent-vault wiring (`agent_vault.py`): environment and proxy strings; which broker
  is probed is in `Resolution`, the probe is the step `VaultBarrier` of `Launch`.
- command line (`cli.py`, `cli_parser.py`): parses, calls one controller method and
  returns its exit code.
- driver interface (`driver/interfaces.py`): abstract methods.  Of `driver/real.py`,
  `wait_for_pane_marker` has control of its own and is in `AgentSession`; the rest are
  single calls of docker, tmux and git, which are steps of `Launch`, `AgentSession`
  and `Manifest`.
- images: recipes and probes.
- `list`, `status` and `health` only read; the telemetry file and
  the diagnostics file are read by nothing in the launcher; the wording of
  diagnostics is abstracted to the cause it names.

## 13. Running

    tlc -workers 2 -config MCWatcher.cfg MCWatcher
    tlapm WatcherProof.tla

and likewise for the other runs and proof modules; `PROJECT.json` names module,
configuration and expected outcome of each run, and for every property of a
passing run a mutated definition that breaks it.
