-------------------------- MODULE TrackerProvision --------------------------
(***************************************************************************)
(* Provisioning of a BC's beads tracker at launch                          *)
(* (controller/_beads_provisioning.py, tracker_provision.py): bd bootstrap *)
(* and the ladder of heals it may need - create the absent GitHub          *)
(* repository, seed the empty Dolt remote, rebuild a database that bd      *)
(* refuses to migrate - each a shell script run in the container, each     *)
(* allowed to fail without stopping the launch.                            *)
(*                                                                         *)
(* The issues live in three places: the registry .beads/issues.jsonl       *)
(* committed to the BC's repository, the Dolt remote <owner>/<bc>-beads,   *)
(* and the local database of the container, which dies with it.  bd, git,  *)
(* gh and the agent are external: what they do is modelled from how the    *)
(* scripts use them and from what the comments and the recovery runbook    *)
(* say of them.  An issue is its id; two bodies of one id are not told     *)
(* apart.                                                                  *)
(***************************************************************************)
EXTENDS Naturals

CONSTANTS
  Issue,   \* issue ids
  Owner,   \* GitHub owners
  Org,     \* BEADS_REMOTE_ORG, the owner the heal scripts name
  Origin,  \* the owner of the BC's own repository, which the writeback derives
  None,    \* no owner
  Shops,   \* kinds of shop in this instance
  Faults   \* which external commands may fail in this instance

ASSUME OwnerAssumption == Org \in Owner /\ Origin \in Owner /\ None \notin Owner
ASSUME ShopAssumption == Shops \subseteq {"bc", "lead", "unmarked"}
ASSUME TrackerFaultAssumption ==
  Faults \subseteq {"owner", "bootstrap", "create", "init", "push", "verify", "export"}

VARIABLES
  shop,       \* bc, lead, or unmarked: a lead whose .claude/shop/type.md cannot be read
  registry,   \* .beads/issues.jsonl is committed
  committed,  \* its issues
  kind,       \* per owner: the tracker repository: absent, branch (no Dolt data), dolt
  remote,     \* per owner: the issues of its Dolt data
  stale,      \* per owner: its schema is behind the bd of the image
  phase,      \* where the launch of the container stands
  rung,       \* the last heal tried: 0 none, 1 create, 2 seed, 3 heal
  result,     \* of the last bd bootstrap, or of the heal that stands for it
  sync,       \* owner in config.yaml's sync.remote (None: the ORIGIN_OWNER placeholder)
  stripped,   \* the sync.remote line is cut out of config.yaml
  db,         \* .beads/embeddeddolt: none, partial, refused (old schema), open
  local,      \* its issues
  origin,     \* its dolt remote "origin"
  exported,   \* pre_heal_export_ok
  fault       \* an external command failed in this launch (history)

remoteVars == <<kind, remote, stale>>
repoVars   == <<registry, committed>>
dbVars     == <<db, local, origin>>
ladderVars == <<rung, result>>
vars == <<shop, repoVars, remoteVars, phase, ladderVars, sync, stripped, dbVars,
          exported, fault>>

Phases  == {"down", "writeback", "bootstrap", "create", "seed", "seedClear", "seedInit",
            "seedPush", "seedVerify", "heal", "export", "guard", "destroy", "rebuild",
            "reseed", "finish", "agent"}
Results == {"none", "ok", "notFound", "empty", "skew", "other"}

Goto(from, to) == phase = from /\ phase' = to

\* an external command does its work, or is one of those that may fail
Works    == fault' = fault
Fails(f) == f \in Faults /\ fault' = TRUE

Init ==
  /\ shop \in Shops /\ registry \in BOOLEAN /\ committed = {}
  /\ kind \in [Owner -> {"absent", "branch"}]
  /\ remote = [o \in Owner |-> {}] /\ stale = [o \in Owner |-> FALSE]
  /\ phase = "down" /\ rung = 0 /\ result = "none"
  /\ sync = None /\ stripped = FALSE
  /\ db = "none" /\ local = {} /\ origin = None
  /\ exported = FALSE /\ fault = FALSE

-----------------------------------------------------------------------------
(* Launch, bd bootstrap and the choice of the next rung *)

\* container started and repository cloned; config.yaml is the committed one,
\* scaffolded with the placeholder until somebody commits the resolved owner
Launch ==
  /\ Goto("down", "writeback")
  /\ rung' = 0 /\ result' = "none" /\ fault' = FALSE /\ exported' = FALSE
  /\ sync' \in {None, Origin} /\ stripped' = FALSE
  /\ UNCHANGED <<shop, repoVars, remoteVars, dbVars>>

\* best effort: the result of the script is not looked at, and there is no database
\* yet to take its bd dolt remote add
OwnerWriteback ==
  /\ Goto("writeback", "bootstrap")
  /\ \/ Works /\ sync' = Origin
     \/ Fails("owner") /\ sync' = sync
  /\ UNCHANGED <<shop, repoVars, remoteVars, ladderVars, stripped, dbVars, exported>>

(* Mutant of the choice of the next rung *)

\* no last else: an outcome none of the blocks knows is passed on
NextRungUncaught(r, n) ==
  CASE r = "notFound" /\ n < 1 -> "create"
    [] r = "empty" /\ n < 2    -> "seed"
    [] r = "skew" /\ n < 3     -> "heal"
    [] OTHER                   -> r

\* the block that a bootstrap failing with r enters after rung n, by its order in
\* _provision_beads_tracker
NextRung(r, n) ==
  CASE r = "notFound" /\ n < 1 -> "create"
    [] r = "empty" /\ n < 2    -> "seed"
    [] r = "skew" /\ n < 3     -> "heal"
    [] OTHER                   -> "finish"

Answered(r) ==
  /\ result' = r
  /\ Goto("bootstrap", NextRung(r, rung))

\* "already exists, nothing to do"
BootstrapNothingToDo ==
  /\ db = "open" /\ Answered("ok") /\ Works
  /\ UNCHANGED dbVars

BootstrapNotFound ==
  /\ db # "open" /\ Works
  /\ sync = None \/ (sync \in Owner /\ kind[sync] = "absent")
  /\ Answered("notFound")
  /\ UNCHANGED dbVars

\* the clone of a remote without Dolt data leaves a partial database behind
BootstrapEmpty ==
  /\ db # "open" /\ Works
  /\ sync \in Owner /\ kind[sync] = "branch"
  /\ Answered("empty")
  /\ db' = "partial" /\ UNCHANGED <<local, origin>>

\* the clone succeeds, the migration is refused
BootstrapRefuses ==
  /\ db # "open" /\ Works
  /\ sync \in Owner /\ kind[sync] = "dolt" /\ stale[sync]
  /\ Answered("skew")
  /\ db' = "refused" /\ local' = remote[sync] /\ origin' = sync

BootstrapAdopts ==
  /\ db # "open" /\ Works
  /\ sync \in Owner /\ kind[sync] = "dolt" /\ ~stale[sync]
  /\ Answered("ok")
  /\ db' = "open" /\ local' = remote[sync] \cup committed /\ origin' = sync

BootstrapFails ==
  /\ Fails("bootstrap") /\ Answered("other")
  /\ UNCHANGED dbVars

Bootstrap ==
  /\ \/ BootstrapNothingToDo \/ BootstrapNotFound \/ BootstrapEmpty
     \/ BootstrapRefuses \/ BootstrapAdopts \/ BootstrapFails
  /\ UNCHANGED <<shop, repoVars, remoteVars, rung, sync, stripped, exported>>

-----------------------------------------------------------------------------
(* First rung: create the absent repository.  The create may fail; the view   *)
(* of the repository decides.                                                 *)

CreateRepo ==
  /\ rung' = 1
  /\ \/ /\ Works
        /\ kind' = [kind EXCEPT ![Org] = IF @ = "absent" THEN "branch" ELSE @]
     \/ Fails("create") /\ kind' = kind
  /\ Goto("create", IF kind'[Org] = "absent" THEN "finish" ELSE "bootstrap")
  /\ UNCHANGED <<shop, repoVars, remote, stale, result, sync, stripped, dbVars, exported>>

-----------------------------------------------------------------------------
(* What the seed and the heal do to .beads *)

NoDatabase == db' = "none" /\ local' = {} /\ origin' = None

\* bd init makes a database holding the issues of the registry, unless there is one
\* already, or config.yaml names a remote, which it would then clone
InitFromRegistry ==
  /\ db = "none" /\ stripped
  /\ db' = "open" /\ local' = committed /\ origin' = None

\* bd dolt remote add origin || true
RemoteAdded == IF origin = None THEN Org ELSE origin

\* bd dolt push: o takes the local database
Pushed(o) ==
  /\ kind' = [kind EXCEPT ![o] = "dolt"]
  /\ remote' = [remote EXCEPT ![o] = local]
  /\ stale' = [stale EXCEPT ![o] = FALSE]

-----------------------------------------------------------------------------
(* Mutants: the mistakes the properties are there to catch *)

\* the partial database of the failed bootstrap is left in place
SeedClearPartialKept ==
  /\ Goto("seedClear", "seedInit") /\ Works
  /\ stripped' = TRUE
  /\ UNCHANGED <<shop, repoVars, remoteVars, ladderVars, sync, dbVars, exported>>

\* no subset guard
HealGuardDropped ==
  /\ Goto("guard", "destroy") /\ Works
  /\ UNCHANGED <<shop, repoVars, remoteVars, ladderVars, sync, stripped, dbVars, exported>>

\* bd init without --from-jsonl
HealRebuildEmpty ==
  /\ \/ /\ Works /\ registry /\ db = "none" /\ stripped
        /\ db' = "open" /\ local' = {} /\ origin' = None
        /\ stripped' = FALSE
        /\ Goto("rebuild", "reseed")
     \/ /\ Fails("init") \/ (Works /\ ~registry)
        /\ UNCHANGED <<dbVars, stripped>>
        /\ Goto("rebuild", "finish")
  /\ UNCHANGED <<shop, repoVars, remoteVars, ladderVars, sync, exported>>

-----------------------------------------------------------------------------
(* Second rung: seed the empty remote (_empty_remote_seed_script, set -e) *)

\* git commit of the registry in a scratch repository: nothing to commit without it
SeedCommit ==
  /\ rung' = 2 /\ Works
  /\ Goto("seed", IF registry THEN "seedClear" ELSE "finish")
  /\ UNCHANGED <<shop, repoVars, remoteVars, result, sync, stripped, dbVars, exported>>

SeedClear ==
  /\ Goto("seedClear", "seedInit") /\ Works
  /\ stripped' = TRUE
  /\ NoDatabase
  /\ UNCHANGED <<shop, repoVars, remoteVars, ladderVars, sync, exported>>

\* bd init -p || true, then config.yaml is restored
SeedInit ==
  /\ Goto("seedInit", "seedPush")
  /\ \/ Works /\ IF db = "none" /\ stripped THEN InitFromRegistry ELSE UNCHANGED dbVars
     \/ Fails("init") /\ UNCHANGED dbVars
  /\ stripped' = FALSE
  /\ UNCHANGED <<shop, repoVars, remoteVars, ladderVars, sync, exported>>

\* remote add || true, push || true: without --force only an empty remote takes a
\* database made here
SeedPush ==
  /\ Goto("seedPush", "seedVerify")
  /\ origin' = IF db = "open" THEN RemoteAdded ELSE origin
  /\ \/ /\ Works
        /\ IF db = "open" /\ kind[RemoteAdded] = "branch" THEN Pushed(RemoteAdded)
                                                        ELSE UNCHANGED remoteVars
     \/ Fails("push") /\ UNCHANGED remoteVars
  /\ UNCHANGED <<shop, repoVars, ladderVars, sync, stripped, db, local, exported>>

\* git ls-remote refs/dolt/*
SeedVerify ==
  /\ \/ Works /\ Goto("seedVerify", IF kind[Org] = "dolt" THEN "bootstrap" ELSE "finish")
     \/ Fails("verify") /\ Goto("seedVerify", "finish")
  /\ UNCHANGED <<shop, repoVars, remoteVars, ladderVars, sync, stripped, dbVars, exported>>

-----------------------------------------------------------------------------
(* Third rung: rebuild a database that bd refuses to migrate                  *)
(* (_schema_skew_heal_script, set -e)                                         *)

\* The script does nothing when bd is healthy and refuses a lead; _read_shop_type
\* takes a marker that it cannot read for a bc's.
HealBegins ==
  /\ rung' = 3 /\ Works
  /\ Goto("heal", IF db # "open" /\ shop # "lead" THEN "export" ELSE "finish")
  /\ result' = IF db = "open" THEN "ok" ELSE result
  /\ UNCHANGED <<shop, repoVars, remoteVars, sync, stripped, dbVars, exported>>

HealExport ==
  /\ Goto("export", "guard")
  /\ \/ Works /\ exported' = TRUE
     \/ Fails("export") /\ exported' = FALSE
  /\ UNCHANGED <<shop, repoVars, remoteVars, ladderVars, sync, stripped, dbVars>>

\* the subset guard, only over an export that succeeded; it needs the registry
HealGuard ==
  /\ Works
  /\ Goto("guard", IF exported => registry /\ local \subseteq committed
                   THEN "destroy" ELSE "finish")
  /\ UNCHANGED <<shop, repoVars, remoteVars, ladderVars, sync, stripped, dbVars, exported>>

\* rm -rf of the database, sync.remote cut out of config.yaml
HealDestroy ==
  /\ Goto("destroy", "rebuild") /\ Works
  /\ NoDatabase
  /\ stripped' = TRUE
  /\ UNCHANGED <<shop, repoVars, remoteVars, ladderVars, sync, exported>>

\* bd init --from-jsonl: a failure ends the script with config.yaml still cut
HealRebuild ==
  /\ \/ /\ Works /\ registry /\ InitFromRegistry
        /\ stripped' = FALSE
        /\ Goto("rebuild", "reseed")
     \/ /\ Fails("init") \/ (Works /\ ~registry)
        /\ UNCHANGED <<dbVars, stripped>>
        /\ Goto("rebuild", "finish")
  /\ UNCHANGED <<shop, repoVars, remoteVars, ladderVars, sync, exported>>

\* bd dolt push --force, whose failure is only reported
HealReseed ==
  /\ Goto("reseed", "finish")
  /\ result' = "ok"
  /\ origin' = RemoteAdded
  /\ \/ /\ Works
        /\ IF kind[RemoteAdded] # "absent" THEN Pushed(RemoteAdded) ELSE UNCHANGED remoteVars
     \/ Fails("push") /\ UNCHANGED remoteVars
  /\ UNCHANGED <<shop, repoVars, rung, sync, stripped, db, local, exported>>

-----------------------------------------------------------------------------
\* a warning at most: the launch goes on to the agent
Finish ==
  /\ Goto("finish", "agent") /\ Works
  /\ UNCHANGED <<shop, repoVars, remoteVars, ladderVars, sync, stripped, dbVars, exported>>

-----------------------------------------------------------------------------
(* The agent, the other clones of a lead's tracker, a newer bd, bc-container stop *)

Known == committed \cup local \cup UNION {remote[o] : o \in Owner}

AgentCreates(i) ==
  /\ phase = "agent" /\ db = "open" /\ i \notin Known
  /\ local' = local \cup {i}
  /\ UNCHANGED <<shop, repoVars, remoteVars, phase, ladderVars, sync, stripped, db, origin,
                 exported, fault>>

\* bd export and git commit and push
AgentCommits ==
  /\ phase = "agent" /\ db = "open"
  /\ registry' = TRUE /\ committed' = local
  /\ UNCHANGED <<shop, remoteVars, phase, ladderVars, sync, stripped, dbVars, exported, fault>>

\* bd dolt pull and push, which a stale remote refuses
AgentPushes ==
  /\ phase = "agent" /\ db = "open"
  /\ origin \in Owner /\ kind[origin] = "dolt" /\ ~stale[origin]
  /\ local' = local \cup remote[origin]
  /\ remote' = [remote EXCEPT ![origin] = local']
  /\ UNCHANGED <<shop, repoVars, kind, stale, phase, ladderVars, sync, stripped, db, origin,
                 exported, fault>>

\* the session-start step rebuilds an unusable database from the registry
AgentHeals ==
  /\ phase = "agent" /\ db # "open" /\ registry
  /\ db' = "open" /\ local' = committed /\ origin' = None
  /\ UNCHANGED <<shop, repoVars, remoteVars, phase, ladderVars, sync, stripped, exported, fault>>

OtherClonePushes(i) ==
  /\ shop # "bc" /\ kind[Origin] = "dolt" /\ i \notin Known
  /\ remote' = [remote EXCEPT ![Origin] = @ \cup {i}]
  /\ UNCHANGED <<shop, repoVars, kind, stale, phase, ladderVars, sync, stripped, dbVars,
                 exported, fault>>

\* the next container's image has a bd with a newer schema
NewerImage ==
  /\ phase = "down"
  /\ stale' = [o \in Owner |-> kind[o] = "dolt"]
  /\ UNCHANGED <<shop, repoVars, kind, remote, phase, ladderVars, sync, stripped, dbVars,
                 exported, fault>>

Stop ==
  /\ phase # "down" /\ phase' = "down"
  /\ NoDatabase /\ sync' = None /\ stripped' = FALSE /\ exported' = FALSE
  /\ rung' = 0 /\ result' = "none" /\ fault' = FALSE
  /\ UNCHANGED <<shop, repoVars, remoteVars>>

ProvisionStep ==
  \/ OwnerWriteback \/ Bootstrap \/ CreateRepo
  \/ SeedCommit \/ SeedClear \/ SeedInit \/ SeedPush \/ SeedVerify
  \/ HealBegins \/ HealExport \/ HealGuard \/ HealDestroy \/ HealRebuild \/ HealReseed
  \/ Finish

Next ==
  \/ Launch \/ ProvisionStep \/ Stop \/ NewerImage
  \/ AgentCommits \/ AgentPushes \/ AgentHeals
  \/ \E i \in Issue : AgentCreates(i) \/ OtherClonePushes(i)

Spec == Init /\ [][Next]_vars

-----------------------------------------------------------------------------
\* The variables have their types.
TypeOK ==
  /\ shop \in Shops /\ registry \in BOOLEAN /\ committed \subseteq Issue
  /\ kind \in [Owner -> {"absent", "branch", "dolt"}]
  /\ remote \in [Owner -> SUBSET Issue]
  /\ stale \in [Owner -> BOOLEAN]
  /\ phase \in Phases /\ rung \in 0..3 /\ result \in Results
  /\ sync \in Owner \cup {None} /\ stripped \in BOOLEAN
  /\ db \in {"none", "partial", "refused", "open"}
  /\ local \subseteq Issue /\ origin \in Owner \cup {None}
  /\ exported \in BOOLEAN /\ fault \in BOOLEAN

-----------------------------------------------------------------------------
(* Safety *)

\* A database that can be written holds every committed issue, whichever rung made
\* it: the agent's next export overwrites the registry with it, so an issue it
\* lacks would be gone (features/bc_container_beads_schema_skew_heal.feature:24).
OpenIsComplete == db = "open" => committed \subseteq local

\* While a container lives no issue disappears from the last of the three places
\* that hold it, unless the heal could not read the old database: the subset guard,
\* the refusal of a lead and the order of the heal make the push that replaces the
\* remote's history lose nothing (tracker_provision.py:207-212).
IssuesKept ==
  [][phase # "down" /\ phase' # "down" /\ (phase = "reseed" => exported)
       => Known \subseteq Known']_vars

\* A launch in which no external command failed hands the agent a writable tracker
\* that holds every committed issue, and leaves the BC's own remote seeded at bd's
\* schema (bc_container_beads_bootstrap_resilience.feature:57-64).  Otherwise the
\* heal refused, because the shop is a lead, or the remote is ahead of the registry,
\* or there is no registry, and the database is as bootstrap left it.
Provisioned ==
  [][phase = "finish" /\ phase' = "agent" /\ ~fault =>
       \/ /\ db = "open" /\ committed \subseteq local
          /\ kind[Origin] = "dolt" /\ ~stale[Origin]
       \/ db = "refused" /\ (shop = "lead" \/ ~registry \/ ~(local \subseteq committed))
       \/ db = "partial" /\ ~registry]_vars

-----------------------------------------------------------------------------
(* Why IssuesKept holds when Org = Origin and every lead is marked: what is    *)
(* known of the three places at each step of the ladder.                       *)

\* a database that cannot be written holds nothing of its own
CopyInv ==
  /\ db \in {"none", "partial"} => local = {}
  /\ db = "refused" => origin \in Owner /\ local \subseteq remote[origin]
  /\ \A o \in Owner : kind[o] # "dolt" => remote[o] = {}

\* where the ladder stands tells what the database is
StageInv ==
  /\ sync \in {None, Origin}
  /\ phase = "down" => db = "none"
  /\ phase \in {"writeback", "bootstrap", "create", "seedInit", "seedPush", "seedVerify"}
       => db # "refused"
  /\ phase \in {"seed", "seedClear"} => db = "partial"
  /\ phase \in {"heal", "export", "guard", "destroy"} => db = "refused"
  /\ phase = "rebuild" => db = "none"
  /\ phase = "reseed" => db = "open" /\ origin = None

\* the heal runs for the only clone, on a copy of the remote that the guard has
\* found in the registry before anything is destroyed
HealInv ==
  /\ shop = "bc" /\ phase \in {"heal", "export", "guard", "destroy"}
       => remote[Origin] \subseteq local
  /\ phase \in {"export", "guard", "destroy", "rebuild", "reseed"} => shop = "bc"
  /\ phase \in {"destroy", "rebuild", "reseed"} /\ exported => remote[Origin] \subseteq committed

KeptInv == OpenIsComplete /\ CopyInv /\ StageInv /\ HealInv

-----------------------------------------------------------------------------
(* Why Provisioned holds when Org = Origin: what each step of the ladder finds *)
(* when nothing has failed before it.                                          *)

Seeded == db = "open" /\ kind[Origin] = "dolt" /\ ~stale[Origin]

\* a bootstrap is the first, or follows a rung that did its work
BootstrapFinds ==
  phase = "bootstrap" =>
    \/ rung = 0 /\ db = "none"
    \/ rung = 1 /\ db = "none" /\ kind[Origin] # "absent"
    \/ rung = 2 /\ Seeded

\* the seed takes the remote from branch to dolt
SeedFinds ==
  /\ phase \in {"seed", "seedClear", "seedInit", "seedPush"} => kind[Origin] = "branch"
  /\ phase \in {"seedClear", "seedInit", "seedPush", "seedVerify"} => rung = 2
  /\ phase = "seedInit" => db = "none" /\ stripped
  /\ phase = "seedPush" => db = "open" /\ origin = None
  /\ phase = "seedVerify" => Seeded

\* the heal has a remote to replace and, once it destroys, a registry to rebuild from
HealFinds ==
  /\ phase \in {"heal", "export", "guard", "destroy", "rebuild", "reseed"}
       => kind[Origin] = "dolt"
  /\ phase = "guard" => exported
  /\ phase \in {"destroy", "rebuild"} => registry
  /\ phase = "rebuild" => stripped

\* what is handed to the agent, and the only reasons for less
FinishFinds ==
  phase = "finish" =>
    \/ Seeded
    \/ db = "refused" /\ (shop = "lead" \/ ~registry \/ ~(local \subseteq committed))
    \/ db = "partial" /\ ~registry

FaultlessInv ==
  ~fault =>
    /\ phase \notin {"down", "writeback"} => sync = Origin
    /\ phase = "writeback" => rung = 0 /\ db = "none"
    /\ phase = "create" => db = "none"
    /\ BootstrapFinds /\ SeedFinds /\ HealFinds /\ FinishFinds
=============================================================================
