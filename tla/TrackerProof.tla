---------------------------- MODULE TrackerProof ----------------------------
(* Proofs about TrackerProvision: its typing, the completeness of a writable  *)
(* database, and that provisioning loses no issue.                            *)
EXTENDS TrackerProvision, TLAPS

LEMMA RungType ==
  ASSUME NEW r, NEW n
  PROVE  NextRung(r, n) \in {"create", "seed", "heal", "finish"}
BY DEF NextRung

\* The ladder only goes up: a rung is entered for the answer it heals.
LEMMA RungOf ==
  ASSUME NEW r, NEW n
  PROVE  /\ NextRung(r, n) = "seed" => r = "empty"
         /\ NextRung(r, n) = "heal" => r = "skew"
BY DEF NextRung

LEMMA TypeInit == Init => TypeOK
<1> SUFFICES ASSUME Init PROVE TypeOK
  OBVIOUS
<1>1. kind \in [Owner -> {"absent", "branch", "dolt"}]
  BY DEF Init
<1>2. remote \in [Owner -> SUBSET Issue] /\ stale \in [Owner -> BOOLEAN]
  BY DEF Init
<1>3. 0 \in 0..3 /\ "down" \in Phases /\ "none" \in Results
  BY DEF Phases, Results
<1>4. sync \in Owner \cup {None} /\ origin \in Owner \cup {None}
  BY DEF Init
<1>5. committed \subseteq Issue /\ local \subseteq Issue
  BY DEF Init
<1>6. stripped \in BOOLEAN /\ exported \in BOOLEAN /\ fault \in BOOLEAN
  BY DEF Init
<1>7. QED
  BY <1>1, <1>2, <1>3, <1>4, <1>5, <1>6 DEF Init, TypeOK

LEMMA BootstrapTypes == TypeOK /\ Bootstrap => TypeOK'
<1> SUFFICES ASSUME TypeOK, Bootstrap PROVE TypeOK'
  OBVIOUS
<1> USE DEF dbVars, remoteVars, repoVars
<1>1. /\ UNCHANGED <<shop, registry, committed, kind, remote, stale, rung, sync, stripped,
                     exported>>
  BY DEF Bootstrap
<1>2. \E r \in Results : Answered(r)
  BY DEF Bootstrap, BootstrapNothingToDo, BootstrapNotFound, BootstrapEmpty,
         BootstrapRefuses, BootstrapAdopts, BootstrapFails, Results
<1>3. phase' \in Phases /\ result' \in Results
  BY <1>2, RungType DEF Answered, Goto, Phases
<1>4. fault' \in BOOLEAN
  BY DEF TypeOK, Bootstrap, BootstrapNothingToDo, BootstrapNotFound, BootstrapEmpty,
         BootstrapRefuses, BootstrapAdopts, BootstrapFails, Works, Fails
<1>5. /\ db' \in {"none", "partial", "refused", "open"}
      /\ local' \subseteq Issue /\ origin' \in Owner \cup {None}
  <2>1. CASE BootstrapNothingToDo \/ BootstrapNotFound \/ BootstrapEmpty \/ BootstrapFails
    BY <2>1 DEF TypeOK, BootstrapNothingToDo, BootstrapNotFound, BootstrapEmpty, BootstrapFails
  <2>2. CASE BootstrapRefuses \/ BootstrapAdopts
    BY <2>2 DEF TypeOK, BootstrapRefuses, BootstrapAdopts
  <2>3. QED
    BY <2>1, <2>2 DEF Bootstrap
<1>6. QED
  BY <1>1, <1>3, <1>4, <1>5 DEF TypeOK

\* A push leaves the remotes typed.
LEMMA PushTypes ==
  ASSUME TypeOK, NEW o \in Owner, Pushed(o)
  PROVE  /\ kind' \in [Owner -> {"absent", "branch", "dolt"}]
         /\ remote' \in [Owner -> SUBSET Issue]
         /\ stale' \in [Owner -> BOOLEAN]
BY DEF TypeOK, Pushed

LEMMA AddedType ==
  ASSUME TypeOK
  PROVE  RemoteAdded \in Owner
BY OwnerAssumption DEF TypeOK, RemoteAdded

LEMMA SeedTypes ==
  TypeOK /\ (SeedCommit \/ SeedClear \/ SeedInit \/ SeedPush \/ SeedVerify) => TypeOK'
<1> SUFFICES ASSUME TypeOK, SeedCommit \/ SeedClear \/ SeedInit \/ SeedPush \/ SeedVerify
             PROVE  TypeOK'
  OBVIOUS
<1> USE DEF dbVars, remoteVars, repoVars, ladderVars, Goto, Works, Fails, Phases
<1>1. CASE SeedCommit
  BY <1>1 DEF SeedCommit, TypeOK
<1>2. CASE SeedClear
  BY <1>2 DEF SeedClear, NoDatabase, TypeOK
<1>3. CASE SeedInit
  BY <1>3 DEF SeedInit, InitFromRegistry, TypeOK
<1>4. CASE SeedPush
  <2>1. /\ kind' \in [Owner -> {"absent", "branch", "dolt"}]
        /\ remote' \in [Owner -> SUBSET Issue]
        /\ stale' \in [Owner -> BOOLEAN]
    BY <1>4, AddedType, PushTypes DEF SeedPush, TypeOK
  <2>2. origin' \in Owner \cup {None} /\ fault' \in BOOLEAN
    BY <1>4, AddedType DEF SeedPush, TypeOK
  <2>3. QED
    BY <1>4, <2>1, <2>2 DEF SeedPush, TypeOK
<1>5. CASE SeedVerify
  BY <1>5 DEF SeedVerify, TypeOK
<1>6. QED
  BY <1>1, <1>2, <1>3, <1>4, <1>5

LEMMA HealTypes ==
  TypeOK /\ (HealBegins \/ HealExport \/ HealGuard \/ HealDestroy \/ HealRebuild \/ HealReseed)
    => TypeOK'
<1> SUFFICES ASSUME TypeOK,
                    HealBegins \/ HealExport \/ HealGuard \/ HealDestroy \/ HealRebuild
                      \/ HealReseed
             PROVE  TypeOK'
  OBVIOUS
<1> USE DEF dbVars, remoteVars, repoVars, ladderVars, Goto, Works, Fails, Phases
<1>1. CASE HealBegins
  BY <1>1 DEF HealBegins, TypeOK, Results
<1>2. CASE HealExport
  BY <1>2 DEF HealExport, TypeOK
<1>3. CASE HealGuard
  BY <1>3 DEF HealGuard, TypeOK
<1>4. CASE HealDestroy
  BY <1>4 DEF HealDestroy, NoDatabase, TypeOK
<1>5. CASE HealRebuild
  BY <1>5 DEF HealRebuild, InitFromRegistry, TypeOK
<1>6. CASE HealReseed
  <2>1. /\ kind' \in [Owner -> {"absent", "branch", "dolt"}]
        /\ remote' \in [Owner -> SUBSET Issue]
        /\ stale' \in [Owner -> BOOLEAN]
    BY <1>6, AddedType, PushTypes DEF HealReseed, TypeOK
  <2>2. QED
    BY <1>6, <2>1, AddedType DEF HealReseed, TypeOK, Results
<1>7. QED
  BY <1>1, <1>2, <1>3, <1>4, <1>5, <1>6

LEMMA TypeStep == TypeOK /\ [Next]_vars => TypeOK'
<1> SUFFICES ASSUME TypeOK, [Next]_vars PROVE TypeOK'
  OBVIOUS
<1> USE DEF dbVars, remoteVars, repoVars, ladderVars, Goto, Works, Fails, Phases
<1>1. CASE Launch
  <2>1. sync' \in Owner \cup {None} /\ stripped' \in BOOLEAN
    BY <1>1, OwnerAssumption DEF Launch
  <2>2. exported' \in BOOLEAN /\ fault' \in BOOLEAN
    BY <1>1 DEF Launch
  <2>3. rung' \in 0..3
    BY <1>1 DEF Launch
  <2>4. QED
    BY <1>1, <2>1, <2>2, <2>3 DEF Launch, TypeOK, Results
<1>2. CASE OwnerWriteback
  BY <1>2, OwnerAssumption DEF OwnerWriteback, TypeOK
<1>3. CASE CreateRepo
  <2>1. kind' \in [Owner -> {"absent", "branch", "dolt"}]
    BY <1>3, OwnerAssumption DEF CreateRepo, TypeOK
  <2>2. phase' \in Phases
    <3>1. CASE kind'[Org] = "absent"
      BY <1>3, <3>1 DEF CreateRepo
    <3>2. CASE kind'[Org] # "absent"
      BY <1>3, <3>2 DEF CreateRepo
    <3>3. QED
      BY <3>1, <3>2
  <2>3. fault' \in BOOLEAN
    BY <1>3 DEF CreateRepo, TypeOK
  <2>4. rung' \in 0..3
    BY <1>3 DEF CreateRepo
  <2>5. QED
    BY <1>3, <2>1, <2>2, <2>3, <2>4 DEF CreateRepo, TypeOK
<1>4. CASE Finish
  BY <1>4 DEF Finish, TypeOK
<1>5. CASE AgentCommits
  BY <1>5 DEF AgentCommits, TypeOK
<1>6. CASE AgentPushes
  BY <1>6 DEF AgentPushes, TypeOK
<1>7. CASE AgentHeals
  BY <1>7 DEF AgentHeals, TypeOK
<1>8. ASSUME NEW i \in Issue, AgentCreates(i) PROVE TypeOK'
  BY <1>8 DEF AgentCreates, TypeOK
<1>9. ASSUME NEW i \in Issue, OtherClonePushes(i) PROVE TypeOK'
  BY <1>9, OwnerAssumption DEF OtherClonePushes, TypeOK
<1>10. CASE NewerImage
  BY <1>10 DEF NewerImage, TypeOK
<1>11. CASE Stop
  <2>1. /\ sync' \in Owner \cup {None} /\ origin' \in Owner \cup {None}
        /\ local' \subseteq Issue
    BY <1>11 DEF Stop, NoDatabase
  <2>2. /\ exported' \in BOOLEAN /\ fault' \in BOOLEAN /\ stripped' \in BOOLEAN
    BY <1>11 DEF Stop
  <2>3. rung' \in 0..3
    BY <1>11 DEF Stop
  <2>4. QED
    BY <1>11, <2>1, <2>2, <2>3 DEF Stop, NoDatabase, TypeOK, Results
<1>12. CASE UNCHANGED vars
  BY <1>12 DEF vars, TypeOK
<1>13. QED
  BY <1>1, <1>2, <1>3, <1>4, <1>5, <1>6, <1>7, <1>8, <1>9, <1>10, <1>11, <1>12,
     BootstrapTypes, SeedTypes, HealTypes DEF Next, ProvisionStep

\* The state of the three places and of the ladder keeps its types, for every set of
\* issues and owners and every choice of failing commands.
THEOREM TypeCorrect == Spec => []TypeOK
BY TypeInit, TypeStep, PTL DEF Spec

-----------------------------------------------------------------------------
(* A writable database is complete.                                           *)

LEMMA CompleteStep == TypeOK /\ OpenIsComplete /\ [Next]_vars => OpenIsComplete'
<1> SUFFICES ASSUME TypeOK, OpenIsComplete, [Next]_vars PROVE OpenIsComplete'
  OBVIOUS
<1> USE DEF OpenIsComplete, dbVars, remoteVars, repoVars, ladderVars
<1>1. CASE UNCHANGED <<db, local, committed>>
  BY <1>1
<1>2. CASE db' # "open"
  BY <1>2
<1>3. CASE Bootstrap
  <2>1. CASE BootstrapAdopts
    BY <1>3, <2>1 DEF Bootstrap, BootstrapAdopts
  <2>2. CASE ~BootstrapAdopts
    BY <1>3, <2>2, <1>1, <1>2 DEF Bootstrap, BootstrapNothingToDo, BootstrapNotFound,
       BootstrapEmpty, BootstrapRefuses, BootstrapFails
  <2>3. QED
    BY <2>1, <2>2
<1>4. CASE SeedInit
  BY <1>4 DEF SeedInit, InitFromRegistry
<1>5. CASE HealRebuild
  BY <1>5 DEF HealRebuild, InitFromRegistry
<1>6. CASE SeedClear \/ HealDestroy \/ Stop
  BY <1>6 DEF SeedClear, HealDestroy, Stop, NoDatabase
<1>7. CASE Launch \/ OwnerWriteback \/ CreateRepo \/ SeedCommit \/ SeedPush \/ SeedVerify
           \/ HealBegins \/ HealExport \/ HealGuard \/ HealReseed \/ Finish \/ NewerImage
  BY <1>7 DEF Launch, OwnerWriteback, CreateRepo, SeedCommit, SeedPush, SeedVerify,
     HealBegins, HealExport, HealGuard, HealReseed, Finish, NewerImage
<1>8. CASE AgentCommits \/ AgentPushes \/ AgentHeals
  BY <1>8 DEF AgentCommits, AgentPushes, AgentHeals
<1>9. ASSUME NEW i \in Issue, AgentCreates(i) \/ OtherClonePushes(i)
      PROVE  OpenIsComplete'
  BY <1>9 DEF AgentCreates, OtherClonePushes
<1>10. CASE UNCHANGED vars
  BY <1>10 DEF vars
<1>11. QED
  BY <1>3, <1>4, <1>5, <1>6, <1>7, <1>8, <1>9, <1>10 DEF Next, ProvisionStep

\* Whichever rung made the database, an agent that can write it holds every committed
\* issue: its next export cannot drop one from the registry.
THEOREM WritableIsComplete == Spec => []OpenIsComplete
<1>1. Init => OpenIsComplete
  BY DEF Init, OpenIsComplete
<1>2. QED
  BY <1>1, CompleteStep, TypeCorrect, PTL DEF Spec

-----------------------------------------------------------------------------
(* No issue is lost: KeptInv is inductive, and under it every step keeps Known. *)

LEMMA KeptInit == Init => KeptInv
<1> SUFFICES ASSUME Init PROVE KeptInv
  OBVIOUS
<1>1. \A o \in Owner : remote[o] = {}
  BY DEF Init
<1>2. QED
  BY <1>1 DEF Init, KeptInv, OpenIsComplete, CopyInv, StageInv, HealInv

LEMMA CopyStep == TypeOK /\ KeptInv /\ [Next]_vars => CopyInv'
<1> SUFFICES ASSUME TypeOK, KeptInv, [Next]_vars PROVE CopyInv'
  OBVIOUS
<1> USE DEF dbVars, remoteVars, repoVars, ladderVars, Goto
<1>1. CASE UNCHANGED <<db, local, origin, kind, remote>>
  BY <1>1 DEF KeptInv, CopyInv
<1>2. CASE SeedClear \/ HealDestroy \/ Stop
  BY <1>2 DEF SeedClear, HealDestroy, Stop, NoDatabase, KeptInv, CopyInv
<1>3. CASE Bootstrap
  <2>1. CASE BootstrapNothingToDo \/ BootstrapNotFound \/ BootstrapFails
    BY <1>1, <1>3, <2>1 DEF Bootstrap, BootstrapNothingToDo, BootstrapNotFound, BootstrapFails
  <2>2. CASE BootstrapEmpty
    BY <1>3, <2>2 DEF Bootstrap, BootstrapEmpty, Answered, KeptInv, CopyInv, StageInv, TypeOK
  <2>3. CASE BootstrapRefuses \/ BootstrapAdopts
    BY <1>3, <2>3 DEF Bootstrap, BootstrapRefuses, BootstrapAdopts, KeptInv, CopyInv
  <2>4. QED
    BY <1>3, <2>1, <2>2, <2>3 DEF Bootstrap
<1>4. CASE CreateRepo
  BY <1>4 DEF CreateRepo, KeptInv, CopyInv, TypeOK
<1>5. CASE SeedInit \/ HealRebuild
  BY <1>5 DEF SeedInit, HealRebuild, InitFromRegistry, KeptInv, CopyInv
<1>6. CASE SeedPush
  BY <1>6, AddedType DEF SeedPush, Pushed, KeptInv, CopyInv, StageInv, TypeOK
<1>7. CASE HealReseed
  BY <1>7, AddedType DEF HealReseed, Pushed, KeptInv, CopyInv, StageInv, TypeOK
<1>8. CASE AgentCommits \/ AgentPushes \/ AgentHeals
  BY <1>8 DEF AgentCommits, AgentPushes, AgentHeals, KeptInv, CopyInv, TypeOK
<1>9. ASSUME NEW i \in Issue, AgentCreates(i) PROVE CopyInv'
  BY <1>9 DEF AgentCreates, KeptInv, CopyInv
<1>10. ASSUME NEW i \in Issue, OtherClonePushes(i) PROVE CopyInv'
  BY <1>10, OwnerAssumption DEF OtherClonePushes, KeptInv, CopyInv, TypeOK
<1>11. CASE Launch \/ OwnerWriteback \/ SeedCommit \/ SeedVerify \/ HealBegins \/ HealExport
            \/ HealGuard \/ Finish \/ NewerImage \/ UNCHANGED vars
  BY <1>1, <1>11 DEF Launch, OwnerWriteback, SeedCommit, SeedVerify, HealBegins, HealExport,
     HealGuard, Finish, NewerImage, vars
<1>12. QED
  BY <1>2, <1>3, <1>4, <1>5, <1>6, <1>7, <1>8, <1>9, <1>10, <1>11 DEF Next, ProvisionStep

LEMMA StageStep == StageInv /\ [Next]_vars => StageInv'
<1> SUFFICES ASSUME StageInv, [Next]_vars PROVE StageInv'
  OBVIOUS
<1> USE DEF dbVars, remoteVars, repoVars, ladderVars, Goto, StageInv
<1>1. CASE Launch \/ OwnerWriteback \/ Finish \/ NewerImage
  BY <1>1 DEF Launch, OwnerWriteback, Finish, NewerImage
<1>2. CASE Bootstrap
  <2>1. CASE BootstrapNothingToDo
    BY <1>2, <2>1, RungType, RungOf DEF Bootstrap, BootstrapNothingToDo, Answered
  <2>2. CASE BootstrapNotFound \/ BootstrapFails
    BY <1>2, <2>2, RungType, RungOf DEF Bootstrap, BootstrapNotFound, BootstrapFails, Answered
  <2>3. CASE BootstrapEmpty
    BY <1>2, <2>3, RungType, RungOf DEF Bootstrap, BootstrapEmpty, Answered
  <2>4. CASE BootstrapRefuses
    <3>1. phase' \in {"heal", "finish"}
      BY <2>4 DEF BootstrapRefuses, Answered, NextRung
    <3>2. QED
      BY <1>2, <2>4, <3>1 DEF Bootstrap, BootstrapRefuses
  <2>5. CASE BootstrapAdopts
    BY <1>2, <2>5, RungType, RungOf DEF Bootstrap, BootstrapAdopts, Answered
  <2>6. QED
    BY <1>2, <2>1, <2>2, <2>3, <2>4, <2>5 DEF Bootstrap
<1>3. CASE CreateRepo
  BY <1>3 DEF CreateRepo
<1>4. CASE SeedCommit \/ SeedClear \/ SeedInit \/ SeedPush \/ SeedVerify
  BY <1>4 DEF SeedCommit, SeedClear, SeedInit, SeedPush, SeedVerify, NoDatabase,
     InitFromRegistry
<1>5. CASE HealBegins \/ HealExport \/ HealGuard
  BY <1>5 DEF HealBegins, HealExport, HealGuard
<1>6. CASE HealDestroy \/ HealRebuild \/ HealReseed
  BY <1>6 DEF HealDestroy, HealRebuild, HealReseed, NoDatabase, InitFromRegistry
<1>7. CASE AgentCommits \/ AgentPushes \/ AgentHeals
  BY <1>7 DEF AgentCommits, AgentPushes, AgentHeals
<1>8. ASSUME NEW i \in Issue, AgentCreates(i) \/ OtherClonePushes(i) PROVE StageInv'
  BY <1>8 DEF AgentCreates, OtherClonePushes
<1>9. CASE Stop
  BY <1>9 DEF Stop, NoDatabase
<1>10. CASE UNCHANGED vars
  BY <1>10 DEF vars
<1>11. QED
  BY <1>1, <1>2, <1>3, <1>4, <1>5, <1>6, <1>7, <1>8, <1>9, <1>10 DEF Next, ProvisionStep

\* The heal's own invariant needs the bc to be the only clone: a lead is marked.
LEMMA HealStep ==
  ASSUME "unmarked" \notin Shops
  PROVE  TypeOK /\ KeptInv /\ [Next]_vars => HealInv'
<1> SUFFICES ASSUME TypeOK, KeptInv, [Next]_vars PROVE HealInv'
  OBVIOUS
<1> USE DEF dbVars, remoteVars, repoVars, ladderVars, Goto, KeptInv, HealInv
<1>1. CASE phase' \notin {"heal", "export", "guard", "destroy", "rebuild", "reseed"}
  BY <1>1
<1>2. CASE Bootstrap
  <2>1. CASE BootstrapRefuses
    <3>1. sync = Origin /\ phase' \in {"heal", "finish"}
      BY <2>1, OwnerAssumption DEF BootstrapRefuses, StageInv, Answered, NextRung
    <3>2. QED
      BY <1>2, <2>1, <3>1 DEF Bootstrap, BootstrapRefuses
  <2>2. CASE ~BootstrapRefuses
    <3>1. phase' \notin {"heal", "export", "guard", "destroy", "rebuild", "reseed"}
      BY <1>2, <2>2, RungType, RungOf DEF Bootstrap, BootstrapNothingToDo, BootstrapNotFound,
         BootstrapEmpty, BootstrapAdopts, BootstrapFails, Answered
    <3>2. QED
      BY <1>1, <3>1
  <2>3. QED
    BY <2>1, <2>2
<1>3. CASE HealBegins
  BY <1>3, ShopAssumption DEF HealBegins, TypeOK
<1>4. CASE HealExport
  BY <1>4 DEF HealExport
<1>5. CASE HealGuard
  BY <1>5 DEF HealGuard
<1>6. CASE HealDestroy
  BY <1>6 DEF HealDestroy, NoDatabase
<1>7. CASE HealRebuild
  BY <1>7 DEF HealRebuild
<1>8. CASE HealReseed \/ Launch \/ OwnerWriteback \/ CreateRepo \/ Finish
  BY <1>1, <1>8 DEF HealReseed, Launch, OwnerWriteback, CreateRepo, Finish
<1>9. CASE SeedCommit \/ SeedClear \/ SeedInit \/ SeedPush \/ SeedVerify
  BY <1>1, <1>9 DEF SeedCommit, SeedClear, SeedInit, SeedPush, SeedVerify
<1>10. CASE AgentCommits \/ AgentPushes \/ AgentHeals \/ NewerImage \/ Stop
  BY <1>1, <1>10 DEF AgentCommits, AgentPushes, AgentHeals, NewerImage, Stop
<1>11. ASSUME NEW i \in Issue, AgentCreates(i) PROVE HealInv'
  BY <1>1, <1>11 DEF AgentCreates
<1>12. ASSUME NEW i \in Issue, OtherClonePushes(i) PROVE HealInv'
  BY <1>12 DEF OtherClonePushes
<1>13. CASE UNCHANGED vars
  BY <1>13 DEF vars
<1>14. QED
  BY <1>2, <1>3, <1>4, <1>5, <1>6, <1>7, <1>8, <1>9, <1>10, <1>11, <1>12, <1>13
     DEF Next, ProvisionStep

-----------------------------------------------------------------------------
LEMMA KnownOnce ==
  \A i : i \in Known <=> i \in committed \/ i \in local \/ \E o \in Owner : i \in remote[o]
BY DEF Known

LEMMA KnownNext ==
  \A i : i \in Known' <=> i \in committed' \/ i \in local' \/ \E o \in Owner : i \in remote'[o]
BY DEF Known

\* the push of a database that holds all its target holds
LEMMA PushKeeps ==
  ASSUME TypeOK, NEW o \in Owner, Pushed(o), remote[o] \subseteq committed \cup local,
         UNCHANGED <<committed, local>>
  PROVE  Known \subseteq Known'
<1>1. \A p \in Owner \ {o} : remote'[p] = remote[p]
  BY DEF Pushed, TypeOK
<1>2. QED
  BY <1>1, KnownOnce, KnownNext

LEMMA ProvisionKeeps ==
  ASSUME Org = Origin, TypeOK, KeptInv, ProvisionStep, phase = "reseed" => exported
  PROVE  Known \subseteq Known'
<1> USE DEF dbVars, remoteVars, repoVars, ladderVars, Goto, KeptInv
<1>1. CASE UNCHANGED <<committed, local, remote>>
  BY <1>1 DEF Known
<1>2. CASE Bootstrap
  <2>1. CASE BootstrapNothingToDo \/ BootstrapNotFound \/ BootstrapEmpty \/ BootstrapFails
    BY <1>1, <1>2, <2>1 DEF Bootstrap, BootstrapNothingToDo, BootstrapNotFound, BootstrapEmpty,
       BootstrapFails
  <2>2. CASE BootstrapRefuses \/ BootstrapAdopts
    <3>1. local = {}
      BY <2>2 DEF BootstrapRefuses, BootstrapAdopts, Answered, StageInv, CopyInv, TypeOK
    <3>2. QED
      BY <1>2, <2>2, <3>1, KnownOnce, KnownNext DEF Bootstrap
  <2>3. QED
    BY <1>2, <2>1, <2>2 DEF Bootstrap
<1>3. CASE SeedClear
  BY <1>3, KnownOnce, KnownNext DEF SeedClear, StageInv, CopyInv
<1>4. CASE SeedInit
  BY <1>4, KnownOnce, KnownNext DEF SeedInit, InitFromRegistry, CopyInv
<1>5. CASE SeedPush
  <2>1. CASE UNCHANGED remoteVars
    BY <1>1, <1>5, <2>1 DEF SeedPush
  <2>2. CASE kind[RemoteAdded] = "branch" /\ Pushed(RemoteAdded)
    <3>1. remote[RemoteAdded] = {}
      BY <2>2, AddedType DEF CopyInv
    <3>2. QED
      BY <1>5, <2>2, <3>1, AddedType, PushKeeps DEF SeedPush
  <2>3. QED
    BY <1>5, <2>1, <2>2 DEF SeedPush
<1>6. CASE HealDestroy
  BY <1>6, KnownOnce, KnownNext DEF HealDestroy, NoDatabase, StageInv, CopyInv
<1>7. CASE HealRebuild
  BY <1>7, KnownOnce, KnownNext DEF HealRebuild, InitFromRegistry, StageInv, CopyInv
<1>8. CASE HealReseed
  <2>1. RemoteAdded = Origin
    BY <1>8 DEF HealReseed, StageInv, RemoteAdded
  <2>2. remote[Origin] \subseteq committed
    BY <1>8 DEF HealReseed, HealInv
  <2>3. CASE UNCHANGED remoteVars
    BY <1>1, <1>8, <2>3 DEF HealReseed
  <2>4. CASE Pushed(RemoteAdded)
    BY <1>8, <2>1, <2>2, <2>4, AddedType, PushKeeps DEF HealReseed
  <2>5. QED
    BY <1>8, <2>3, <2>4 DEF HealReseed
<1>9. CASE OwnerWriteback \/ CreateRepo \/ SeedCommit \/ SeedVerify \/ HealBegins
           \/ HealExport \/ HealGuard \/ Finish
  BY <1>1, <1>9 DEF OwnerWriteback, CreateRepo, SeedCommit, SeedVerify, HealBegins,
     HealExport, HealGuard, Finish
<1>10. QED
  BY <1>2, <1>3, <1>4, <1>5, <1>6, <1>7, <1>8, <1>9 DEF ProvisionStep

\* Between them, the guard, the refusal and the order of the ladder lose no issue while
\* a container lives, if its repository is the launcher's org's and every lead is marked:
\* for every number of issues and every other command that fails on the way.
THEOREM NoIssueLost ==
  ASSUME Org = Origin, "unmarked" \notin Shops
  PROVE  Spec => IssuesKept
<1> USE DEF dbVars, remoteVars, repoVars, ladderVars
<1>1. TypeOK /\ KeptInv /\ [Next]_vars => KeptInv'
  BY CopyStep, StageStep, HealStep, CompleteStep DEF KeptInv
<1>2. Spec => [](TypeOK /\ KeptInv)
  BY <1>1, TypeInit, TypeStep, KeptInit, PTL DEF Spec
<1>3. ASSUME TypeOK, KeptInv, [Next]_vars, phase # "down", phase' # "down",
             phase = "reseed" => exported
      PROVE  Known \subseteq Known'
  <2> USE <1>3 DEF KeptInv, Goto
  <2>1. CASE ProvisionStep
    BY <2>1, ProvisionKeeps
  <2>2. CASE Launch \/ Stop \/ NewerImage
    BY <2>2 DEF Launch, Stop, NewerImage
  <2>3. CASE AgentCommits
    BY <2>3, KnownOnce, KnownNext DEF AgentCommits, OpenIsComplete
  <2>4. CASE AgentPushes
    <3>1. \A o \in Owner \ {origin} : remote'[o] = remote[o]
      BY <2>4 DEF AgentPushes, TypeOK
    <3>2. QED
      BY <2>4, <3>1, KnownOnce, KnownNext DEF AgentPushes
  <2>5. CASE AgentHeals
    BY <2>5, KnownOnce, KnownNext DEF AgentHeals, CopyInv, TypeOK
  <2>6. ASSUME NEW i \in Issue, AgentCreates(i) PROVE Known \subseteq Known'
    BY <2>6, KnownOnce, KnownNext DEF AgentCreates
  <2>7. ASSUME NEW i \in Issue, OtherClonePushes(i) PROVE Known \subseteq Known'
    <3>1. \A o \in Owner : remote[o] \subseteq remote'[o]
      BY <2>7, OwnerAssumption DEF OtherClonePushes, TypeOK
    <3>2. QED
      BY <2>7, <3>1, KnownOnce, KnownNext DEF OtherClonePushes
  <2>8. CASE UNCHANGED vars
    BY <2>8 DEF vars, Known
  <2>9. QED
    BY <2>1, <2>2, <2>3, <2>4, <2>5, <2>6, <2>7, <2>8 DEF Next
<1>4. QED
  BY <1>2, <1>3, PTL DEF Spec, IssuesKept

-----------------------------------------------------------------------------
(* What a launch without a fault hands over: FaultlessInv is inductive, given *)
(* StageInv, when the launcher's org owns the repository.                     *)

\* fault is only reset by a launch or a stop
LEMMA FaultStays ==
  ASSUME [Next]_vars, ~fault', ~Launch, ~Stop
  PROVE  ~fault
BY DEF Next, ProvisionStep, OwnerWriteback, Bootstrap, BootstrapNothingToDo, BootstrapNotFound,
   BootstrapEmpty, BootstrapRefuses, BootstrapAdopts, BootstrapFails, CreateRepo, SeedCommit,
   SeedClear, SeedInit, SeedPush, SeedVerify, HealBegins, HealExport, HealGuard, HealDestroy,
   HealRebuild, HealReseed, Finish, NewerImage, AgentCommits, AgentPushes, AgentHeals,
   AgentCreates, OtherClonePushes, Works, Fails, vars

LEMMA FaultlessBootstrap ==
  ASSUME Org = Origin, TypeOK, StageInv, FaultlessInv, Bootstrap, ~fault, ~fault'
  PROVE  FaultlessInv'
<1> USE DEF Bootstrap, Answered, Goto, dbVars, remoteVars, repoVars
<1>1. /\ phase = "bootstrap" /\ sync = Origin /\ Origin \in Owner
      /\ UNCHANGED <<shop, registry, committed, kind, remote, stale, rung, sync>>
      /\ \/ rung = 0 /\ db = "none"
         \/ rung = 1 /\ db = "none" /\ kind[Origin] # "absent"
         \/ rung = 2 /\ Seeded
  BY OwnerAssumption DEF FaultlessInv, BootstrapFinds, BootstrapNothingToDo, BootstrapNotFound,
     BootstrapEmpty, BootstrapRefuses, BootstrapAdopts, BootstrapFails
<1>2. Origin # None
  BY OwnerAssumption
<1>3. CASE BootstrapNothingToDo
  <2>1. phase' = "finish" /\ Seeded'
    BY <1>1, <1>3 DEF BootstrapNothingToDo, NextRung, Seeded
  <2>2. QED
    BY <1>1, <2>1 DEF FaultlessInv, BootstrapFinds, SeedFinds, HealFinds, FinishFinds
<1>4. CASE BootstrapNotFound
  <2>1. rung = 0 /\ db' = "none"
    BY <1>1, <1>2, <1>4 DEF BootstrapNotFound, Seeded
  <2>2. phase' = "create"
    BY <1>4, <2>1 DEF BootstrapNotFound, NextRung
  <2>3. QED
    BY <1>1, <2>1, <2>2 DEF FaultlessInv, BootstrapFinds, SeedFinds, HealFinds, FinishFinds
<1>5. CASE BootstrapEmpty
  <2>1. rung \in {0, 1} /\ kind[Origin] = "branch"
    BY <1>1, <1>5 DEF BootstrapEmpty, Seeded
  <2>2. phase' = "seed"
    BY <1>5, <2>1 DEF BootstrapEmpty, NextRung
  <2>3. QED
    BY <1>1, <2>1, <2>2 DEF FaultlessInv, BootstrapFinds, SeedFinds, HealFinds, FinishFinds
<1>6. CASE BootstrapRefuses
  <2>1. rung \in {0, 1} /\ kind[Origin] = "dolt"
    BY <1>1, <1>6 DEF BootstrapRefuses, Seeded
  <2>2. phase' = "heal"
    BY <1>6, <2>1 DEF BootstrapRefuses, NextRung
  <2>3. QED
    BY <1>1, <2>1, <2>2 DEF FaultlessInv, BootstrapFinds, SeedFinds, HealFinds, FinishFinds
<1>7. CASE BootstrapAdopts
  <2>1. phase' = "finish"
    BY <1>7 DEF BootstrapAdopts, NextRung
  <2>2. Seeded'
    BY <1>1, <1>7 DEF BootstrapAdopts, Seeded
  <2>3. QED
    BY <1>1, <2>1, <2>2 DEF FaultlessInv, BootstrapFinds, SeedFinds, HealFinds, FinishFinds
<1>8. ~BootstrapFails
  BY DEF BootstrapFails, Fails
<1>9. QED
  BY <1>3, <1>4, <1>5, <1>6, <1>7, <1>8

LEMMA FaultlessSeed ==
  ASSUME Org = Origin, TypeOK, StageInv, FaultlessInv, ~fault, ~fault',
         CreateRepo \/ SeedCommit \/ SeedClear \/ SeedInit \/ SeedPush \/ SeedVerify
  PROVE  FaultlessInv'
<1> USE DEF Goto, Works, Fails, dbVars, remoteVars, repoVars, ladderVars, FaultlessInv,
        BootstrapFinds, SeedFinds, HealFinds, FinishFinds
<1>1. CASE CreateRepo
  <2>1. /\ phase = "create" /\ db = "none" /\ sync = Origin /\ rung' = 1
        /\ UNCHANGED <<sync, db>>
    BY <1>1 DEF CreateRepo
  <2>2. kind'[Origin] # "absent"
    BY <1>1, OwnerAssumption DEF CreateRepo, TypeOK
  <2>3. phase' = "bootstrap"
    BY <1>1, <2>2 DEF CreateRepo
  <2>4. QED
    BY <2>1, <2>2, <2>3
<1>2. CASE SeedCommit
  <2>1. /\ db = "partial" /\ sync = Origin /\ kind[Origin] = "branch" /\ rung' = 2
        /\ UNCHANGED <<sync, db, kind, registry>>
        /\ phase' = IF registry THEN "seedClear" ELSE "finish"
    BY <1>2 DEF SeedCommit, StageInv
  <2>2. QED
    BY <2>1
<1>3. CASE SeedClear
  BY <1>3 DEF SeedClear, NoDatabase
<1>4. CASE SeedInit
  <2>1. /\ phase = "seedInit" /\ db = "none" /\ stripped /\ rung = 2
        /\ sync = Origin /\ kind[Origin] = "branch"
        /\ UNCHANGED <<sync, kind, rung>>
    BY <1>4 DEF SeedInit
  <2>2. phase' = "seedPush" /\ db' = "open" /\ origin' = None
    BY <1>4, <2>1 DEF SeedInit, InitFromRegistry
  <2>3. QED
    BY <2>1, <2>2
<1>5. CASE SeedPush
  <2>1. /\ phase = "seedPush" /\ db = "open" /\ origin = None /\ rung = 2
        /\ sync = Origin /\ kind[Origin] = "branch"
        /\ UNCHANGED <<sync, rung, db>> /\ phase' = "seedVerify"
    BY <1>5 DEF SeedPush
  <2>2. RemoteAdded = Origin
    BY <2>1 DEF RemoteAdded
  <2>3. Pushed(Origin)
    BY <1>5, <2>1, <2>2 DEF SeedPush
  <2>4. Seeded'
    BY <2>1, <2>3, OwnerAssumption DEF Pushed, Seeded, TypeOK
  <2>5. QED
    BY <2>1, <2>4
<1>6. CASE SeedVerify
  <2>1. /\ phase = "seedVerify" /\ Seeded /\ rung = 2 /\ sync = Origin
        /\ UNCHANGED <<sync, rung, db, kind, stale>>
    BY <1>6 DEF SeedVerify
  <2>2. phase' = "bootstrap" /\ Seeded'
    BY <1>6, <2>1 DEF SeedVerify, Seeded
  <2>3. QED
    BY <2>1, <2>2
<1>7. QED
  BY <1>1, <1>2, <1>3, <1>4, <1>5, <1>6

LEMMA FaultlessHeal ==
  ASSUME Org = Origin, TypeOK, StageInv, FaultlessInv, ~fault, ~fault',
         HealBegins \/ HealExport \/ HealGuard \/ HealDestroy \/ HealRebuild \/ HealReseed
  PROVE  FaultlessInv'
<1> USE DEF Goto, Works, Fails, dbVars, remoteVars, repoVars, ladderVars, FaultlessInv,
        BootstrapFinds, SeedFinds, HealFinds, FinishFinds
<1>1. CASE HealBegins
  BY <1>1 DEF HealBegins, StageInv
<1>2. CASE HealExport
  BY <1>2 DEF HealExport
<1>3. CASE HealGuard
  BY <1>3 DEF HealGuard, StageInv
<1>4. CASE HealDestroy
  BY <1>4 DEF HealDestroy
<1>5. CASE HealRebuild
  BY <1>5 DEF HealRebuild
<1>6. CASE HealReseed
  <2>1. /\ phase = "reseed" /\ db = "open" /\ origin = None /\ kind[Origin] = "dolt"
        /\ sync = Origin /\ UNCHANGED <<sync, db>> /\ phase' = "finish"
    BY <1>6 DEF HealReseed, StageInv
  <2>2. RemoteAdded = Origin
    BY <2>1 DEF RemoteAdded
  <2>3. Pushed(Origin)
    BY <1>6, <2>1, <2>2 DEF HealReseed
  <2>4. Seeded'
    BY <2>1, <2>3, OwnerAssumption DEF Pushed, Seeded, TypeOK
  <2>5. QED
    BY <2>1, <2>4
<1>7. QED
  BY <1>1, <1>2, <1>3, <1>4, <1>5, <1>6

LEMMA FaultlessStep ==
  ASSUME Org = Origin, TypeOK, StageInv, FaultlessInv, [Next]_vars
  PROVE  FaultlessInv'
<1> SUFFICES ASSUME ~fault' PROVE FaultlessInv'
  BY DEF FaultlessInv
<1> USE DEF Goto, Works, Fails, dbVars, remoteVars, repoVars, ladderVars
<1>1. CASE Launch
  BY <1>1 DEF Launch, StageInv, FaultlessInv, BootstrapFinds, SeedFinds, HealFinds, FinishFinds
<1>2. CASE Stop
  BY <1>2 DEF Stop, FaultlessInv, BootstrapFinds, SeedFinds, HealFinds, FinishFinds
<1>3. CASE ~Launch /\ ~Stop
  <2>1. ~fault
    BY <1>3, FaultStays
  <2> USE <2>1 DEF FaultlessInv, BootstrapFinds, SeedFinds, HealFinds, FinishFinds
  <2>2. CASE Bootstrap
    BY <2>2, FaultlessBootstrap
  <2>3. CASE CreateRepo \/ SeedCommit \/ SeedClear \/ SeedInit \/ SeedPush \/ SeedVerify
    BY <2>3, FaultlessSeed
  <2>4. CASE HealBegins \/ HealExport \/ HealGuard \/ HealDestroy \/ HealRebuild \/ HealReseed
    BY <2>4, FaultlessHeal
  <2>5. CASE OwnerWriteback
    <3>1. /\ phase = "writeback" /\ phase' = "bootstrap" /\ sync' = Origin
          /\ UNCHANGED <<rung, db>>
      BY <2>5 DEF OwnerWriteback
    <3>2. rung = 0 /\ db = "none"
      BY <3>1
    <3>3. QED
      BY <3>1, <3>2
  <2>6. CASE Finish
    BY <2>6 DEF Finish
  <2>7. CASE AgentCommits \/ AgentPushes \/ AgentHeals \/ NewerImage
    BY <2>7 DEF AgentCommits, AgentPushes, AgentHeals, NewerImage
  <2>8. ASSUME NEW i \in Issue, AgentCreates(i) PROVE FaultlessInv'
    BY <2>8 DEF AgentCreates
  <2>9. ASSUME NEW i \in Issue, OtherClonePushes(i) PROVE FaultlessInv'
    BY <2>9 DEF OtherClonePushes, Seeded
  <2>10. CASE UNCHANGED vars
    BY <2>10 DEF vars, Seeded
  <2>11. QED
    BY <1>3, <2>2, <2>3, <2>4, <2>5, <2>6, <2>7, <2>8, <2>9, <2>10 DEF Next, ProvisionStep
<1>4. QED
  BY <1>1, <1>2, <1>3

\* A launch in which no external command fails hands over a writable, complete tracker over
\* a seeded remote of the BC's own, or the heal has refused for one of its three reasons:
\* for every number of issues and owners and every kind of shop, whatever the launches
\* before it left behind, if the BC's repository is the launcher's org's.
THEOREM FaultlessLaunchProvisions ==
  ASSUME Org = Origin
  PROVE  Spec => Provisioned
<1>1. Init => StageInv /\ FaultlessInv
  BY DEF Init, StageInv, FaultlessInv, BootstrapFinds, SeedFinds, HealFinds, FinishFinds
<1>2. Spec => [](TypeOK /\ OpenIsComplete /\ StageInv /\ FaultlessInv)
  <2>1. /\ TypeOK /\ OpenIsComplete /\ StageInv /\ FaultlessInv /\ [Next]_vars
        => (TypeOK /\ OpenIsComplete /\ StageInv /\ FaultlessInv)'
    BY TypeStep, CompleteStep, StageStep, FaultlessStep
  <2>2. Init => OpenIsComplete
    BY DEF Init, OpenIsComplete
  <2>3. QED
    BY <1>1, <2>1, <2>2, TypeInit, PTL DEF Spec
<1>3. ASSUME OpenIsComplete, FaultlessInv, [Next]_vars, phase = "finish", phase' = "agent", ~fault
      PROVE  \/ /\ db = "open" /\ committed \subseteq local
                /\ kind[Origin] = "dolt" /\ ~stale[Origin]
             \/ db = "refused" /\ (shop = "lead" \/ ~registry \/ ~(local \subseteq committed))
             \/ db = "partial" /\ ~registry
  BY <1>3 DEF FaultlessInv, FinishFinds, Seeded, OpenIsComplete
<1>4. QED
  BY <1>2, <1>3, PTL DEF Spec, Provisioned
=============================================================================
