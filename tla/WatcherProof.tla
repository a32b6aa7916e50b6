----------------------------- MODULE WatcherProof -----------------------------
(***************************************************************************)
(* Proofs about Watcher, for every set of ids, names, workers and faults:  *)
(* locks and config files, the refinement of WorkIntake, and locks that     *)
(* outlive their workers.                                                  *)
(***************************************************************************)
EXTENDS Watcher, TLAPS

\* The initial state is well typed.
LEMMA InitType == Init => TypeOK
  <1> SUFFICES ASSUME Init PROVE TypeOK
    OBVIOUS
  <1>1. stream \in Seq(WorkId)
    BY DEF Init
  <1>2. QED
    BY <1>1 DEF Init, TypeOK, Phases, Steps

\* Every step keeps the variables in their types.
LEMMA NextType == TypeOK /\ [Next]_vars => TypeOK'
  <1> SUFFICES ASSUME TypeOK, [Next]_vars PROVE TypeOK'
    OBVIOUS
  <1> USE NameAssumption DEF Phases, Steps, supVars, workerVars, fileVars
  <1>1. ASSUME NEW id \in WorkId, Send(id) PROVE TypeOK'
    <2>1. stream' \in Seq(WorkId)
      <3>1. stream \in Seq(WorkId)
        BY DEF TypeOK
      <3>2. stream' = stream \/ stream' = Append(stream, id)
        BY <1>1 DEF Send
      <3>3. QED
        BY <3>1, <3>2
    <2>2. QED
      BY <1>1, <2>1 DEF TypeOK, Send
  <1>2. CASE ServerBinds \/ ServerDies \/ Engage \/ WatchEnds
    BY <1>2 DEF TypeOK, ServerBinds, ServerDies, Engage, WatchEnds
  <1>3. CASE Stop
    <2>1. stream' \in Seq(WorkId)
      BY <1>3 DEF Stop
    <2>2. QED
      BY <1>3, <2>1 DEF TypeOK, Stop
  <1>4. CASE SupervisorStep
    <2>1. CASE Bootstrap
      BY <2>1 DEF TypeOK, Bootstrap
    <2>2. CASE BootstrapExits \/ BootstrapCutShort \/ SocketWaitEnds \/ DrainQuery
               \/ DrainQueryFails \/ DrainEnds \/ Listen \/ ListenFails \/ StreamEnds
      BY <2>2 DEF TypeOK, BootstrapExits, BootstrapCutShort, SocketWaitEnds, DrainQuery,
         DrainQueryFails, DrainEnds, Listen, ListenFails, StreamEnds
    <2>3. ASSUME NEW id \in WorkId, DrainLine(id) PROVE TypeOK'
      BY <2>3 DEF TypeOK, DrainLine, Dispatch, Spawn, Skip
    <2>4. CASE WatchLine
      <3>1. Head(stream) \in WorkId /\ Tail(stream) \in Seq(WorkId)
        BY <2>4 DEF TypeOK, WatchLine
      <3>2. stream' \in Seq(WorkId)
        BY <2>4, <3>1 DEF WatchLine
      <3>3. CASE Spawn(Head(stream))
        BY <2>4, <3>1, <3>2, <3>3 DEF TypeOK, WatchLine, Spawn
      <3>4. CASE Skip(Head(stream))
        BY <2>4, <3>1, <3>2, <3>4 DEF TypeOK, WatchLine, Skip
      <3>5. QED
        BY <2>4, <3>3, <3>4 DEF WatchLine, Dispatch
    <2>5. QED
      BY <1>4, <2>1, <2>2, <2>3, <2>4 DEF SupervisorStep
  <1>5. ASSUME NEW w \in Worker, WorkerStep(w) PROVE TypeOK'
    <2>1. CASE Materialize(w) \/ MaterializeFails(w)
      BY <2>1 DEF TypeOK, Materialize, MaterializeFails, Goto
    <2>2. CASE Answer(w) \/ ChildEnds(w)
      BY <2>2 DEF TypeOK, Answer, ChildEnds, Goto
    <2>3. CASE RemoveConfig(w) \/ Release(w)
      BY <2>3 DEF TypeOK, RemoveConfig, Release, Goto
    <2>4. QED
      BY <1>5, <2>1, <2>2, <2>3 DEF WorkerStep
  <1>6. CASE UNCHANGED vars
    BY <1>6 DEF TypeOK, vars
  <1>7. QED
    BY <1>1, <1>2, <1>3, <1>4, <1>5, <1>6 DEF Next

\* Type correctness of the watcher's state.
THEOREM TypeCorrect == Spec => []TypeOK
  BY InitType, NextType, PTL DEF Spec

-----------------------------------------------------------------------------
\* Nothing is locked, running or configured at first.
LEMMA InitLockInv == Init => LockInv
  BY DEF Init, LockInv, OneChildPerName, OwnConfigOnly, Live, KeyOf

\* A fork under a free lock keeps the lock discipline: the name was in use by no
\* worker and had no config file.
LEMMA SpawnLockInv ==
  ASSUME TypeOK, LockInv, NEW id \in WorkId, Spawn(id)
  PROVE  LockInv'
  <1> DEFINE k == SanitizedName[id]
  <1>1. k \in Key
    BY NameAssumption
  <1>2. PICK w \in Worker : /\ wpc[w] = "free"
                            /\ wpc' = [wpc EXCEPT ![w] = "start"]
                            /\ wid' = [wid EXCEPT ![w] = id]
    BY DEF Spawn
  <1>3. k \notin locks /\ locks' = locks \cup {k} /\ config' = config
    BY DEF Spawn
  <1>4. \A v \in Worker : v # w => wpc'[v] = wpc[v] /\ wid'[v] = wid[v]
    BY <1>2 DEF TypeOK
  <1>5. wpc'[w] = "start" /\ wid'[w] = id
    BY <1>2 DEF TypeOK
  <1>6. \A v \in Worker : v # w /\ Live(v)' => KeyOf(v)' \in locks /\ KeyOf(v)' # k
    BY <1>3, <1>4 DEF LockInv, Live, KeyOf
  <1>7. config[k] = None
    BY <1>1, <1>3 DEF LockInv
  <1>8. \A v \in Worker : Live(v)' => wid'[v] \in WorkId /\ KeyOf(v)' \in locks'
    BY <1>3, <1>4, <1>5, <1>6 DEF LockInv, Live, KeyOf
  <1>9. \A j \in Key : config'[j] # None => j \in locks'
    BY <1>3 DEF LockInv
  <1>10. OneChildPerName'
    BY <1>4, <1>5, <1>6 DEF LockInv, OneChildPerName, Live, KeyOf
  <1>11. OwnConfigOnly'
    BY <1>3, <1>4, <1>5, <1>7 DEF LockInv, OwnConfigOnly, Live, KeyOf
  <1>12. \A v \in Worker : wpc'[v] = "cleaned" => config'[KeyOf(v)'] = None
    BY <1>3, <1>4, <1>5 DEF LockInv, KeyOf
  <1>13. QED
    BY <1>8, <1>9, <1>10, <1>11, <1>12 DEF LockInv

\* A step that leaves workers, locks and files alone keeps it.
LEMMA FrameLockInv ==
  ASSUME LockInv, UNCHANGED <<locks, config, wpc, wid>>
  PROVE  LockInv'
  BY DEF LockInv, OneChildPerName, OwnConfigOnly, Live, KeyOf

\* The worker steps between the fork and the release that touch no file.
LEMMA ProgressLockInv ==
  ASSUME LockInv, TypeOK, NEW w \in Worker, Live(w), UNCHANGED <<locks, config, wid>>,
         NEW s \in Steps \ {"free", "cleaned"}, wpc' = [wpc EXCEPT ![w] = s]
  PROVE  LockInv'
  <1>1. \A v \in Worker : Live(v)' <=> Live(v)
    BY DEF Live, TypeOK, Steps
  <1>2. \A v \in Worker : KeyOf(v)' = KeyOf(v)
    BY DEF KeyOf
  <1>3. \A v \in Worker : wpc'[v] = "cleaned" => wpc[v] = "cleaned"
    BY DEF TypeOK
  <1>4. QED
    BY <1>1, <1>2, <1>3 DEF LockInv, OneChildPerName, OwnConfigOnly

\* Writing one's own config file, or removing it: no other live worker shares it.
LEMMA ConfigLockInv ==
  ASSUME LockInv, TypeOK, NEW w \in Worker, Live(w), UNCHANGED <<locks, wid>>,
         NEW s \in Steps \ {"free"}, wpc' = [wpc EXCEPT ![w] = s],
         NEW c \in {wid[w], None}, s = "cleaned" => c = None,
         config' = [config EXCEPT ![KeyOf(w)] = c]
  PROVE  LockInv'
  <1>1. \A v \in Worker : (Live(v)' <=> Live(v)) /\ KeyOf(v)' = KeyOf(v)
    BY DEF Live, KeyOf, TypeOK, Steps
  <1>2. KeyOf(w) \in Key /\ KeyOf(w) \in locks
    BY NameAssumption DEF LockInv, KeyOf
  <1>3. \A v \in Worker : Live(v) => KeyOf(v) \in Key
    BY NameAssumption DEF LockInv, KeyOf
  <1>4. \A k \in Key : config'[k] # None => k \in locks
    BY <1>2 DEF LockInv, TypeOK
  <1>5. ASSUME NEW v \in Worker, Live(v) PROVE config'[KeyOf(v)] \in {wid[v], None}
    <2>1. CASE v = w
      BY <1>2, <2>1 DEF TypeOK
    <2>2. CASE v # w
      <3>1. KeyOf(v) # KeyOf(w)
        BY <1>5, <2>2 DEF LockInv, OneChildPerName
      <3>2. QED
        BY <1>3, <1>5, <3>1 DEF TypeOK, LockInv, OwnConfigOnly
    <2>3. QED
      BY <2>1, <2>2
  <1>6. ASSUME NEW v \in Worker, wpc'[v] = "cleaned" PROVE config'[KeyOf(v)] = None
    <2>1. CASE v = w
      BY <1>2, <1>6, <2>1 DEF TypeOK
    <2>2. CASE v # w
      <3>1. Live(v) /\ config[KeyOf(v)] = None
        BY <1>6, <2>2 DEF LockInv, TypeOK, Live
      <3>2. KeyOf(v) # KeyOf(w)
        BY <2>2, <3>1 DEF LockInv, OneChildPerName
      <3>3. QED
        BY <1>3, <3>1, <3>2 DEF TypeOK
    <2>3. QED
      BY <2>1, <2>2
  <1>7. QED
    BY <1>1, <1>4, <1>5, <1>6 DEF LockInv, OneChildPerName, OwnConfigOnly

\* Dropping the lock: its only holder goes with it, and its file is gone already.
LEMMA ReleaseLockInv ==
  ASSUME LockInv, TypeOK, NEW w \in Worker, Release(w)
  PROVE  LockInv'
  <1>1. Live(w)
    BY DEF Release, Goto, Live
  <1>2. \A v \in Worker : Live(v)' => v # w /\ Live(v) /\ wid'[v] = wid[v] /\ KeyOf(v)' = KeyOf(v)
    BY DEF Release, Goto, Live, KeyOf, TypeOK
  <1>3. \A v \in Worker : Live(v)' => KeyOf(v) # KeyOf(w)
    BY <1>1, <1>2 DEF LockInv, OneChildPerName
  <1>4. locks' = locks \ {KeyOf(w)} /\ config' = config
    BY DEF Release
  <1>5. config[KeyOf(w)] = None
    BY DEF LockInv, Release, Goto
  <1>6. \A v \in Worker : wpc'[v] = "cleaned" => Live(v)' /\ wpc[v] = "cleaned"
    BY DEF Release, Goto, Live, TypeOK
  <1>7. QED
    BY <1>2, <1>3, <1>4, <1>5, <1>6 DEF LockInv, OneChildPerName, OwnConfigOnly

\* Every step keeps the lock discipline.
LEMMA NextLockInv == TypeOK /\ LockInv /\ [Next]_vars => LockInv'
  <1> SUFFICES ASSUME TypeOK, LockInv, [Next]_vars PROVE LockInv'
    OBVIOUS
  <1> USE DEF supVars, workerVars, fileVars
  <1>1. ASSUME NEW id \in WorkId, Send(id) PROVE LockInv'
    BY <1>1, FrameLockInv DEF Send
  <1>2. CASE ServerBinds \/ ServerDies \/ Engage \/ WatchEnds
    BY <1>2, FrameLockInv DEF ServerBinds, ServerDies, Engage, WatchEnds
  <1>3. CASE Stop
    <2>1. \A w \in Worker : ~Live(w)' /\ wpc'[w] # "cleaned"
      BY <1>3 DEF Stop, Live
    <2>2. \A k \in Key : config'[k] # None => k \in locks'
      BY <1>3 DEF Stop, LockInv
    <2>3. QED
      BY <2>1, <2>2 DEF LockInv, OneChildPerName, OwnConfigOnly
  <1>4. CASE SupervisorStep
    <2>1. ASSUME NEW id \in WorkId, Dispatch(id) PROVE LockInv'
      <3>1. CASE Spawn(id)
        BY <3>1, SpawnLockInv
      <3>2. CASE Skip(id)
        BY <3>2, FrameLockInv DEF Skip
      <3>3. QED
        BY <2>1, <3>1, <3>2 DEF Dispatch
    <2>2. CASE Bootstrap \/ BootstrapExits \/ BootstrapCutShort \/ SocketWaitEnds
               \/ DrainQuery \/ DrainQueryFails \/ DrainEnds \/ Listen \/ ListenFails
               \/ StreamEnds
      BY <2>2, FrameLockInv DEF Bootstrap, BootstrapExits, BootstrapCutShort, SocketWaitEnds,
         DrainQuery, DrainQueryFails, DrainEnds, Listen, ListenFails, StreamEnds
    <2>3. ASSUME NEW id \in WorkId, DrainLine(id) PROVE LockInv'
      BY <2>1, <2>3 DEF DrainLine
    <2>4. CASE WatchLine
      <3>1. Head(stream) \in WorkId
        BY <2>4 DEF TypeOK, WatchLine
      <3>2. QED
        BY <2>1, <2>4, <3>1 DEF WatchLine
    <2>5. QED
      BY <1>4, <2>2, <2>3, <2>4 DEF SupervisorStep
  <1>5. ASSUME NEW w \in Worker, WorkerStep(w) PROVE LockInv'
    <2>1. CASE Materialize(w)
      <3>1. PICK s \in Steps \ {"free"}, c \in {wid[w], None} :
              /\ s = "run" /\ wpc' = [wpc EXCEPT ![w] = s]
              /\ config' = [config EXCEPT ![KeyOf(w)] = c]
        BY <2>1 DEF Materialize, Goto, Steps
      <3>2. Live(w) /\ UNCHANGED <<locks, wid>>
        BY <2>1 DEF Materialize, Goto, Live
      <3>3. QED
        BY <3>1, <3>2, ConfigLockInv
    <2>2. CASE MaterializeFails(w)
      <3>1. CASE config' = config
        BY <2>2, <3>1, ProgressLockInv DEF MaterializeFails, Goto, Live, Steps
      <3>2. CASE config' = [config EXCEPT ![KeyOf(w)] = None]
        BY <2>2, <3>2, ConfigLockInv DEF MaterializeFails, Goto, Live, Steps
      <3>3. QED
        BY <2>2, <3>1, <3>2 DEF MaterializeFails
    <2>3. CASE Answer(w) \/ ChildEnds(w)
      BY <2>3, ProgressLockInv DEF Answer, ChildEnds, Goto, Live, Steps
    <2>4. CASE RemoveConfig(w)
      BY <2>4, ConfigLockInv DEF RemoveConfig, Goto, Live, Steps
    <2>5. CASE Release(w)
      BY <2>5, ReleaseLockInv
    <2>6. QED
      BY <1>5, <2>1, <2>2, <2>3, <2>4, <2>5 DEF WorkerStep
  <1>6. CASE UNCHANGED vars
    BY <1>6, FrameLockInv DEF vars
  <1>7. QED
    BY <1>1, <1>2, <1>3, <1>4, <1>5, <1>6 DEF Next

\* The lock discipline holds in every reachable state, whatever fails and
\* whether or not the workspace survives its container.
LEMMA LockDiscipline == Spec => []LockInv
  BY TypeCorrect, InitLockInv, NextLockInv, PTL DEF Spec

\* At most one child runs under a name at any time.
THEOREM MutualExclusion == Spec => []OneChildPerName
  <1>1. LockInv => OneChildPerName
    BY DEF LockInv
  <1>2. QED
    BY <1>1, LockDiscipline, PTL

\* No worker's config file is ever another work id's.
THEOREM ConfigOwnership == Spec => []OwnConfigOnly
  <1>1. LockInv => OwnConfigOnly
    BY DEF LockInv
  <1>2. QED
    BY <1>1, LockDiscipline, PTL

-----------------------------------------------------------------------------
(* The watcher implements WorkIntake *)

\* busy without its CHOOSE: unique under OneChildPerName.
BusyChar ==
  /\ \A w \in Worker : Live(w) => busy[KeyOf(w)] = wid[w]
  /\ \A k \in Key : (\A w \in Worker : Live(w) => KeyOf(w) # k) => busy[k] = None

\* busy names, per key, the id of the one live worker.
LEMMA BusyLemma == LockInv => BusyChar
  <1> SUFFICES ASSUME LockInv PROVE BusyChar
    OBVIOUS
  <1>1. ASSUME NEW w \in Worker, Live(w) PROVE busy[KeyOf(w)] = wid[w]
    <2> DEFINE v == CHOOSE u \in Worker : Live(u) /\ KeyOf(u) = KeyOf(w)
    <2>1. KeyOf(w) \in Key
      BY <1>1, NameAssumption DEF LockInv, KeyOf
    <2>2. v \in Worker /\ Live(v) /\ KeyOf(v) = KeyOf(w)
      BY <1>1
    <2>3. v = w
      BY <1>1, <2>2 DEF LockInv, OneChildPerName
    <2>4. QED
      BY <1>1, <2>1, <2>3 DEF busy
  <1>2. ASSUME NEW k \in Key, \A w \in Worker : Live(w) => KeyOf(w) # k
        PROVE  busy[k] = None
    BY <1>2 DEF busy
  <1>3. QED
    BY <1>1, <1>2 DEF BusyChar

\* A live worker's name is a key.
LEMMA LiveKey == ASSUME LockInv, NEW w \in Worker, Live(w) PROVE KeyOf(w) \in Key
  BY NameAssumption DEF LockInv, KeyOf

LEMMA BusyPrime == LockInv' => BusyChar'
  BY BusyLemma, PTL

\* Two functions on Key with the same values.
LEMMA SameBusy ==
  ASSUME NEW f, f = [k \in Key |-> f[k]], \A k \in Key : busy'[k] = f[k]
  PROVE  busy' = f
  BY DEF busy

\* A worker step that ends no worker and starts none keeps busy.
LEMMA ProgressBusy ==
  ASSUME TypeOK, LockInv, LockInv', wid' = wid, \A w \in Worker : Live(w)' <=> Live(w)
  PROVE  busy' = busy
  <1>1. \A w \in Worker : KeyOf(w)' = KeyOf(w)
    BY DEF KeyOf
  <1>2. ASSUME NEW k \in Key PROVE busy'[k] = busy[k]
    <2>1. CASE \A w \in Worker : Live(w) => KeyOf(w) # k
      BY <1>1, <2>1, BusyLemma, BusyPrime DEF BusyChar
    <2>2. CASE \E w \in Worker : Live(w) /\ KeyOf(w) = k
      BY <1>1, <2>2, BusyLemma, BusyPrime DEF BusyChar
    <2>3. QED
      BY <2>1, <2>2
  <1>3. busy = [k \in Key |-> busy[k]]
    BY DEF busy
  <1>4. QED
    BY <1>2, <1>3, SameBusy

\* The fork is the abstract Begin.
LEMMA SpawnBusy ==
  ASSUME TypeOK, LockInv, LockInv', NEW id \in WorkId, Spawn(id)
  PROVE  Intake!Begin(id)
  <1> DEFINE k == SanitizedName[id]
  <1>1. k \in Key
    BY NameAssumption
  <1>2. PICK w \in Worker : /\ wpc[w] = "free"
                            /\ wpc' = [wpc EXCEPT ![w] = "start"]
                            /\ wid' = [wid EXCEPT ![w] = id]
    BY DEF Spawn
  <1>3. Live(w)' /\ KeyOf(w)' = k /\ wid'[w] = id
    BY <1>2 DEF TypeOK, Live, KeyOf
  <1>4. \A v \in Worker : v # w => (Live(v)' <=> Live(v)) /\ KeyOf(v)' = KeyOf(v) /\ wid'[v] = wid[v]
    BY <1>2 DEF TypeOK, Live, KeyOf
  <1>5. \A v \in Worker : Live(v) => KeyOf(v) # k /\ v # w
    BY <1>2 DEF LockInv, Spawn, Live
  <1>6. busy[k] = None
    BY <1>1, <1>5, BusyLemma DEF BusyChar
  <1>7. busy'[k] = id
    BY <1>3, BusyPrime DEF BusyChar
  <1>8. ASSUME NEW j \in Key, j # k PROVE busy'[j] = busy[j]
    <2>1. CASE \A v \in Worker : Live(v) => KeyOf(v) # j
      <3>1. \A v \in Worker : Live(v)' => KeyOf(v)' # j
        BY <1>3, <1>4, <1>8, <2>1
      <3>2. QED
        BY <2>1, <3>1, BusyLemma, BusyPrime DEF BusyChar
    <2>2. CASE \E v \in Worker : Live(v) /\ KeyOf(v) = j
      <3>1. PICK v \in Worker : Live(v) /\ KeyOf(v) = j
        BY <2>2
      <3>2. Live(v)' /\ KeyOf(v)' = j /\ wid'[v] = wid[v]
        BY <1>4, <1>5, <3>1
      <3>3. QED
        BY <3>1, <3>2, BusyLemma, BusyPrime DEF BusyChar
    <2>3. QED
      BY <2>1, <2>2
  <1>9. busy' = [busy EXCEPT ![k] = id]
    <2> DEFINE f == [busy EXCEPT ![k] = id]
    <2>1. f = [j \in Key |-> f[j]]
      BY DEF busy
    <2>2. \A j \in Key : busy'[j] = f[j]
      BY <1>1, <1>7, <1>8 DEF busy
    <2> HIDE DEF f
    <2>3. busy' = f
      BY <2>1, <2>2, SameBusy
    <2>4. QED
      BY <2>3 DEF f
  <1>10. pending' = pending
    BY DEF Spawn
  <1>11. QED
    BY <1>6, <1>9, <1>10 DEF Intake!Begin

\* The release is the abstract Finish.
LEMMA ReleaseBusy ==
  ASSUME TypeOK, LockInv, LockInv', NEW w \in Worker, Release(w)
  PROVE  KeyOf(w) \in Key /\ Intake!Finish(KeyOf(w))
  <1> DEFINE k == KeyOf(w)
  <1>1. Live(w) /\ ~Live(w)'
    BY DEF Release, Goto, Live, TypeOK
  <1>2. k \in Key /\ wid[w] \in WorkId
    BY <1>1, LiveKey DEF LockInv
  <1>3. busy[k] = wid[w] /\ busy[k] # None
    BY <1>1, <1>2, BusyLemma, NoneAssumption DEF BusyChar
  <1>4. \A v \in Worker : v # w => (Live(v)' <=> Live(v)) /\ KeyOf(v)' = KeyOf(v) /\ wid'[v] = wid[v]
    BY DEF Release, Goto, TypeOK, Live, KeyOf
  <1>5. \A v \in Worker : v # w /\ Live(v) => KeyOf(v) # k
    BY <1>1 DEF LockInv, OneChildPerName
  <1>6. busy'[k] = None
    BY <1>1, <1>2, <1>4, <1>5, BusyPrime DEF BusyChar
  <1>7. ASSUME NEW j \in Key, j # k PROVE busy'[j] = busy[j]
    <2>1. CASE \A v \in Worker : Live(v) => KeyOf(v) # j
      <3>1. \A v \in Worker : Live(v)' => KeyOf(v)' # j
        BY <1>1, <1>4, <2>1
      <3>2. QED
        BY <2>1, <3>1, BusyLemma, BusyPrime DEF BusyChar
    <2>2. CASE \E v \in Worker : Live(v) /\ KeyOf(v) = j
      <3>1. PICK v \in Worker : Live(v) /\ KeyOf(v) = j
        BY <2>2
      <3>2. Live(v)' /\ KeyOf(v)' = j /\ wid'[v] = wid[v]
        BY <1>4, <1>7, <3>1
      <3>3. QED
        BY <3>1, <3>2, BusyLemma, BusyPrime DEF BusyChar
    <2>3. QED
      BY <2>1, <2>2
  <1>8. busy' = [busy EXCEPT ![k] = None]
    <2> DEFINE f == [busy EXCEPT ![k] = None]
    <2>1. f = [j \in Key |-> f[j]]
      BY DEF busy
    <2>2. \A j \in Key : busy'[j] = f[j]
      BY <1>2, <1>6, <1>7 DEF busy
    <2> HIDE DEF f
    <2>3. busy' = f
      BY <2>1, <2>2, SameBusy
    <2>4. QED
      BY <2>3 DEF f
  <1>9. pending' = pending
    BY DEF Release
  <1>10. QED
    BY <1>2, <1>3, <1>8, <1>9 DEF Intake!Finish

\* The initial state is an initial state of the intake.
LEMMA IntakeInit == Init => Intake!Init
  BY DEF Init, Intake!Init, Intake!Idle, busy, Live

\* Every step is a step of the intake or changes nothing it can see.
LEMMA IntakeStep ==
  TypeOK /\ LockInv /\ LockInv' /\ [Next]_vars => [Intake!Next]_<<pending, busy>>
  <1> SUFFICES ASSUME TypeOK, LockInv, LockInv', [Next]_vars
               PROVE  [Intake!Next]_<<pending, busy>>
    OBVIOUS
  <1> USE DEF supVars, workerVars, fileVars
  <1>0. ASSUME UNCHANGED <<wpc, wid>> PROVE busy' = busy
    BY <1>0 DEF busy, Live, KeyOf
  <1>1. ASSUME NEW id \in WorkId, Send(id) PROVE Intake!Next
    BY <1>0, <1>1 DEF Send, Intake!Arrive, Intake!Next
  <1>2. CASE ServerBinds \/ ServerDies \/ Engage \/ WatchEnds
    BY <1>0, <1>2 DEF ServerBinds, ServerDies, Engage, WatchEnds
  <1>3. CASE Stop
    <2>1. \A w \in Worker : ~Live(w)'
      BY <1>3 DEF Stop, Live
    <2>2. busy' = Intake!Idle
      BY <2>1, BusyPrime DEF BusyChar, busy, Intake!Idle
    <2>3. QED
      BY <1>3, <2>2 DEF Stop, Intake!Halt, Intake!Next
  <1>4. CASE SupervisorStep
    <2>1. ASSUME NEW id \in WorkId, Dispatch(id) PROVE [Intake!Next]_<<pending, busy>>
      <3>1. CASE Spawn(id)
        BY <3>1, SpawnBusy DEF Intake!Next
      <3>2. CASE Skip(id)
        BY <1>0, <3>2 DEF Skip
      <3>3. QED
        BY <2>1, <3>1, <3>2 DEF Dispatch
    <2>2. CASE Bootstrap \/ BootstrapExits \/ BootstrapCutShort \/ SocketWaitEnds
               \/ DrainQuery \/ DrainQueryFails \/ DrainEnds \/ Listen \/ ListenFails
               \/ StreamEnds
      BY <1>0, <2>2 DEF Bootstrap, BootstrapExits, BootstrapCutShort, SocketWaitEnds,
         DrainQuery, DrainQueryFails, DrainEnds, Listen, ListenFails, StreamEnds
    <2>3. ASSUME NEW id \in WorkId, DrainLine(id) PROVE [Intake!Next]_<<pending, busy>>
      BY <2>1, <2>3 DEF DrainLine
    <2>4. CASE WatchLine
      <3>1. Head(stream) \in WorkId
        BY <2>4 DEF TypeOK, WatchLine
      <3>2. QED
        BY <2>1, <2>4, <3>1 DEF WatchLine
    <2>5. QED
      BY <1>4, <2>2, <2>3, <2>4 DEF SupervisorStep
  <1>5. ASSUME NEW w \in Worker, WorkerStep(w) PROVE [Intake!Next]_<<pending, busy>>
    <2>1. CASE Materialize(w) \/ MaterializeFails(w) \/ ChildEnds(w)
               \/ RemoveConfig(w)
      <3>1. wid' = wid /\ pending' = pending /\ \A v \in Worker : Live(v)' <=> Live(v)
        BY <2>1 DEF Materialize, MaterializeFails, ChildEnds, RemoveConfig, Goto, TypeOK, Live
      <3>2. QED
        BY <3>1, ProgressBusy
    <2>2. CASE Answer(w)
      <3>1. Live(w) /\ wid' = wid /\ \A v \in Worker : Live(v)' <=> Live(v)
        BY <2>2 DEF Answer, Goto, TypeOK, Live
      <3>2. busy' = busy
        BY <3>1, ProgressBusy
      <3>3. wid[w] \in WorkId /\ busy[KeyOf(w)] = wid[w]
        BY <3>1, BusyLemma DEF LockInv, BusyChar
      <3>4. pending' = pending \ {wid[w]}
        BY <2>2 DEF Answer
      <3>5. Intake!Answered(wid[w])
        BY <3>2, <3>3, <3>4 DEF Intake!Answered, KeyOf
      <3>6. QED
        BY <3>3, <3>5 DEF Intake!Next
    <2>3. CASE Release(w)
      BY <2>3, ReleaseBusy DEF Intake!Next
    <2>4. QED
      BY <1>5, <2>1, <2>2, <2>3 DEF WorkerStep
  <1>6. CASE UNCHANGED vars
    BY <1>0, <1>6 DEF vars
  <1>7. QED
    BY <1>1, <1>2, <1>3, <1>4, <1>5, <1>6 DEF Next

\* The watcher implements the intake it promises.
THEOREM WatcherImplementsIntake == Spec => IntakeSpec
  BY IntakeInit, IntakeStep, TypeCorrect, LockDiscipline, PTL DEF Spec, IntakeSpec, Intake!Spec

-----------------------------------------------------------------------------
\* A worker that stays alive keeps holding its lock.
LEMMA HeldFrame ==
  ASSUME LockMeansRunning, locks' \subseteq locks, wid' = wid,
         \A w \in Worker : Live(w) => Live(w)'
  PROVE  LockMeansRunning'
  <1>1. \A w \in Worker : KeyOf(w)' = KeyOf(w)
    BY DEF KeyOf
  <1>2. QED
    BY <1>1 DEF LockMeansRunning

\* If the workspace goes with the container, every step keeps every lock held.
LEMMA NextHeld ==
  ASSUME ~Mounted
  PROVE  TypeOK /\ LockInv /\ LockMeansRunning /\ [Next]_vars => LockMeansRunning'
  <1> SUFFICES ASSUME TypeOK, LockInv, LockMeansRunning, [Next]_vars
               PROVE  LockMeansRunning'
    OBVIOUS
  <1> USE DEF supVars, workerVars, fileVars
  <1>0. ASSUME UNCHANGED <<locks, wpc, wid>> PROVE LockMeansRunning'
    BY <1>0 DEF LockMeansRunning, Live, KeyOf
  <1>1. ASSUME NEW id \in WorkId, Send(id) PROVE LockMeansRunning'
    BY <1>0, <1>1 DEF Send
  <1>2. CASE ServerBinds \/ ServerDies \/ Engage \/ WatchEnds
    BY <1>0, <1>2 DEF ServerBinds, ServerDies, Engage, WatchEnds
  <1>3. CASE Stop
    BY <1>3 DEF Stop, LockMeansRunning
  <1>4. CASE SupervisorStep
    <2>1. ASSUME NEW id \in WorkId, Dispatch(id) PROVE LockMeansRunning'
      <3>1. CASE Spawn(id)
        <4>1. PICK w \in Worker : /\ wpc[w] = "free"
                                  /\ wpc' = [wpc EXCEPT ![w] = "start"]
                                  /\ wid' = [wid EXCEPT ![w] = id]
          BY <3>1 DEF Spawn
        <4>2. Live(w)' /\ KeyOf(w)' = SanitizedName[id]
          BY <4>1 DEF TypeOK, Live, KeyOf
        <4>3. \A v \in Worker : Live(v) => Live(v)' /\ KeyOf(v)' = KeyOf(v)
          BY <4>1 DEF TypeOK, Live, KeyOf
        <4>4. locks' = locks \cup {SanitizedName[id]}
          BY <3>1 DEF Spawn
        <4>5. QED
          BY <4>2, <4>3, <4>4 DEF LockMeansRunning
      <3>2. CASE Skip(id)
        BY <1>0, <3>2 DEF Skip
      <3>3. QED
        BY <2>1, <3>1, <3>2 DEF Dispatch
    <2>2. CASE Bootstrap \/ BootstrapExits \/ BootstrapCutShort \/ SocketWaitEnds
               \/ DrainQuery \/ DrainQueryFails \/ DrainEnds \/ Listen \/ ListenFails
               \/ StreamEnds
      BY <1>0, <2>2 DEF Bootstrap, BootstrapExits, BootstrapCutShort, SocketWaitEnds,
         DrainQuery, DrainQueryFails, DrainEnds, Listen, ListenFails, StreamEnds
    <2>3. ASSUME NEW id \in WorkId, DrainLine(id) PROVE LockMeansRunning'
      BY <2>1, <2>3 DEF DrainLine
    <2>4. CASE WatchLine
      <3>1. Head(stream) \in WorkId
        BY <2>4 DEF TypeOK, WatchLine
      <3>2. QED
        BY <2>1, <2>4, <3>1 DEF WatchLine
    <2>5. QED
      BY <1>4, <2>2, <2>3, <2>4 DEF SupervisorStep
  <1>5. ASSUME NEW w \in Worker, WorkerStep(w) PROVE LockMeansRunning'
    <2>1. CASE Materialize(w) \/ MaterializeFails(w) \/ Answer(w) \/ ChildEnds(w)
               \/ RemoveConfig(w)
      <3>1. wid' = wid /\ locks' = locks /\ \A v \in Worker : Live(v) => Live(v)'
        BY <2>1 DEF Materialize, MaterializeFails, Answer, ChildEnds, RemoveConfig, Goto, TypeOK, Live
      <3>2. QED
        BY <3>1, HeldFrame
    <2>2. CASE Release(w)
      <3>1. locks' = locks \ {KeyOf(w)}
        BY <2>2 DEF Release
      <3>2. \A v \in Worker : v # w /\ Live(v) => Live(v)' /\ KeyOf(v)' = KeyOf(v)
        BY <2>2 DEF Release, Goto, TypeOK, Live, KeyOf
      <3>3. QED
        BY <3>1, <3>2 DEF LockMeansRunning
    <2>3. QED
      BY <1>5, <2>1, <2>2 DEF WorkerStep
  <1>6. CASE UNCHANGED vars
    BY <1>0, <1>6 DEF vars
  <1>7. QED
    BY <1>1, <1>2, <1>3, <1>4, <1>5, <1>6 DEF Next

\* Unless the workspace outlives its container, no lock is ever stale: every
\* entry of the in-flight directory has a live worker, whatever fails.
THEOREM NoStaleLock ==
  ASSUME ~Mounted
  PROVE  Spec => []LockMeansRunning
  <1>1. Init => LockMeansRunning
    BY DEF Init, LockMeansRunning
  <1>2. TypeOK /\ LockInv /\ LockMeansRunning /\ [Next]_vars => LockMeansRunning'
    BY NextHeld
  <1>3. QED
    BY <1>1, <1>2, TypeCorrect, LockDiscipline, PTL DEF Spec
-----------------------------------------------------------------------------
\* Unless its creation fails, the in-flight directory is there once the bootstrap is over.
LEMMA NextDir ==
  ASSUME ~Mounted, "statedir" \notin Faults
  PROVE  DirInv /\ [Next]_vars => DirInv'
  <1> SUFFICES ASSUME DirInv, [Next]_vars PROVE DirInv'
    OBVIOUS
  <1> USE DEF supVars, workerVars, fileVars, DirInv
  <1>1. CASE Stop \/ Engage \/ Bootstrap \/ BootstrapExits \/ BootstrapCutShort
    BY <1>1 DEF Stop, Engage, Bootstrap, BootstrapExits, BootstrapCutShort
  <1>2. CASE SocketWaitEnds \/ DrainQuery \/ DrainQueryFails \/ DrainEnds
             \/ Listen \/ ListenFails \/ StreamEnds
    BY <1>2 DEF SocketWaitEnds, DrainQuery, DrainQueryFails, DrainEnds, Listen,
       ListenFails, StreamEnds
  <1>3. ASSUME UNCHANGED <<phase, stateDir>> PROVE DirInv'
    BY <1>3
  <1>4. \A id : Dispatch(id) => stateDir' = stateDir
    BY DEF Dispatch, Spawn, Skip
  <1>5. CASE WatchLine \/ \E id \in WorkId : DrainLine(id)
    BY <1>3, <1>4, <1>5 DEF DrainLine, WatchLine
  <1>6. CASE ServerBinds \/ ServerDies \/ WatchEnds \/ (\E id \in WorkId : Send(id))
    BY <1>3, <1>6 DEF ServerBinds, ServerDies, WatchEnds, Send
  <1>7. ASSUME NEW w \in Worker, WorkerStep(w) PROVE DirInv'
    BY <1>3, <1>7 DEF WorkerStep, Materialize, MaterializeFails, Answer, ChildEnds,
       RemoveConfig, Release
  <1>8. CASE UNCHANGED vars
    BY <1>3, <1>8 DEF vars
  <1>9. QED
    BY <1>1, <1>2, <1>5, <1>6, <1>7, <1>8 DEF Next, SupervisorStep

\* A line leaves the drain's listing without a lock being taken only if its id is skipped.
LEMMA PassedOverIsSkipped ==
  ASSUME TypeOK, [Next]_vars, NEW id \in WorkId,
         phase = "draining", phase' = phase, id \in snap, id \notin snap', locks' = locks
  PROVE  Skip(id)
  <1> USE DEF supVars, workerVars, fileVars
  <1>1. DrainLine(id)
    <2>1. ~(UNCHANGED vars) /\ snap' # snap
      BY DEF vars
    <2>2. ~SupervisorStep => snap' = snap \/ phase' # phase
      <3>1. ASSUME NEW w \in Worker, WorkerStep(w) PROVE snap' = snap
        BY <3>1 DEF WorkerStep, Materialize, MaterializeFails, Answer, ChildEnds,
           RemoveConfig, Release
      <3>2. CASE ServerBinds \/ ServerDies \/ Stop \/ Engage \/ WatchEnds
                 \/ (\E i \in WorkId : Send(i))
        BY <3>2 DEF ServerBinds, ServerDies, Stop, Engage, WatchEnds, Send
      <3>3. QED
        BY <2>1, <3>1, <3>2 DEF Next
    <2>3. SupervisorStep
      BY <2>1, <2>2
    <2>4. PICK i \in WorkId : DrainLine(i)
      BY <2>3 DEF SupervisorStep, Bootstrap, BootstrapExits, BootstrapCutShort,
         SocketWaitEnds, DrainQuery, DrainQueryFails, DrainEnds, Listen, ListenFails,
         WatchLine, StreamEnds
    <2>5. QED
      BY <2>4 DEF DrainLine
  <1>2. ~Spawn(id)
    BY DEF Spawn
  <1>3. QED
    BY <1>1, <1>2 DEF DrainLine, Dispatch

\* In a container with a workspace of its own, where the in-flight directory could be
\* made, the drain passes over an id only while a child runs under its name.
THEOREM SkipsAreInFlight ==
  ASSUME ~Mounted, "statedir" \notin Faults
  PROVE  Spec => SkipMeansInFlight
  <1>1. Init => DirInv
    BY DEF Init, DirInv
  <1>2. DirInv /\ [Next]_vars => DirInv'
    BY NextDir
  <1>3. ASSUME TypeOK, DirInv, LockMeansRunning, [Next]_vars, NEW id \in WorkId,
               phase = "draining", phase' = phase, id \in snap, id \notin snap',
               locks' = locks
        PROVE  \E w \in Worker : Live(w) /\ KeyOf(w) = SanitizedName[id]
    <2>1. Skip(id)
      BY <1>3, PassedOverIsSkipped
    <2>2. SanitizedName[id] \in locks
      BY <1>3, <2>1 DEF Skip, DirInv
    <2>3. QED
      BY <1>3, <2>2 DEF LockMeansRunning
  <1>4. TypeOK /\ DirInv /\ LockMeansRunning /\ [Next]_vars
          => (\A id \in WorkId :
                phase = "draining" /\ id \in snap /\ id \notin snap' /\ locks' = locks
                  /\ phase' = phase
                => \E w \in Worker : Live(w) /\ KeyOf(w) = SanitizedName[id])
    BY <1>3
  <1>5. QED
    BY <1>1, <1>2, <1>4, TypeCorrect, NoStaleLock, PTL DEF Spec, SkipMeansInFlight
=============================================================================
