---------------------------- MODULE WorkflowProof ----------------------------
(* Proofs about Workflow: its typing, that no message is lost and no run ends *)
(* unreported, that main only grows, that complete means integrated, and that *)
(* the runs are the children WorkIntake describes.                            *)
EXTENDS Workflow, SequenceTheorems, TLAPS

-----------------------------------------------------------------------------
(* The graph *)

LEMMA SuccessEdges ==
  /\ \A n \in DOMAIN OnSuccess : OnSuccess[n] \in Nodes
  /\ \A n \in {"prime", "health", "arm", "armed", "worktree", "redgate", "integ"} :
       OnSuccess[n] \in {"health", "arm", "armed", "classify", "plan", "integ", "push"}
  /\ OnSuccess["push"] = "review" /\ OnSuccess["wdg_r"] = "emit_r"
  /\ OnSuccess["wdg_f"] = "emit_f"
  /\ \A n \in {"emit_r", "emit_f", "reported"} : OnSuccess[n] = "done"
  /\ \A n \in {"emit_clar", "emit_blk"} : OnSuccess[n] = "reported"
BY DEF OnSuccess, Nodes, Agents

LEMMA FailureEdges ==
  /\ \A n \in Nodes : OnFailure[n] \in {"halt", "done", "emit_blk"}
  /\ OnFailure["armed"] = "done"
  /\ \A n \in Nodes \ {"armed"} : OnFailure[n] \in {"halt", "emit_blk"}
  /\ \A n \in {"emit_r", "emit_f", "emit_clar", "emit_blk"} : OnFailure[n] = "halt"
BY DEF OnFailure, FailsToHalt, Nodes, Agents, OnSuccess

LEMMA BranchEdges ==
  ASSUME NEW n \in Agents, NEW l \in DOMAIN Branch[n]
  PROVE  /\ Branch[n][l] \in {"suff", "impl_f", "worktree", "emit_clar", "impl", "redgate",
                              "wdg_r", "emit_blk", "wdg_f"}
         /\ n # "review" => Branch[n][l] # "wdg_r"
<1>1. CASE n = "classify"
  BY <1>1 DEF Branch
<1>2. CASE n = "suff"
  BY <1>2 DEF Branch
<1>3. CASE n = "plan"
  BY <1>3 DEF Branch
<1>4. CASE n = "impl"
  BY <1>4 DEF Branch
<1>5. CASE n = "impl_f"
  BY <1>5 DEF Branch
<1>6. CASE n = "review"
  BY <1>6 DEF Branch
<1>7. QED
  BY <1>1, <1>2, <1>3, <1>4, <1>5, <1>6 DEF Agents

-----------------------------------------------------------------------------
(* How the steps of a run move it *)

LEMMA GotoMoves ==
  ASSUME TypeOK, NEW w \in Work, NEW n \in Nodes \cup {"none"}, Goto(w, n)
  PROVE  /\ node' \in [Work -> Nodes \cup {"none"}] /\ attempt' \in [Work -> 0..MaxRetries]
         /\ node'[w] = n
         /\ \A v \in Work \ {w} : node'[v] = node[v]
BY WorkflowBoundAssumption DEF TypeOK, Goto

LEMMA SucceedMoves ==
  ASSUME TypeOK, NEW w \in Work, node[w] \in DOMAIN OnSuccess, Succeed(w)
  PROVE  /\ node' \in [Work -> Nodes \cup {"none"}] /\ attempt' \in [Work -> 0..MaxRetries]
         /\ node'[w] = OnSuccess[node[w]] /\ node'[w] \in Nodes
         /\ \A v \in Work \ {w} : node'[v] = node[v]
BY GotoMoves, SuccessEdges DEF Succeed

LEMMA FailMoves ==
  ASSUME TypeOK, NEW w \in Work, node[w] \in Nodes, Fail(w)
  PROVE  /\ node' \in [Work -> Nodes \cup {"none"}] /\ attempt' \in [Work -> 0..MaxRetries]
         /\ node'[w] = OnFailure[node[w]] /\ node'[w] \in Nodes
         /\ \A v \in Work \ {w} : node'[v] = node[v]
<1>1. OnFailure[node[w]] \in Nodes
  BY FailureEdges DEF Nodes, Agents, OnSuccess
<1>2. QED
  BY <1>1, GotoMoves DEF Fail

LEMMA AgentMoves ==
  ASSUME TypeOK, NEW w \in Work, node[w] \in Agents, AgentOutcome(w)
  PROVE  /\ node' \in [Work -> Nodes \cup {"none"}] /\ attempt' \in [Work -> 0..MaxRetries]
         /\ node'[w] \in {"suff", "impl_f", "worktree", "emit_clar", "impl", "redgate",
                          "wdg_r", "emit_blk", "wdg_f", "halt", node[w]}
         /\ node[w] # "review" => node'[w] \notin {"wdg_r", "review"}
         /\ \A v \in Work \ {w} : node'[v] = node[v]
<1>1. node[w] \in Nodes \ {"armed"}
  BY DEF Nodes, Agents, OnSuccess
<1>2. CASE \E l \in DOMAIN Branch[node[w]] : Goto(w, Branch[node[w]][l])
  <2>1. PICK l \in DOMAIN Branch[node[w]] : Goto(w, Branch[node[w]][l])
    BY <1>2
  <2>2. Branch[node[w]][l] \in Nodes
    BY BranchEdges DEF Nodes, Agents, OnSuccess
  <2>3. QED
    BY <2>1, <2>2, BranchEdges, GotoMoves
<1>3. CASE AgentFails(w)
  <2>1. CASE attempt[w] < MaxRetries
    <3>1. attempt' = [attempt EXCEPT ![w] = attempt[w] + 1] /\ node' = node
      BY <1>3, <2>1 DEF AgentFails
    <3>2. attempt[w] + 1 \in 0..MaxRetries
      BY <2>1, WorkflowBoundAssumption DEF TypeOK
    <3>3. attempt' \in [Work -> 0..MaxRetries]
      BY <3>1, <3>2 DEF TypeOK
    <3>4. node[w] # "wdg_r"
      BY DEF Agents
    <3>5. QED
      BY <3>1, <3>3, <3>4 DEF TypeOK
  <2>2. CASE ~(attempt[w] < MaxRetries)
    <3>1. Fail(w)
      BY <1>3, <2>2 DEF AgentFails
    <3>2. OnFailure[node[w]] \in {"halt", "emit_blk"}
      BY <1>1, FailureEdges
    <3>3. QED
      BY <1>1, <3>1, <3>2, FailMoves
  <2>3. QED
    BY <2>1, <2>2
<1>4. QED
  BY <1>2, <1>3 DEF AgentOutcome

-----------------------------------------------------------------------------
(* Types *)

LEMMA LogType ==
  ASSUME TypeOK, NEW plan \in Plans, NEW named \in BOOLEAN, NEW w \in Work
  PROVE  own[w] \o [i \in DOMAIN plan |-> [work |-> w, kind |-> plan[i], named |-> named]]
           \in Seq(Commit)
<1>1. plan \in Seq({"red", "green"})
  BY PlansAssumption
<1>2. Len(plan) \in Nat /\ DOMAIN plan = 1..Len(plan)
      /\ \A i \in DOMAIN plan : plan[i] \in {"red", "green"}
  BY <1>1
<1>3. \A i \in DOMAIN plan : [work |-> w, kind |-> plan[i], named |-> named] \in Commit
  BY <1>2 DEF Commit
<1>4. [i \in DOMAIN plan |-> [work |-> w, kind |-> plan[i], named |-> named]] \in Seq(Commit)
  BY <1>2, <1>3
<1>5. own[w] \in Seq(Commit)
  BY DEF TypeOK
<1>6. QED
  BY <1>4, <1>5

LEMMA TypeInit == Init => TypeOK
<1> SUFFICES ASSUME Init PROVE TypeOK
  OBVIOUS
<1>1. main \in Seq(Commit) /\ fetched \in Nat
  BY PastAssumption DEF Init
<1>2. own \in [Work -> Seq(Commit)]
  BY DEF Init
<1>3. attempt \in [Work -> 0..MaxRetries]
  BY WorkflowBoundAssumption DEF Init
<1>4. QED
  BY <1>1, <1>2, <1>3 DEF Init, TypeOK

LEMMA EnvironmentTypes ==
  ASSUME TypeOK, NEW w \in Work, Send(w) \/ Begin(w) \/ Crash(w) \/ Ends(w)
  PROVE  TypeOK'
<1> USE DEF inboxVars, runVars, repoVars
<1>1. CASE Send(w)
  BY <1>1 DEF Send, TypeOK
<1>2. CASE Begin(w) \/ Crash(w) \/ Ends(w)
  <2>1. PICK n \in {"prime", "none"} : Goto(w, n) /\ Tell(w, "none")
    BY <1>2 DEF Begin, Crash, Ends
  <2>2. n \in Nodes \cup {"none"}
    BY DEF Nodes, OnSuccess
  <2>3. node' \in [Work -> Nodes \cup {"none"}] /\ attempt' \in [Work -> 0..MaxRetries]
    BY <2>1, <2>2, GotoMoves
  <2>4. report' \in [Work -> {"none", "idle", "clarify", "blocked", "reviewed", "flat"}]
    BY <2>1 DEF Tell, TypeOK
  <2>5. UNCHANGED <<inboxVars, repoVars>>
    BY <1>2 DEF Begin, Crash, Ends
  <2>6. QED
    BY <2>3, <2>4, <2>5 DEF TypeOK
<1>3. QED
  BY <1>1, <1>2

LEMMA StopTypes ==
  ASSUME TypeOK, Stop
  PROVE  TypeOK'
<1> USE DEF inboxVars, runVars, repoVars
<1>1. attempt' \in [Work -> 0..MaxRetries]
  BY WorkflowBoundAssumption DEF Stop
<1>2. /\ node' \in [Work -> Nodes \cup {"none"}] /\ UNCHANGED <<inboxVars, main>>
      /\ report' \in [Work -> {"none", "idle", "clarify", "blocked", "reviewed", "flat"}]
  BY DEF Stop
<1>3. CASE Mounted
  BY <1>1, <1>2, <1>3 DEF Stop, TypeOK
<1>4. CASE ~Mounted
  <2>1. trees' = {} /\ dirty' = {} /\ base' \in [Work -> Nat]
    BY <1>4 DEF Stop
  <2>2. own' \in [Work -> Seq(Commit)]
    <3>1. own' = [v \in Work |-> <<>>]
      BY <1>4 DEF Stop
    <3>2. <<>> \in Seq(Commit)
      OBVIOUS
    <3>3. QED
      BY <3>1, <3>2
  <2>3. fetched' \in Nat
    BY <1>4 DEF Stop, Fetch, TypeOK
  <2>4. QED
    BY <1>1, <1>2, <2>1, <2>2, <2>3 DEF TypeOK
<1>5. QED
  BY <1>3, <1>4

LEMMA TellTypes ==
  ASSUME TypeOK, NEW w \in Work,
         NEW what \in {"none", "idle", "clarify", "blocked", "reviewed", "flat"}, Tell(w, what)
  PROVE  /\ report' \in [Work -> {"none", "idle", "clarify", "blocked", "reviewed", "flat"}]
         /\ report'[w] = what /\ \A v \in Work \ {w} : report'[v] = report[v]
BY DEF TypeOK, Tell

LEMMA AnswerTypes ==
  ASSUME TypeOK, NEW w \in Work, NEW what \in {"complete", "clarify"}, Answer(w, what)
  PROVE  /\ response' \in [Work -> {"none", "complete", "clarify"}]
         /\ pending' \subseteq sent' /\ sent' = sent /\ pending' = pending \ {w}
         /\ response'[w] = what /\ \A v \in Work \ {w} : response'[v] = response[v]
BY DEF TypeOK, Answer

\* Native nodes go along the edges of the graph.
LEMMA NativeMoves ==
  ASSUME TypeOK, NEW w \in Work,
         \/ SessionStart(w) \/ Armed(w) \/ Worktree(w) \/ RedGate(w) \/ Integ(w) \/ Push(w)
         \/ WorkDoneGate(w) \/ EmitComplete(w) \/ EmitClarify(w) \/ ReportBlocked(w)
         \/ Reported(w)
  PROVE  /\ node' \in [Work -> Nodes \cup {"none"}] /\ attempt' \in [Work -> 0..MaxRetries]
         /\ node[w] \in DOMAIN OnSuccess /\ node'[w] \in {OnSuccess[node[w]], OnFailure[node[w]]}
         /\ node'[w] \in Nodes
         /\ \A v \in Work \ {w} : node'[v] = node[v]
<1>1. Succeed(w) \/ Fail(w)
  BY DEF SessionStart, Armed, Worktree, RedGate, Integ, Push, WorkDoneGate, EmitComplete,
         EmitClarify, ReportBlocked, Reported
<1>2. node[w] \in DOMAIN OnSuccess
  BY DEF SessionStart, Armed, Worktree, RedGate, Integ, Push, WorkDoneGate, EmitComplete,
         EmitClarify, ReportBlocked, Reported, At, OnSuccess
<1>3. node[w] \in Nodes
  BY <1>2 DEF Nodes
<1>4. QED
  BY <1>1, <1>2, <1>3, SucceedMoves, FailMoves

LEMMA NativeTypes ==
  ASSUME TypeOK, NEW w \in Work,
         \/ SessionStart(w) \/ Armed(w) \/ Worktree(w) \/ RedGate(w) \/ Integ(w) \/ Push(w)
         \/ WorkDoneGate(w) \/ EmitComplete(w) \/ EmitClarify(w) \/ ReportBlocked(w)
         \/ Reported(w)
  PROVE  TypeOK'
<1> USE DEF inboxVars, runVars, repoVars
<1>1. node' \in [Work -> Nodes \cup {"none"}] /\ attempt' \in [Work -> 0..MaxRetries]
  BY NativeMoves
<1>2. Len(main) \in Nat
  BY DEF TypeOK
<1>3. CASE SessionStart(w) \/ RedGate(w) \/ Reported(w)
  BY <1>1, <1>3 DEF TypeOK, SessionStart, RedGate, Reported
<1>4. CASE Armed(w) \/ ReportBlocked(w)
  <2>1. /\ \/ UNCHANGED report \/ Tell(w, "idle") \/ Tell(w, "blocked")
        /\ UNCHANGED <<inboxVars, repoVars>>
    BY <1>4 DEF Armed, ReportBlocked
  <2>2. report' \in [Work -> {"none", "idle", "clarify", "blocked", "reviewed", "flat"}]
    BY <2>1, TellTypes DEF TypeOK
  <2>3. QED
    BY <1>1, <2>1, <2>2 DEF TypeOK
<1>5. CASE Worktree(w)
  <2>1. trees' \subseteq Work
    BY <1>5 DEF Worktree, TypeOK
  <2>2. base' \in [Work -> Nat]
    BY <1>5 DEF Worktree, TypeOK
  <2>3. own' \in [Work -> Seq(Commit)]
    <3>1. <<>> \in Seq(Commit)
      OBVIOUS
    <3>2. own' = own \/ own' = [own EXCEPT ![w] = <<>>]
      BY <1>5 DEF Worktree
    <3>3. QED
      BY <3>1, <3>2 DEF TypeOK
  <2>4. UNCHANGED <<inboxVars, report, main, fetched, dirty>>
    BY <1>5 DEF Worktree
  <2>5. QED
    BY <1>1, <2>1, <2>2, <2>3, <2>4 DEF TypeOK
<1>6. CASE Integ(w) \/ WorkDoneGate(w)
  <2>1. fetched' \in Nat
    BY <1>2, <1>6 DEF Integ, WorkDoneGate, Fetch, TypeOK
  <2>2. base' \in [Work -> Nat]
    BY <1>2, <1>6 DEF Integ, WorkDoneGate, TypeOK
  <2>3. UNCHANGED <<inboxVars, report, main, trees, own, dirty>>
    BY <1>6 DEF Integ, WorkDoneGate
  <2>4. QED
    BY <1>1, <2>1, <2>2, <2>3 DEF TypeOK
<1>7. CASE Push(w)
  <2>1. UNCHANGED <<inboxVars, report, trees, base, own, dirty>>
    BY <1>7 DEF Push
  <2>2. own[w] \in Seq(Commit) /\ main \in Seq(Commit)
    BY DEF TypeOK
  <2>3. main' \in Seq(Commit)
    <3>1. main' = main \/ main' = main \o own[w]
      BY <1>7 DEF Push
    <3>2. main \o own[w] \in Seq(Commit)
      BY <2>2
    <3>3. QED
      BY <2>2, <3>1, <3>2
  <2>4. fetched' \in Nat
    <3>1. fetched' = fetched \/ fetched' = Len(main')
      BY <1>7 DEF Push
    <3>2. Len(main') \in Nat
      BY <2>3
    <3>3. QED
      BY <3>1, <3>2 DEF TypeOK
  <2>5. QED
    BY <1>1, <2>1, <2>3, <2>4 DEF TypeOK
<1>8. CASE EmitComplete(w) \/ EmitClarify(w)
  <2>1. \/ /\ \E what \in {"complete", "clarify"} : Answer(w, what)
           /\ \E what \in {"reviewed", "flat", "clarify"} : Tell(w, what)
        \/ UNCHANGED <<inboxVars, report>>
    BY <1>8 DEF EmitComplete, EmitClarify
  <2>2. UNCHANGED repoVars
    BY <1>8 DEF EmitComplete, EmitClarify
  <2>3. /\ report' \in [Work -> {"none", "idle", "clarify", "blocked", "reviewed", "flat"}]
        /\ response' \in [Work -> {"none", "complete", "clarify"}]
        /\ sent' \subseteq Work /\ pending' \subseteq sent'
    <3>1. CASE UNCHANGED <<inboxVars, report>>
      BY <3>1 DEF TypeOK
    <3>2. CASE /\ \E what \in {"complete", "clarify"} : Answer(w, what)
               /\ \E what \in {"reviewed", "flat", "clarify"} : Tell(w, what)
      <4>1. report' \in [Work -> {"none", "idle", "clarify", "blocked", "reviewed", "flat"}]
        BY <3>2, TellTypes
      <4>2. /\ response' \in [Work -> {"none", "complete", "clarify"}]
            /\ sent' = sent /\ pending' \subseteq sent'
        BY <3>2, AnswerTypes
      <4>3. QED
        BY <4>1, <4>2 DEF TypeOK
    <3>3. QED
      BY <2>1, <3>1, <3>2
  <2>4. QED
    BY <1>1, <2>2, <2>3 DEF TypeOK
<1>9. QED
  BY <1>3, <1>4, <1>5, <1>6, <1>7, <1>8

LEMMA AgentTypes ==
  ASSUME TypeOK, NEW w \in Work, Judge(w) \/ Implement(w) \/ ImplementFlat(w)
  PROVE  TypeOK'
<1> USE DEF inboxVars, runVars, repoVars
<1>1. node[w] \in Agents /\ AgentOutcome(w)
  BY DEF Judge, Implement, ImplementFlat, At, Agents
<1>2. node' \in [Work -> Nodes \cup {"none"}] /\ attempt' \in [Work -> 0..MaxRetries]
  BY <1>1, AgentMoves
<1>3. CASE Judge(w)
  BY <1>2, <1>3 DEF Judge, TypeOK
<1>4. CASE Implement(w)
  <2>1. own' \in [Work -> Seq(Commit)]
    <3>1. PICK plan \in Plans, named \in Naming :
            own' = [own EXCEPT ![w] =
              @ \o [i \in DOMAIN plan |-> [work |-> w, kind |-> plan[i], named |-> named]]]
      BY <1>4 DEF Implement
    <3>2. named \in BOOLEAN
      BY DEF Naming
    <3>3. QED
      BY <3>1, <3>2, LogType DEF TypeOK
  <2>2. dirty' \subseteq Work \cup {None}
    BY <1>4 DEF Implement, Leaving, TypeOK
  <2>3. UNCHANGED <<inboxVars, report, main, fetched, trees, base>>
    BY <1>4 DEF Implement
  <2>4. QED
    BY <1>2, <2>1, <2>2, <2>3 DEF TypeOK
<1>5. CASE ImplementFlat(w)
  <2>1. main' \in Seq(Commit) /\ fetched' \in Nat
    <3>1. CASE UNCHANGED <<main, fetched>>
      BY <3>1 DEF TypeOK
    <3>2. CASE /\ \E named \in Naming :
                    main' = Append(main, [work |-> w, kind |-> "other", named |-> named])
               /\ fetched' = Len(main')
      <4>1. PICK named \in BOOLEAN :
              main' = Append(main, [work |-> w, kind |-> "other", named |-> named])
        BY <3>2 DEF Naming
      <4>2. [work |-> w, kind |-> "other", named |-> named] \in Commit
        BY DEF Commit
      <4>3. main' \in Seq(Commit)
        BY <4>1, <4>2 DEF TypeOK
      <4>4. QED
        BY <3>2, <4>3
    <3>3. QED
      BY <1>5, <3>1, <3>2 DEF ImplementFlat
  <2>2. dirty' \subseteq Work \cup {None}
    BY <1>5 DEF ImplementFlat, Leaving, TypeOK
  <2>3. UNCHANGED <<inboxVars, report, trees, base, own>>
    BY <1>5 DEF ImplementFlat
  <2>4. QED
    BY <1>2, <2>1, <2>2, <2>3 DEF TypeOK
<1>6. QED
  BY <1>3, <1>4, <1>5

LEMMA TypeStep == TypeOK /\ [Next]_vars => TypeOK'
<1> SUFFICES ASSUME TypeOK, [Next]_vars PROVE TypeOK'
  OBVIOUS
<1>1. CASE UNCHANGED vars
  BY <1>1 DEF vars, inboxVars, runVars, repoVars, TypeOK
<1>2. CASE Next
  <2>1. CASE Stop
    BY <2>1, StopTypes
  <2>2. ASSUME NEW w \in Work, Send(w) \/ Begin(w) \/ Crash(w) \/ RunStep(w)
        PROVE  TypeOK'
    BY <2>2, EnvironmentTypes, NativeTypes, AgentTypes DEF RunStep
  <2>3. QED
    BY <1>2, <2>1, <2>2 DEF Next
<1>3. QED
  BY <1>1, <1>2

\* Inbox, runs and repository keep their types, for every set of ids and every fault.
THEOREM TypeCorrect == Spec => []TypeOK
<1>1. QED
  BY TypeInit, TypeStep, PTL DEF Spec

-----------------------------------------------------------------------------
(* Messages *)

\* Only ids that were sent run or have an answer.
AnswerInv == \A w \in Work : Runs(w) \/ response[w] # "none" => w \in sent

LEMMA InboxSteps ==
  ASSUME NEW w \in Work, RunStep(w)
  PROVE  /\ Runs(w)
         /\ UNCHANGED inboxVars \/ \E what \in {"complete", "clarify"} : Answer(w, what)
<1>1. Runs(w)
  BY DEF RunStep, SessionStart, Armed, Judge, Implement, ImplementFlat, Worktree, RedGate,
         Integ, Push, WorkDoneGate, EmitComplete, EmitClarify, ReportBlocked, Reported, Ends,
         At, Runs
<1>2. CASE EmitComplete(w) \/ EmitClarify(w)
  BY <1>1, <1>2 DEF EmitComplete, EmitClarify, inboxVars
<1>3. CASE ~(EmitComplete(w) \/ EmitClarify(w))
  BY <1>1, <1>3 DEF RunStep, SessionStart, Armed, Judge, Implement, ImplementFlat, Worktree,
         RedGate, Integ, Push, WorkDoneGate, ReportBlocked, Reported, Ends
<1>4. QED
  BY <1>2, <1>3

LEMMA OthersStay ==
  ASSUME TypeOK, NEW w \in Work, RunStep(w)
  PROVE  \A v \in Work \ {w} : node'[v] = node[v]
<1>1. CASE Ends(w)
  BY <1>1, GotoMoves DEF Ends
<1>2. CASE Judge(w) \/ Implement(w) \/ ImplementFlat(w)
  <2>1. node[w] \in Agents /\ AgentOutcome(w)
    BY <1>2 DEF Judge, Implement, ImplementFlat, At, Agents
  <2>2. QED
    BY <2>1, AgentMoves
<1>3. CASE ~(Ends(w) \/ Judge(w) \/ Implement(w) \/ ImplementFlat(w))
  BY <1>3, NativeMoves DEF RunStep
<1>4. QED
  BY <1>1, <1>2, <1>3

LEMMA MessageStep ==
  TypeOK /\ AnswerInv /\ NothingLost /\ [Next]_vars => AnswerInv' /\ NothingLost'
<1> SUFFICES ASSUME TypeOK, AnswerInv, NothingLost, [Next]_vars
             PROVE  AnswerInv' /\ NothingLost'
  OBVIOUS
<1>1. CASE UNCHANGED vars
  BY <1>1 DEF vars, inboxVars, runVars, AnswerInv, NothingLost, Runs
<1>2. CASE Stop
  BY <1>2 DEF Stop, inboxVars, AnswerInv, NothingLost, Runs
<1>3. ASSUME NEW w \in Work, Send(w)
      PROVE  AnswerInv' /\ NothingLost'
  BY <1>3 DEF Send, runVars, AnswerInv, NothingLost, Runs
<1>4. ASSUME NEW w \in Work, Begin(w) \/ Crash(w)
      PROVE  AnswerInv' /\ NothingLost'
  <2>1. \A v \in Work : Runs(v)' => Runs(v) \/ v \in sent
    <3>1. PICK n \in {"prime", "none"} : Goto(w, n) /\ (n = "prime" => w \in sent)
      BY <1>4 DEF Begin, Crash
    <3>2. \A v \in Work : v # w => node'[v] = node[v]
      BY <3>1 DEF Goto, TypeOK
    <3>3. node'[w] = n
      BY <3>1 DEF Goto, TypeOK
    <3>4. QED
      BY <3>1, <3>2, <3>3 DEF Runs
  <2>2. UNCHANGED inboxVars
    BY <1>4 DEF Begin, Crash
  <2>3. QED
    BY <2>1, <2>2 DEF inboxVars, AnswerInv, NothingLost
<1>5. ASSUME NEW w \in Work, RunStep(w)
      PROVE  AnswerInv' /\ NothingLost'
  <2>1. w \in sent /\ sent' = sent
    BY <1>5, InboxSteps DEF AnswerInv, inboxVars, Answer
  <2>2. \A v \in Work \ {w} : node'[v] = node[v]
    BY <1>5, OthersStay
  <2>3. CASE UNCHANGED inboxVars
    BY <2>1, <2>2, <2>3 DEF inboxVars, AnswerInv, NothingLost, Runs
  <2>4. CASE \E what \in {"complete", "clarify"} : Answer(w, what)
    <3>1. PICK what \in {"complete", "clarify"} : Answer(w, what)
      BY <2>4
    <3>2. /\ pending' = pending \ {w} /\ response'[w] = what
          /\ \A v \in Work \ {w} : response'[v] = response[v]
      BY <3>1, AnswerTypes
    <3>3. QED
      BY <2>1, <2>2, <3>2 DEF AnswerInv, NothingLost, Runs, TypeOK
  <2>5. QED
    BY <1>5, <2>3, <2>4, InboxSteps
<1>6. QED
  BY <1>1, <1>2, <1>3, <1>4, <1>5 DEF Next

\* A message is pending until it is answered, whatever its runs meet on their way.
THEOREM MessagesKept == Spec => []NothingLost
<1>1. Init => AnswerInv /\ NothingLost
  BY DEF Init, AnswerInv, NothingLost, Runs
<1>2. QED
  BY <1>1, TypeCorrect, MessageStep, PTL DEF Spec

-----------------------------------------------------------------------------
(* Reports *)

\* A run has told the lead something exactly when it stands at a node that may
\* succeed.
ReportInv == \A w \in Work : report[w] # "none" <=> node[w] \in {"reported", "done"}

LEMMA ReportInvImplies == ReportInv => EndIsReported
BY DEF ReportInv, EndIsReported, At

LEMMA ReportAt ==
  ASSUME TypeOK, ReportInv, NEW w \in Work, RunStep(w)
  PROVE  /\ report'[w] # "none" <=> node'[w] \in {"reported", "done"}
         /\ \A v \in Work \ {w} : report'[v] = report[v]
<1>1. CASE Ends(w)
  BY <1>1, GotoMoves, TellTypes DEF Ends
<1>2. CASE Judge(w) \/ Implement(w) \/ ImplementFlat(w)
  <2>1. node[w] \in Agents /\ AgentOutcome(w) /\ UNCHANGED report
    BY <1>2 DEF Judge, Implement, ImplementFlat, At, Agents
  <2>2. node[w] \notin {"reported", "done"} /\ node'[w] \notin {"reported", "done"}
    BY <2>1, AgentMoves DEF Agents
  <2>3. QED
    BY <2>1, <2>2 DEF ReportInv
<1>3. CASE \/ SessionStart(w) \/ Worktree(w) \/ RedGate(w) \/ Integ(w) \/ Push(w)
           \/ WorkDoneGate(w)
  <2>1. /\ node[w] \in {"prime", "health", "arm", "worktree", "redgate", "integ", "push",
                        "wdg_r", "wdg_f"}
        /\ UNCHANGED report
    BY <1>3 DEF SessionStart, Worktree, RedGate, Integ, Push, WorkDoneGate, At
  <2>2. node'[w] \in {OnSuccess[node[w]], OnFailure[node[w]]}
    BY <1>3, NativeMoves
  <2>3. node'[w] \notin {"reported", "done"}
    BY <2>1, <2>2, SuccessEdges, FailureEdges DEF Nodes, OnSuccess
  <2>4. QED
    BY <2>1, <2>3 DEF ReportInv
<1>4. CASE Armed(w)
  <2>1. \/ Succeed(w) /\ UNCHANGED report
        \/ Fail(w) /\ Tell(w, "idle")
    BY <1>4 DEF Armed
  <2>2. node[w] = "armed" /\ node[w] \in DOMAIN OnSuccess /\ node[w] \in Nodes
    BY <1>4 DEF Armed, At, Nodes, OnSuccess
  <2>3. CASE Succeed(w) /\ UNCHANGED report
    <3>1. node'[w] = OnSuccess["armed"]
      BY <2>2, <2>3, SucceedMoves
    <3>2. OnSuccess["armed"] \notin {"reported", "done"}
      BY DEF OnSuccess
    <3>3. QED
      BY <2>2, <2>3, <3>1, <3>2 DEF ReportInv
  <2>4. CASE Fail(w) /\ Tell(w, "idle")
    BY <2>2, <2>4, FailMoves, FailureEdges, TellTypes
  <2>5. QED
    BY <2>1, <2>3, <2>4
<1>5. CASE EmitComplete(w) \/ EmitClarify(w) \/ ReportBlocked(w)
  <2>1. node[w] \in {"emit_r", "emit_f", "emit_clar", "emit_blk"}
    BY <1>5 DEF EmitComplete, EmitClarify, ReportBlocked, At
  <2>2. node[w] \in DOMAIN OnSuccess /\ node[w] \in Nodes
    BY <2>1 DEF Nodes, OnSuccess
  <2>3. \/ Succeed(w) /\ \E what \in {"reviewed", "flat", "clarify", "blocked"} : Tell(w, what)
        \/ Fail(w) /\ UNCHANGED report
    BY <1>5 DEF EmitComplete, EmitClarify, ReportBlocked
  <2>4. CASE Succeed(w) /\ \E what \in {"reviewed", "flat", "clarify", "blocked"} : Tell(w, what)
    <3>1. node'[w] \in {"reported", "done"}
      BY <2>1, <2>2, <2>4, SucceedMoves, SuccessEdges
    <3>2. report'[w] # "none" /\ \A v \in Work \ {w} : report'[v] = report[v]
      BY <2>4, TellTypes
    <3>3. QED
      BY <3>1, <3>2
  <2>5. CASE Fail(w) /\ UNCHANGED report
    <3>1. node'[w] = "halt"
      BY <2>1, <2>2, <2>5, FailMoves, FailureEdges
    <3>2. QED
      BY <2>1, <2>5, <3>1 DEF ReportInv
  <2>6. QED
    BY <2>3, <2>4, <2>5
<1>6. CASE Reported(w)
  <2>1. node[w] = "reported" /\ node[w] \in DOMAIN OnSuccess /\ Succeed(w) /\ UNCHANGED report
    BY <1>6 DEF Reported, At, OnSuccess
  <2>2. node'[w] = "done"
    BY <2>1, SucceedMoves, SuccessEdges
  <2>3. QED
    BY <2>1, <2>2 DEF ReportInv
<1>7. QED
  BY <1>1, <1>2, <1>3, <1>4, <1>5, <1>6 DEF RunStep

LEMMA ReportStep == TypeOK /\ ReportInv /\ [Next]_vars => ReportInv'
<1> SUFFICES ASSUME TypeOK, ReportInv, [Next]_vars PROVE ReportInv'
  OBVIOUS
<1>1. CASE UNCHANGED vars
  BY <1>1 DEF vars, runVars, ReportInv
<1>2. CASE Stop
  BY <1>2 DEF Stop, ReportInv
<1>3. ASSUME NEW w \in Work, Send(w) PROVE ReportInv'
  BY <1>3 DEF Send, runVars, ReportInv
<1>4. ASSUME NEW w \in Work, Begin(w) \/ Crash(w) PROVE ReportInv'
  <2>1. PICK n \in {"prime", "none"} : Goto(w, n) /\ Tell(w, "none")
    BY <1>4 DEF Begin, Crash
  <2>2. /\ node' = [node EXCEPT ![w] = n] /\ report' = [report EXCEPT ![w] = "none"]
    BY <2>1 DEF Goto, Tell
  <2>3. QED
    BY <2>2 DEF ReportInv, TypeOK
<1>5. ASSUME NEW w \in Work, RunStep(w) PROVE ReportInv'
  BY <1>5, ReportAt, OthersStay DEF ReportInv
<1>6. QED
  BY <1>1, <1>2, <1>3, <1>4, <1>5 DEF Next

\* A run that ends in success has told the lead something, one that halts nothing.
THEOREM EndsReported == Spec => []EndIsReported
<1>1. Init => ReportInv
  BY DEF Init, ReportInv
<1>2. QED
  BY <1>1, TypeCorrect, ReportStep, ReportInvImplies, PTL DEF Spec

-----------------------------------------------------------------------------
(* Prefixes *)

LEMMA PrefixByElement ==
  ASSUME NEW S, NEW s \in Seq(S), NEW t \in Seq(S)
  PROVE  IsPrefix(s, t) <=> Len(s) <= Len(t) /\ \A i \in 1..Len(s) : s[i] = t[i]
<1>1. Len(s) \in Nat /\ Len(t) \in Nat
  OBVIOUS
<1>2. ASSUME Len(s) <= Len(t)
      PROVE  /\ SubSeq(t, 1, Len(s)) \in Seq(S) /\ Len(SubSeq(t, 1, Len(s))) = Len(s)
             /\ \A i \in 1..Len(s) : SubSeq(t, 1, Len(s))[i] = t[i]
  <2>1. \A i \in 1..Len(s) : t[i] \in S
    BY <1>1, <1>2
  <2>2. /\ SubSeq(t, 1, Len(s)) \in Seq(S)
        /\ Len(SubSeq(t, 1, Len(s))) = IF 1 <= Len(s) THEN Len(s) - 1 + 1 ELSE 0
        /\ \A i \in 1..(Len(s) - 1 + 1) : SubSeq(t, 1, Len(s))[i] = t[1 + i - 1]
    BY <1>1, <2>1, SubSeqProperties
  <2>3. QED
    BY <1>1, <2>2
<1>3. ASSUME Len(s) <= Len(t), \A i \in 1..Len(s) : s[i] = t[i]
      PROVE  SubSeq(t, 1, Len(s)) = s
  BY <1>2, <1>3, SeqEqual
<1>4. QED
  BY <1>2, <1>3 DEF IsPrefix

LEMMA PrefixReflexive ==
  ASSUME NEW S, NEW s \in Seq(S)
  PROVE  IsPrefix(s, s)
<1>1. Len(s) \in Nat
  OBVIOUS
<1>2. QED
  BY <1>1, PrefixByElement

LEMMA PrefixTransitive ==
  ASSUME NEW S, NEW s \in Seq(S), NEW t \in Seq(S), NEW u \in Seq(S),
         IsPrefix(s, t), IsPrefix(t, u)
  PROVE  IsPrefix(s, u)
<1>1. Len(s) \in Nat /\ Len(t) \in Nat /\ Len(u) \in Nat
  OBVIOUS
<1>2. /\ Len(s) <= Len(t) /\ \A i \in 1..Len(s) : s[i] = t[i]
      /\ Len(t) <= Len(u) /\ \A i \in 1..Len(t) : t[i] = u[i]
  BY PrefixByElement
<1>3. Len(s) <= Len(u) /\ \A i \in 1..Len(s) : s[i] = u[i]
  BY <1>1, <1>2
<1>4. QED
  BY <1>3, PrefixByElement

LEMMA PrefixOfConcat ==
  ASSUME NEW S, NEW s \in Seq(S), NEW t \in Seq(S)
  PROVE  IsPrefix(s, s \o t)
<1>1. Len(s) \in Nat /\ Len(t) \in Nat
  OBVIOUS
<1>2. /\ s \o t \in Seq(S) /\ Len(s \o t) = Len(s) + Len(t)
      /\ \A i \in 1..(Len(s) + Len(t)) : (s \o t)[i] = IF i <= Len(s) THEN s[i] ELSE t[i - Len(s)]
  BY ConcatProperties
<1>3. Len(s) <= Len(s \o t) /\ \A i \in 1..Len(s) : s[i] = (s \o t)[i]
  BY <1>1, <1>2
<1>4. QED
  BY <1>2, <1>3, PrefixByElement

\* What is cut off a sequence does not change when the sequence grows.
LEMMA CutOfPrefix ==
  ASSUME NEW S, NEW s \in Seq(S), NEW t \in Seq(S), IsPrefix(s, t),
         NEW n \in Nat, n <= Len(s)
  PROVE  SubSeq(t, 1, n) = SubSeq(s, 1, n) /\ SubSeq(s, 1, n) \in Seq(S)
<1>1. Len(s) \in Nat /\ Len(t) \in Nat
  OBVIOUS
<1>2. Len(s) <= Len(t) /\ \A i \in 1..Len(s) : s[i] = t[i]
  BY PrefixByElement
<1>3. (\A i \in 1..n : s[i] \in S) /\ \A i \in 1..n : t[i] \in S
  BY <1>1, <1>2
<1>4. /\ SubSeq(s, 1, n) \in Seq(S) /\ SubSeq(t, 1, n) \in Seq(S)
      /\ Len(SubSeq(s, 1, n)) = Len(SubSeq(t, 1, n))
      /\ Len(SubSeq(s, 1, n)) = IF 1 <= n THEN n - 1 + 1 ELSE 0
      /\ \A i \in 1..(n - 1 + 1) : SubSeq(s, 1, n)[i] = s[1 + i - 1]
      /\ \A i \in 1..(n - 1 + 1) : SubSeq(t, 1, n)[i] = t[1 + i - 1]
  BY <1>3, SubSeqProperties
<1>5. \A i \in 1..Len(SubSeq(s, 1, n)) : SubSeq(s, 1, n)[i] = SubSeq(t, 1, n)[i]
  BY <1>1, <1>2, <1>4
<1>6. QED
  BY <1>4, <1>5, SeqEqual

-----------------------------------------------------------------------------
(* Main *)

\* Nobody knows more of main than there is.
BoundInv == fetched <= Len(main) /\ \A w \in Work : base[w] <= Len(main)

LEMMA MainStep ==
  ASSUME TypeOK, [Next]_vars
  PROVE  /\ main' \in Seq(Commit) /\ IsPrefix(main, main')
         /\ Len(main) \in Nat /\ Len(main') \in Nat /\ Len(main) <= Len(main')
<1>1. main \in Seq(Commit) /\ Len(main) \in Nat
  BY DEF TypeOK
<1>2. main' \in Seq(Commit) /\ Len(main') \in Nat
  <2>1. TypeOK'
    BY TypeStep
  <2>2. QED
    BY <2>1 DEF TypeOK
<1>3. CASE main' = main
  BY <1>1, <1>3, PrefixReflexive
<1>4. CASE main' # main
  <2>1. PICK w \in Work : Push(w) \/ ImplementFlat(w)
    BY <1>4 DEF Next, vars, inboxVars, runVars, repoVars, Stop, Send, Begin, Crash, RunStep,
       SessionStart, Armed, Judge, Implement, Worktree, RedGate, Integ, WorkDoneGate,
       EmitComplete, EmitClarify, ReportBlocked, Reported, Ends
  <2>2. \E add \in Seq(Commit) : main' = main \o add
    <3>1. CASE Push(w)
      BY <1>4, <3>1 DEF Push, TypeOK
    <3>2. CASE ImplementFlat(w)
      <4>1. PICK named \in BOOLEAN :
              main' = Append(main, [work |-> w, kind |-> "other", named |-> named])
        BY <1>4, <3>2 DEF ImplementFlat, Naming
      <4>2. <<[work |-> w, kind |-> "other", named |-> named]>> \in Seq(Commit)
        BY DEF Commit
      <4>3. main' = main \o <<[work |-> w, kind |-> "other", named |-> named]>>
        BY <1>1, <4>1, <4>2, AppendIsConcat DEF Commit
      <4>4. QED
        BY <4>2, <4>3
    <3>3. QED
      BY <2>1, <3>1, <3>2
  <2>3. IsPrefix(main, main')
    BY <1>1, <2>2, PrefixOfConcat
  <2>4. QED
    BY <1>1, <1>2, <2>3 DEF IsPrefix
<1>5. QED
  BY <1>1, <1>2, <1>3, <1>4 DEF IsPrefix

\* No step takes a commit off main, however many runs push to it.
THEOREM MainGrows == Spec => MainOnlyGrows
<1>1. TypeOK /\ [Next]_vars => [IsPrefix(main, main')]_vars
  BY MainStep
<1>2. QED
  BY <1>1, TypeCorrect, PTL DEF Spec, MainOnlyGrows

LEMMA BoundStep == TypeOK /\ BoundInv /\ [Next]_vars => BoundInv'
<1> SUFFICES ASSUME TypeOK, BoundInv, [Next]_vars PROVE BoundInv'
  OBVIOUS
<1>1. Len(main) \in Nat /\ Len(main') \in Nat /\ Len(main) <= Len(main')
  BY MainStep
<1>2. fetched \in Nat /\ base \in [Work -> Nat]
  BY DEF TypeOK
<1>3. fetched' \in {fetched, Len(main), Len(main')}
  BY DEF Next, vars, inboxVars, runVars, repoVars, Stop, Fetch, Send, Begin, Crash, RunStep,
     SessionStart, Armed, Judge, Implement, ImplementFlat, Worktree, RedGate, Integ, Push,
     WorkDoneGate, EmitComplete, EmitClarify, ReportBlocked, Reported, Ends
<1>4. ASSUME NEW v \in Work
      PROVE  base'[v] \in {base[v], fetched, Len(main), 0}
  <2>1. CASE base' = base
    BY <2>1
  <2>2. CASE base' # base
    <3>1. Stop \/ \E w \in Work : Worktree(w) \/ Integ(w)
      BY <2>2 DEF Next, vars, inboxVars, runVars, repoVars, Send, Begin, Crash, RunStep,
         SessionStart, Armed, Judge, Implement, ImplementFlat, RedGate, Push,
         WorkDoneGate, EmitComplete, EmitClarify, ReportBlocked, Reported, Ends
    <3>2. CASE Stop
      BY <2>2, <3>2 DEF Stop
    <3>3. ASSUME NEW w \in Work, Worktree(w) \/ Integ(w)
          PROVE  base'[v] \in {base[v], fetched, Len(main)}
      BY <1>2, <3>3 DEF Worktree, Integ
    <3>4. QED
      BY <3>1, <3>2, <3>3
  <2>3. QED
    BY <2>1, <2>2
<1>5. QED
  BY <1>1, <1>2, <1>3, <1>4 DEF BoundInv

-----------------------------------------------------------------------------
(* Integration *)

\* What the gate found and what was answered is on main; from the push on, main holds
\* all of the worktree, and from the gate on the worktree is clean.
GateInv(w) ==
  /\ response[w] = "complete" \/ At(w, "emit_r") \/ At(w, "emit_f") => OnMain(w)
  /\ node[w] \in {"review", "wdg_r", "emit_r"} \/ report[w] = "reviewed"
       => IsPrefix(Log(w), main)
  /\ At(w, "emit_r") \/ report[w] = "reviewed" => w \notin dirty

IntegratedInv == \A w \in Work : GateInv(w)

LEMMA OnMainKept ==
  ASSUME TypeOK, [Next]_vars, NEW w \in Work, OnMain(w)
  PROVE  OnMain(w)'
<1>1. main \in Seq(Commit) /\ main' \in Seq(Commit) /\ IsPrefix(main, main')
  BY MainStep DEF TypeOK
<1>2. Len(main) <= Len(main') /\ \A i \in 1..Len(main) : main[i] = main'[i]
  BY <1>1, PrefixByElement
<1>3. PICK i \in DOMAIN main : main[i].work = w /\ main[i].named
  BY DEF OnMain
<1>4. i \in 1..Len(main) /\ i \in 1..Len(main') /\ DOMAIN main' = 1..Len(main')
  BY <1>1, <1>2, <1>3
<1>5. QED
  BY <1>2, <1>3, <1>4 DEF OnMain

LEMMA LogKept ==
  ASSUME TypeOK, BoundInv, [Next]_vars, NEW w \in Work,
         base'[w] = base[w], own'[w] = own[w], IsPrefix(Log(w), main)
  PROVE  IsPrefix(Log(w), main)'
<1>1. /\ main \in Seq(Commit) /\ main' \in Seq(Commit) /\ IsPrefix(main, main')
      /\ own[w] \in Seq(Commit) /\ base[w] \in Nat /\ base[w] <= Len(main)
  BY MainStep DEF TypeOK, BoundInv
<1>2. /\ SubSeq(main', 1, base[w]) = SubSeq(main, 1, base[w])
      /\ SubSeq(main, 1, base[w]) \in Seq(Commit)
  BY <1>1, CutOfPrefix
<1>3. Log(w)' = Log(w)
  BY <1>2 DEF Log
<1>4. Log(w) \in Seq(Commit)
  BY <1>1, <1>2, ConcatProperties DEF Log
<1>5. IsPrefix(Log(w), main')
  BY <1>1, <1>4, PrefixTransitive
<1>6. QED
  BY <1>3, <1>5

\* Only what happens to an id itself can break its part of the invariant.
LEMMA GateKept ==
  ASSUME TypeOK, BoundInv, [Next]_vars, NEW w \in Work, GateInv(w),
         base'[w] = base[w], own'[w] = own[w], response'[w] = response[w],
         report'[w] = report[w] \/ report'[w] # "reviewed",
         node'[w] = node[w] \/ node'[w] \notin {"review", "wdg_r", "emit_r", "emit_f"},
         w \in dirty' => w \in dirty
  PROVE  GateInv(w)'
<1>1. response'[w] = "complete" \/ At(w, "emit_r")' \/ At(w, "emit_f")' => OnMain(w)'
  BY OnMainKept DEF GateInv, At
<1>2. node'[w] \in {"review", "wdg_r", "emit_r"} \/ report'[w] = "reviewed"
        => IsPrefix(Log(w), main)'
  BY LogKept DEF GateInv
<1>3. At(w, "emit_r")' \/ report'[w] = "reviewed" => w \notin dirty'
  BY DEF GateInv, At
<1>4. QED
  BY <1>1, <1>2, <1>3 DEF GateInv

LEMMA OthersKept ==
  ASSUME TypeOK, ReportInv, NEW w \in Work, RunStep(w), NEW v \in Work \ {w}
  PROVE  /\ base'[v] = base[v] /\ own'[v] = own[v] /\ response'[v] = response[v]
         /\ report'[v] = report[v] /\ node'[v] = node[v] /\ (v \in dirty' => v \in dirty)
<1> USE DEF inboxVars, runVars, repoVars
<1>1. report'[v] = report[v] /\ node'[v] = node[v]
  BY ReportAt, OthersStay
<1>2. response'[v] = response[v]
  BY InboxSteps, AnswerTypes
<1>3. base'[v] = base[v]
  <2>1. base' = base \/ Worktree(w) \/ Integ(w)
    BY DEF RunStep, SessionStart, Armed, Judge, Implement, ImplementFlat, RedGate, Push,
       WorkDoneGate, EmitComplete, EmitClarify, ReportBlocked, Reported, Ends
  <2>2. QED
    BY <2>1 DEF Worktree, Integ, TypeOK
<1>4. own'[v] = own[v]
  <2>1. own' = own \/ Worktree(w) \/ Implement(w)
    BY DEF RunStep, SessionStart, Armed, Judge, ImplementFlat, RedGate, Push, Integ,
       WorkDoneGate, EmitComplete, EmitClarify, ReportBlocked, Reported, Ends
  <2>2. QED
    BY <2>1 DEF Worktree, Implement, TypeOK
<1>5. v \in dirty' => v \in dirty
  <2>1. dirty' = dirty \/ Implement(w) \/ ImplementFlat(w)
    BY DEF RunStep, SessionStart, Armed, Judge, Worktree, RedGate, Push, Integ,
       WorkDoneGate, EmitComplete, EmitClarify, ReportBlocked, Reported, Ends
  <2>2. v # None
    BY LaneAssumption
  <2>3. QED
    BY <2>1, <2>2 DEF Implement, ImplementFlat, Leaving
<1>6. QED
  BY <1>1, <1>2, <1>3, <1>4, <1>5

\* An id at another node has nothing to lose but its answer.
LEMMA GateElsewhere ==
  ASSUME TypeOK, [Next]_vars, NEW w \in Work, GateInv(w), response'[w] = response[w],
         report'[w] # "reviewed", node'[w] \notin {"review", "wdg_r", "emit_r", "emit_f"}
  PROVE  GateInv(w)'
BY OnMainKept DEF GateInv, At

LEMMA PushGate ==
  ASSUME TypeOK, BoundInv, ReportInv, NEW w \in Work, Push(w), GateInv(w), Next
  PROVE  GateInv(w)'
<1>1. /\ node[w] = "push" /\ node[w] \in DOMAIN OnSuccess /\ node[w] \in Nodes
      /\ report'[w] # "reviewed" /\ response'[w] = response[w]
  BY DEF Push, At, OnSuccess, Nodes, ReportInv, inboxVars
<1>2. CASE Fail(w)
  <2>1. node'[w] \notin {"review", "wdg_r", "emit_r", "emit_f"}
    BY <1>1, <1>2, FailMoves, FailureEdges
  <2>2. QED
    BY <1>1, <2>1, GateElsewhere
<1>3. CASE base[w] = Len(main) /\ main' = main \o own[w] /\ Succeed(w)
  <2>1. node'[w] = "review"
    BY <1>1, <1>3, SucceedMoves, SuccessEdges
  <2>2. main \in Seq(Commit) /\ own[w] \in Seq(Commit) /\ Len(main) \in Nat
    BY DEF TypeOK
  <2>3. base'[w] = base[w] /\ own'[w] = own[w]
    BY DEF Push
  <2>4. main' \in Seq(Commit) /\ IsPrefix(main, main')
    BY MainStep
  <2>5. SubSeq(main', 1, Len(main)) = main
    BY <2>4 DEF IsPrefix
  <2>6. Log(w)' = main'
    BY <1>3, <2>3, <2>5 DEF Log
  <2>7. IsPrefix(Log(w), main)'
    BY <2>4, <2>6, PrefixReflexive
  <2>8. response'[w] = "complete" => OnMain(w)'
    BY <1>1, OnMainKept DEF GateInv
  <2>9. QED
    BY <1>1, <2>1, <2>7, <2>8 DEF GateInv, At
<1>4. QED
  BY <1>2, <1>3 DEF Push

LEMMA WorkDoneGateGate ==
  ASSUME TypeOK, BoundInv, ReportInv, NEW w \in Work, WorkDoneGate(w), GateInv(w), Next
  PROVE  GateInv(w)'
<1>1. /\ node[w] \in {"wdg_r", "wdg_f"} /\ node[w] \in DOMAIN OnSuccess /\ node[w] \in Nodes
      /\ report'[w] # "reviewed" /\ response'[w] = response[w]
  BY DEF WorkDoneGate, OnSuccess, Nodes, ReportInv, inboxVars
<1>2. CASE Fail(w)
  <2>1. node'[w] \notin {"review", "wdg_r", "emit_r", "emit_f"}
    BY <1>1, <1>2, FailMoves, FailureEdges
  <2>2. QED
    BY <1>1, <2>1, GateElsewhere
<1>3. CASE /\ (IF At(w, "wdg_r") THEN w ELSE None) \notin dirty
           /\ OnMain(w) /\ Succeed(w)
  <2>1. OnMain(w)'
    BY <1>3, OnMainKept
  <2>2. node'[w] = OnSuccess[node[w]]
    BY <1>1, <1>3, SucceedMoves
  <2>3. /\ base'[w] = base[w] /\ own'[w] = own[w] /\ dirty' = dirty
    BY DEF WorkDoneGate
  <2>4. CASE node[w] = "wdg_r"
    <3>1. node'[w] = "emit_r" /\ w \notin dirty'
      BY <1>3, <2>2, <2>3, <2>4, SuccessEdges DEF At
    <3>2. IsPrefix(Log(w), main)'
      BY <2>3, <2>4, LogKept DEF GateInv
    <3>3. QED
      BY <1>1, <2>1, <3>1, <3>2 DEF GateInv, At
  <2>5. CASE node[w] = "wdg_f"
    <3>1. node'[w] = "emit_f"
      BY <2>2, <2>5, SuccessEdges
    <3>2. QED
      BY <1>1, <2>1, <3>1 DEF GateInv, At
  <2>6. QED
    BY <1>1, <2>4, <2>5
<1>4. QED
  BY <1>2, <1>3 DEF WorkDoneGate

LEMMA EmitGate ==
  ASSUME TypeOK, BoundInv, ReportInv, NEW w \in Work, EmitComplete(w) \/ EmitClarify(w),
         GateInv(w), Next
  PROVE  GateInv(w)'
<1>1. /\ node[w] \in {"emit_r", "emit_f", "emit_clar"} /\ node[w] \in DOMAIN OnSuccess
      /\ node[w] \in Nodes /\ report[w] = "none"
      /\ base'[w] = base[w] /\ own'[w] = own[w] /\ dirty' = dirty
  BY DEF EmitComplete, EmitClarify, At, OnSuccess, Nodes, ReportInv, repoVars
<1>2. node'[w] \in {"done", "reported", "halt"}
  <2>1. Succeed(w) \/ Fail(w)
    BY DEF EmitComplete, EmitClarify
  <2>2. QED
    BY <1>1, <2>1, SucceedMoves, FailMoves, SuccessEdges, FailureEdges
<1>3. CASE UNCHANGED <<inboxVars, report>>
  BY <1>1, <1>2, <1>3, GateElsewhere DEF inboxVars
<1>4. CASE /\ Answer(w, "complete") /\ node[w] \in {"emit_r", "emit_f"}
           /\ Tell(w, IF At(w, "emit_r") THEN "reviewed" ELSE "flat")
  <2>1. OnMain(w)'
    BY <1>4, OnMainKept DEF GateInv, At
  <2>2. CASE node[w] = "emit_r"
    <3>1. IsPrefix(Log(w), main)' /\ w \notin dirty'
      BY <1>1, <2>2, LogKept DEF GateInv, At
    <3>2. QED
      BY <1>2, <2>1, <3>1 DEF GateInv, At
  <2>3. CASE node[w] # "emit_r"
    <3>1. Tell(w, "flat")
      BY <1>4, <2>3 DEF At
    <3>2. report'[w] = "flat"
      BY <3>1, TellTypes
    <3>3. QED
      BY <1>2, <2>1, <3>2 DEF GateInv, At
  <2>4. QED
    BY <2>2, <2>3
<1>5. CASE Answer(w, "clarify") /\ Tell(w, "clarify")
  <2>1. response'[w] = "clarify" /\ report'[w] = "clarify"
    BY <1>5, AnswerTypes, TellTypes
  <2>2. QED
    BY <1>2, <2>1 DEF GateInv, At
<1>6. QED
  BY <1>3, <1>4, <1>5 DEF EmitComplete, EmitClarify, At

LEMMA GateAt ==
  ASSUME TypeOK, BoundInv, ReportInv, NEW w \in Work, RunStep(w), GateInv(w), Next
  PROVE  GateInv(w)'
<1> USE DEF inboxVars, runVars, repoVars
<1>1. CASE Push(w) \/ WorkDoneGate(w) \/ EmitComplete(w) \/ EmitClarify(w)
  BY <1>1, PushGate, WorkDoneGateGate, EmitGate
<1>2. CASE Ends(w)
  <2>1. node'[w] = "none" /\ report'[w] = "none" /\ response'[w] = response[w]
    BY <1>2, GotoMoves, TellTypes DEF Ends
  <2>2. QED
    BY <2>1, GateElsewhere
<1>3. CASE SessionStart(w) \/ Armed(w) \/ Worktree(w) \/ RedGate(w) \/ Integ(w)
  <2>1. node[w] \in {"prime", "health", "arm", "armed", "worktree", "redgate", "integ"}
    BY <1>3 DEF SessionStart, Armed, Worktree, RedGate, Integ, At
  <2>2. response'[w] = response[w] /\ (UNCHANGED report \/ Tell(w, "idle"))
    BY <1>3 DEF SessionStart, Armed, Worktree, RedGate, Integ
  <2>3. report[w] = "none"
    BY <2>1 DEF ReportInv
  <2>4. report'[w] # "reviewed"
    BY <2>2, <2>3, TellTypes
  <2>5. node'[w] \in {OnSuccess[node[w]], OnFailure[node[w]]} /\ node[w] \in Nodes
    BY <1>3, <2>1, NativeMoves DEF Nodes
  <2>6. node'[w] \notin {"review", "wdg_r", "emit_r", "emit_f"}
    BY <2>1, <2>5, SuccessEdges, FailureEdges
  <2>7. QED
    BY <2>2, <2>4, <2>6, GateElsewhere
<1>4. CASE Judge(w) \/ Implement(w) \/ ImplementFlat(w)
  <2>1. node[w] \in Agents /\ AgentOutcome(w) /\ UNCHANGED <<inboxVars, report>>
    BY <1>4 DEF Judge, Implement, ImplementFlat, At, Agents
  <2>2. report'[w] # "reviewed" /\ response'[w] = response[w]
    BY <2>1 DEF ReportInv, Agents
  <2>3. node'[w] \notin {"emit_r", "emit_f"}
    BY <2>1, AgentMoves DEF Agents
  <2>4. CASE node[w] # "review"
    BY <2>1, <2>2, <2>3, <2>4, AgentMoves, GateElsewhere
  <2>5. CASE node[w] = "review"
    <3>1. UNCHANGED repoVars
      BY <1>4, <2>5 DEF Judge, Implement, ImplementFlat, At
    <3>2. IsPrefix(Log(w), main)'
      BY <2>5, <3>1, LogKept DEF GateInv
    <3>3. response'[w] = "complete" => OnMain(w)'
      BY <2>2, OnMainKept DEF GateInv
    <3>4. QED
      BY <2>2, <2>3, <3>2, <3>3 DEF GateInv, At
  <2>6. QED
    BY <2>4, <2>5
<1>5. CASE ReportBlocked(w) \/ Reported(w)
  <2>1. /\ node[w] \in {"emit_blk", "reported"} /\ node[w] \in DOMAIN OnSuccess
        /\ node[w] \in Nodes /\ (Succeed(w) \/ Fail(w))
        /\ base'[w] = base[w] /\ own'[w] = own[w] /\ dirty' = dirty
        /\ response'[w] = response[w] /\ (UNCHANGED report \/ Tell(w, "blocked"))
    BY <1>5 DEF ReportBlocked, Reported, At, OnSuccess, Nodes
  <2>2. node'[w] \notin {"review", "wdg_r", "emit_r", "emit_f"}
    BY <2>1, SucceedMoves, FailMoves, SuccessEdges, FailureEdges
  <2>3. report'[w] = report[w] \/ report'[w] # "reviewed"
    BY <2>1, TellTypes
  <2>4. QED
    BY <2>1, <2>2, <2>3, GateKept
<1>6. QED
  BY <1>1, <1>2, <1>3, <1>4, <1>5 DEF RunStep

LEMMA IntegratedStep ==
  TypeOK /\ BoundInv /\ ReportInv /\ IntegratedInv /\ [Next]_vars => IntegratedInv'
<1> SUFFICES ASSUME TypeOK, BoundInv, ReportInv, IntegratedInv, [Next]_vars,
                    NEW v \in Work
             PROVE  GateInv(v)'
  BY DEF IntegratedInv
<1> USE DEF inboxVars, runVars, repoVars
<1>1. GateInv(v)
  BY DEF IntegratedInv
<1>2. CASE UNCHANGED vars
  BY <1>1, <1>2, GateKept DEF vars
<1>3. CASE Stop
  <2>1. response'[v] = response[v] /\ report'[v] = "none" /\ node'[v] = "none"
    BY <1>3 DEF Stop
  <2>2. QED
    BY <1>1, <2>1, GateElsewhere
<1>4. ASSUME NEW w \in Work, Send(w)
      PROVE  GateInv(v)'
  BY <1>1, <1>4, GateKept DEF Send
<1>5. ASSUME NEW w \in Work, Begin(w) \/ Crash(w)
      PROVE  GateInv(v)'
  <2>1. PICK n \in {"prime", "none"} : Goto(w, n) /\ Tell(w, "none")
    BY <1>5 DEF Begin, Crash
  <2>2. /\ node' = [node EXCEPT ![w] = n] /\ report' = [report EXCEPT ![w] = "none"]
        /\ UNCHANGED <<response, base, own, dirty>>
    BY <1>5, <2>1 DEF Goto, Tell, Begin, Crash
  <2>3. /\ node'[v] = node[v] \/ node'[v] \notin {"review", "wdg_r", "emit_r", "emit_f"}
        /\ report'[v] = report[v] \/ report'[v] # "reviewed"
    BY <2>2 DEF TypeOK
  <2>4. QED
    BY <1>1, <2>2, <2>3, GateKept
<1>6. ASSUME NEW w \in Work, RunStep(w)
      PROVE  GateInv(v)'
  <2>1. Next
    BY <1>6 DEF Next
  <2>2. CASE v = w
    BY <1>1, <1>6, <2>1, <2>2, GateAt
  <2>3. CASE v # w
    BY <1>1, <1>6, <2>1, <2>3, OthersKept, GateKept
  <2>4. QED
    BY <2>2, <2>3
<1>7. QED
  BY <1>2, <1>3, <1>4, <1>5, <1>6 DEF Next

LEMMA IntegratedInvImplies == IntegratedInv => CompleteMeansIntegrated
BY DEF IntegratedInv, GateInv, CompleteMeansIntegrated

\* A complete is answered only over work that main holds: the id is named there, and
\* after a review the worktree is clean and main has every commit of it.
THEOREM AnsweredIsIntegrated == Spec => []CompleteMeansIntegrated
<1>1. Init => ReportInv /\ BoundInv /\ IntegratedInv
  <2> SUFFICES ASSUME Init PROVE ReportInv /\ BoundInv /\ IntegratedInv
    OBVIOUS
  <2>1. Len(Past) \in Nat
    BY PastAssumption
  <2>2. QED
    BY <2>1 DEF Init, ReportInv, BoundInv, IntegratedInv, GateInv, At
<1>2. QED
  BY <1>1, TypeCorrect, ReportStep, BoundStep, IntegratedStep, IntegratedInvImplies, PTL
  DEF Spec

-----------------------------------------------------------------------------
(* The runs are the children of WorkIntake *)

Busy(w) == IF Runs(w) THEN w ELSE None

\* the abstract steps, in terms of the runs
LEMMA RunBegins ==
  ASSUME TypeOK, NEW w \in Work, ~Runs(w), node'[w] # "none",
         \A v \in Work \ {w} : node'[v] = node[v], pending' = pending
  PROVE  Child!Begin(w)
BY DEF Child!Begin, Runs

LEMMA RunFinishes ==
  ASSUME TypeOK, NEW w \in Work, Runs(w), node'[w] = "none",
         \A v \in Work \ {w} : node'[v] = node[v], pending' = pending
  PROVE  Child!Finish(w)
BY LaneAssumption DEF Child!Finish, Runs

\* A step of a run that does not end it leaves it running.
LEMMA StaysRunning ==
  ASSUME TypeOK, NEW w \in Work, RunStep(w), ~Ends(w)
  PROVE  node'[w] # "none"
<1>1. CASE Judge(w) \/ Implement(w) \/ ImplementFlat(w)
  <2>1. node[w] \in Agents /\ AgentOutcome(w)
    BY <1>1 DEF Judge, Implement, ImplementFlat, At, Agents
  <2>2. node[w] # "none"
    BY <2>1 DEF Agents
  <2>3. QED
    BY <2>1, <2>2, AgentMoves
<1>2. CASE ~(Judge(w) \/ Implement(w) \/ ImplementFlat(w))
  <2>1. node'[w] \in Nodes
    BY <1>2, NativeMoves DEF RunStep
  <2>2. QED
    BY <2>1 DEF Nodes, Agents, OnSuccess
<1>3. QED
  BY <1>1, <1>2

LEMMA RunChild ==
  ASSUME TypeOK, NEW w \in Work, RunStep(w)
  PROVE  Child!Next \/ UNCHANGED <<pending, [v \in Work |-> Busy(v)]>>
<1>1. Runs(w) /\ \A v \in Work \ {w} : node'[v] = node[v]
  BY InboxSteps, OthersStay
<1>2. CASE Ends(w)
  <2>1. node'[w] = "none" /\ pending' = pending
    BY <1>2, GotoMoves DEF Ends, inboxVars
  <2>2. QED
    BY <1>1, <2>1, RunFinishes DEF Child!Next
<1>3. CASE ~Ends(w)
  <2>1. \A v \in Work : Runs(v)' <=> Runs(v)
    BY <1>1, <1>3, StaysRunning DEF Runs
  <2>2. CASE UNCHANGED inboxVars
    BY <2>1, <2>2 DEF inboxVars, Busy
  <2>3. CASE \E what \in {"complete", "clarify"} : Answer(w, what)
    <3>1. pending' = pending \ {w}
      BY <2>3, AnswerTypes
    <3>2. Child!Answered(w)
      BY <1>1, <2>1, <3>1 DEF Child!Answered
    <3>3. QED
      BY <3>2 DEF Child!Next
  <2>4. QED
    BY <2>2, <2>3, InboxSteps
<1>4. QED
  BY <1>2, <1>3

LEMMA ChildStep ==
  TypeOK /\ [Next]_vars => [Child!Next]_<<pending, [v \in Work |-> Busy(v)]>>
<1> SUFFICES ASSUME TypeOK, [Next]_vars
             PROVE  Child!Next \/ UNCHANGED <<pending, [v \in Work |-> Busy(v)]>>
  OBVIOUS
<1>1. CASE UNCHANGED vars
  BY <1>1 DEF vars, inboxVars, runVars, Busy, Runs
<1>2. CASE Stop
  <2>1. Child!Halt
    BY <1>2 DEF Stop, Child!Halt, Child!Idle, inboxVars, Runs
  <2>2. QED
    BY <2>1 DEF Child!Next
<1>3. ASSUME NEW w \in Work, Send(w)
      PROVE  Child!Next
  BY <1>3 DEF Send, Child!Arrive, Child!Next, runVars, Runs
<1>4. ASSUME NEW w \in Work, Begin(w)
      PROVE  Child!Next
  <2>1. node'[w] = "prime" /\ \A v \in Work \ {w} : node'[v] = node[v]
    BY <1>4 DEF Begin, Goto, TypeOK
  <2>2. ~Runs(w) /\ pending' = pending
    BY <1>4 DEF Begin, inboxVars
  <2>3. QED
    BY <2>1, <2>2, RunBegins DEF Child!Next
<1>5. ASSUME NEW w \in Work, Crash(w)
      PROVE  Child!Next
  <2>1. node'[w] = "none" /\ Runs(w) /\ \A v \in Work \ {w} : node'[v] = node[v]
    BY <1>5, GotoMoves DEF Crash
  <2>2. pending' = pending
    BY <1>5 DEF Crash, inboxVars
  <2>3. QED
    BY <2>1, <2>2, RunFinishes DEF Child!Next
<1>6. QED
  BY <1>1, <1>2, <1>3, <1>4, <1>5, RunChild DEF Next

\* The runs of the workflow are the children the supervisor's WorkIntake describes: one
\* at a time per id, and a message leaves the inbox only by its own run's answer.
THEOREM WorkflowImplementsIntake == Spec => ChildSpec
<1>1. Init => Child!Init
  BY DEF Init, Child!Init, Child!Idle, Runs
<1>2. TypeOK /\ [Next]_vars
        => [Child!Next]_<<pending, [w \in Work |-> IF Runs(w) THEN w ELSE None]>>
  BY ChildStep DEF Busy
<1>3. QED
  BY <1>1, <1>2, TypeCorrect, PTL DEF Spec, ChildSpec, Child!Spec

-----------------------------------------------------------------------------
(* A run is finite: the graph has no way back.                                *)

LEMMA LevelType == \A n \in Nodes : n \in DOMAIN Level /\ Level[n] \in Nat
BY DEF Level, Nodes, Agents, OnSuccess

\* Every edge that a node takes leads nearer to the end.
LEMMA SuccessDown == \A n \in DOMAIN OnSuccess : Level[OnSuccess[n]] < Level[n]
<1> SUFFICES ASSUME NEW n \in DOMAIN OnSuccess PROVE Level[OnSuccess[n]] < Level[n]
  OBVIOUS
<1>1. CASE n \in {"prime", "health", "arm", "armed", "worktree"}
  BY <1>1 DEF OnSuccess, Level
<1>2. CASE n \in {"redgate", "integ", "push", "wdg_r", "emit_r"}
  BY <1>2 DEF OnSuccess, Level
<1>3. CASE n \in {"wdg_f", "emit_f", "emit_clar", "emit_blk", "reported"}
  BY <1>3 DEF OnSuccess, Level
<1>4. QED
  BY <1>1, <1>2, <1>3 DEF OnSuccess

LEMMA FailureDown ==
  \A n \in Nodes \ {"emit_blk", "reported", "done", "halt"} : Level[OnFailure[n]] < Level[n]
<1>1. Level["halt"] = 0 /\ Level["done"] = 0 /\ Level["emit_blk"] = 2
  BY DEF Level
<1>2. \A n \in Nodes \ {"emit_blk", "reported", "done", "halt"} :
        Level[n] > 0 /\ (n \in FailsToHalt \cup {"armed"} \/ Level[n] > 2)
  BY DEF Nodes, Agents, OnSuccess, FailsToHalt, Level
<1>3. \A n \in Nodes :
        /\ n \in FailsToHalt \cup {"armed"} => OnFailure[n] \in {"halt", "done"}
        /\ OnFailure[n] \in {"halt", "done", "emit_blk"}
  BY FailureEdges DEF OnFailure, FailsToHalt
<1>4. \A n \in Nodes : Level[n] \in Nat
  BY LevelType
<1>5. SUFFICES ASSUME NEW n \in Nodes \ {"emit_blk", "reported", "done", "halt"}
               PROVE  Level[OnFailure[n]] < Level[n]
  OBVIOUS
<1>6. CASE n \in FailsToHalt \cup {"armed"}
  BY <1>1, <1>2, <1>3, <1>4, <1>6
<1>7. CASE Level[n] > 2
  BY <1>1, <1>3, <1>4, <1>7
<1>8. QED
  BY <1>2, <1>6, <1>7

LEMMA BranchDown ==
  ASSUME NEW n \in Agents, NEW l \in DOMAIN Branch[n]
  PROVE  Branch[n][l] \in Nodes /\ Level[Branch[n][l]] < Level[n]
<1> USE DEF Branch, Level, Nodes, OnSuccess, Agents
<1>1. CASE n = "classify"
  BY <1>1
<1>2. CASE n = "suff"
  BY <1>2
<1>3. CASE n = "plan"
  BY <1>3
<1>4. CASE n = "impl"
  BY <1>4
<1>5. CASE n = "impl_f"
  BY <1>5
<1>6. CASE n = "review"
  BY <1>6
<1>7. QED
  BY <1>1, <1>2, <1>3, <1>4, <1>5, <1>6

\* A node nearer to the end, with all its attempts, is less of a run than the one before
\* it with any number of attempts left.
LEMMA NearerIsLess ==
  ASSUME NEW k \in Nat, NEW l \in Nat, k < l, NEW r \in Nat, NEW a \in 0..r
  PROVE  k * (r + 1) + (r - 0) \in 0..(l * (r + 1) + (r - a) - 1)
<1>1. k + 1 <= l
  OBVIOUS
<1>2. (k + 1) * (r + 1) <= l * (r + 1)
  BY <1>1
<1>3. (k + 1) * (r + 1) = k * (r + 1) + (r + 1)
  OBVIOUS
<1>4. k * (r + 1) \in Nat /\ l * (r + 1) \in Nat
  OBVIOUS
<1>5. QED
  BY <1>2, <1>3, <1>4

LEMMA GotoLess ==
  ASSUME TypeOK, NEW w \in Work, node[w] \in Nodes, NEW n \in Nodes, Goto(w, n),
         Level[n] < Level[node[w]]
  PROVE  Remaining(w)' \in 0..(Remaining(w) - 1)
<1>1. node'[w] = n /\ attempt'[w] = 0
  BY DEF Goto, TypeOK
<1>2. Level[n] \in Nat /\ Level[node[w]] \in Nat /\ attempt[w] \in 0..MaxRetries /\ MaxRetries \in Nat
  BY LevelType, WorkflowBoundAssumption DEF TypeOK
<1>3. Level[n] * (MaxRetries + 1) + (MaxRetries - 0)
        \in 0..(Level[node[w]] * (MaxRetries + 1) + (MaxRetries - attempt[w]) - 1)
  BY <1>2, NearerIsLess
<1>4. Remaining(w)' = Level[n] * (MaxRetries + 1) + (MaxRetries - 0)
  BY <1>1 DEF Remaining
<1>5. Remaining(w) = Level[node[w]] * (MaxRetries + 1) + (MaxRetries - attempt[w])
  BY DEF Remaining
<1>6. QED
  BY <1>2, <1>3, <1>4, <1>5

LEMMA AgentLess ==
  ASSUME TypeOK, NEW w \in Work, node[w] \in Agents, AgentOutcome(w)
  PROVE  Remaining(w)' \in 0..(Remaining(w) - 1)
<1>1. node[w] \in Nodes \ {"emit_blk", "reported", "done", "halt"}
  BY DEF Nodes, Agents, OnSuccess
<1>2. ASSUME NEW l \in DOMAIN Branch[node[w]], Goto(w, Branch[node[w]][l])
      PROVE  Remaining(w)' \in 0..(Remaining(w) - 1)
  BY <1>1, <1>2, BranchDown, GotoLess
<1>3. CASE attempt[w] < MaxRetries /\ AgentFails(w)
  <2>1. node'[w] = node[w] /\ attempt'[w] = attempt[w] + 1
    BY <1>3 DEF AgentFails, TypeOK
  <2>2. attempt[w] \in Nat /\ attempt[w] + 1 <= MaxRetries /\ MaxRetries \in Nat
    BY <1>3, WorkflowBoundAssumption DEF TypeOK
  <2>3. Level[node[w]] * (MaxRetries + 1) \in Nat
    BY <1>1, <2>2, LevelType
  <2>4. QED
    BY <2>1, <2>2, <2>3 DEF Remaining
<1>4. CASE ~(attempt[w] < MaxRetries) /\ AgentFails(w)
  <2>1. Goto(w, OnFailure[node[w]])
    BY <1>4 DEF AgentFails, Fail
  <2>2. OnFailure[node[w]] \in Nodes
    BY <1>1, FailureEdges DEF Nodes, Agents, OnSuccess
  <2>3. QED
    BY <1>1, <2>1, <2>2, FailureDown, GotoLess
<1>5. QED
  BY <1>2, <1>3, <1>4 DEF AgentOutcome

LEMMA RunStepLess ==
  ASSUME TypeOK, NEW w \in Work, RunStep(w)
  PROVE  ~Runs(w)' \/ Remaining(w)' \in 0..(Remaining(w) - 1)
<1>1. CASE Judge(w) \/ Implement(w) \/ ImplementFlat(w)
  <2>1. node[w] \in Agents /\ AgentOutcome(w)
    BY <1>1 DEF Judge, Implement, ImplementFlat, At, Agents
  <2>2. QED
    BY <2>1, AgentLess
<1>2. ASSUME Succeed(w), node[w] \in DOMAIN OnSuccess
      PROVE  Remaining(w)' \in 0..(Remaining(w) - 1)
  <2>1. node[w] \in Nodes /\ OnSuccess[node[w]] \in Nodes
    BY <1>2, SuccessEdges DEF Nodes
  <2>2. QED
    BY <1>2, <2>1, SuccessDown, GotoLess DEF Succeed
<1>3. ASSUME Fail(w), node[w] \in Nodes \ {"emit_blk", "reported", "done", "halt"}
      PROVE  Remaining(w)' \in 0..(Remaining(w) - 1)
  <2>1. OnFailure[node[w]] \in Nodes
    BY <1>3, FailureEdges DEF Nodes, Agents, OnSuccess
  <2>2. QED
    BY <1>3, <2>1, FailureDown, GotoLess DEF Fail
<1>4. CASE SessionStart(w) \/ Armed(w) \/ Worktree(w) \/ RedGate(w) \/ Integ(w) \/ Push(w)
           \/ WorkDoneGate(w) \/ EmitComplete(w) \/ EmitClarify(w)
  <2>1. Succeed(w) \/ Fail(w)
    BY <1>4 DEF SessionStart, Armed, Worktree, RedGate, Integ, Push, WorkDoneGate, EmitComplete,
           EmitClarify
  <2>2. /\ node[w] \in DOMAIN OnSuccess
        /\ node[w] \in Nodes \ {"emit_blk", "reported", "done", "halt"}
    BY <1>4 DEF SessionStart, Armed, Worktree, RedGate, Integ, Push, WorkDoneGate, EmitComplete,
           EmitClarify, At, OnSuccess, Nodes, Agents
  <2>3. QED
    BY <1>2, <1>3, <2>1, <2>2
<1>5. CASE ReportBlocked(w)
  <2>1. node[w] = "emit_blk" /\ (Succeed(w) \/ Goto(w, "halt"))
    BY <1>5 DEF ReportBlocked, At, Fail, OnFailure, FailsToHalt, Nodes, Agents, OnSuccess
  <2>2. "emit_blk" \in DOMAIN OnSuccess /\ {"emit_blk", "halt"} \subseteq Nodes
    BY DEF OnSuccess, Nodes
  <2>3. Level["halt"] < Level["emit_blk"]
    BY DEF Level
  <2>4. QED
    BY <1>2, <2>1, <2>2, <2>3, GotoLess
<1>6. CASE Reported(w)
  <2>1. Succeed(w) /\ node[w] \in DOMAIN OnSuccess
    BY <1>6 DEF Reported, At, OnSuccess
  <2>2. QED
    BY <1>2, <2>1
<1>7. CASE Ends(w)
  <2>1. node'[w] = "none"
    BY <1>7 DEF Ends, Goto, TypeOK
  <2>2. QED
    BY <2>1 DEF Runs
<1>8. QED
  BY <1>1, <1>4, <1>5, <1>6, <1>7 DEF RunStep

\* Every step of a run ends it or takes a natural number down: a run that is walked on and
\* not killed makes at most 17 * (MaxRetries + 1) steps, for any number of other runs,
\* any verdicts of agents and any failures.  It is what the supervisor's lock relies on.
THEOREM EveryRunEnds == Spec => RunIsFinite
<1>1. TypeOK /\ [Next]_vars
        => \A w \in Work : RunStep(w) => ~Runs(w)' \/ Remaining(w)' \in 0..(Remaining(w) - 1)
  BY RunStepLess
<1>2. QED
  BY <1>1, TypeCorrect, PTL DEF Spec, RunIsFinite
=============================================================================
