------------------------------- MODULE Workflow -------------------------------
(***************************************************************************)
(* The finite run (assets/fabro-def/workflow.fabro): one `fabro run` child *)
(* per work id, which walks a graph of nodes from the inbox message to an  *)
(* answer to the lead.                                                     *)
(*                                                                         *)
(* Several runs share the container's clone, the main branch it pushes to  *)
(* and the inbox; each works in a worktree and on a branch named after its *)
(* id.  A native node is a shell script: it succeeds or fails, once (its   *)
(* retry=N is not a fabro attribute).  An agent node ends with a routing   *)
(* directive, without one, or with an error, which max_retries repeats.    *)
(* Agents are external: they choose freely among the outcomes their prompt *)
(* names; the flat implementer, who should not push, may (FlatPushes).     *)
(*                                                                         *)
(* The supervisor starts at most one run per id (OneChildPerName of        *)
(* Watcher), for pending ids and, on an old listing, for answered ones.    *)
(***************************************************************************)
EXTENDS Naturals, Sequences

CONSTANTS
  Work,         \* work ids
  None,         \* no work id: an earlier commit, or the clone
  Lane,         \* [Work -> {"scenario", "flat"}], by the type of its message
  Contains,     \* <<w, v>>: grep w finds the inbox line of v
  Past,         \* main at the beginning
  Plans,        \* what an implementer may commit: sequences of "red" and "green"
  Directives,   \* the directives agents give in this instance
  Diligent,     \* implementers name the id in every commit and leave nothing uncommitted
  FlatPushes,   \* the flat implementer pushes its change itself
  MaxRetries,   \* max_retries of an agent node
  Faults,       \* what may go wrong here: "infra": a command of a native node fails, the
                \* tools, the network or a rebase conflict; "llm": a model call fails;
                \* "crash": a run dies; "stop": the container goes
  Mounted,      \* /workspace, and the clone in it, survives the container
  MaxMain       \* bound: length of main at which nobody commits any more

Agents == {"classify", "suff", "plan", "impl", "impl_f", "review"}
Labels == {"scenario", "flat", "proceed", "clarify", "ok", "signoff", "scenario_gap",
           "impl_gap"}
Commit == [work : Work \cup {None}, kind : {"red", "green", "other"}, named : BOOLEAN]

ASSUME LaneAssumption == Lane \in [Work -> {"scenario", "flat"}] /\ None \notin Work
ASSUME ContainsAssumption ==
  Contains \subseteq Work \X Work /\ \A w \in Work : <<w, w>> \in Contains
ASSUME PastAssumption == Past \in Seq(Commit) /\ \A i \in DOMAIN Past : Past[i].work = None
ASSUME PlansAssumption == Plans \subseteq Seq({"red", "green"})
ASSUME DirectiveAssumption == Directives \subseteq Labels
ASSUME WorkflowFlagAssumption == {Diligent, FlatPushes, Mounted} \subseteq BOOLEAN
ASSUME WorkflowBoundAssumption == MaxRetries \in Nat /\ MaxMain \in Nat
ASSUME WorkflowFaultAssumption ==
  Faults \subseteq {"infra", "llm", "crash", "stop"}

VARIABLES
  sent,      \* ids whose message is in the inbox, answered or not
  pending,   \* those without an answer in the outbox
  response,  \* per id: the answer
  node,      \* per id: where its run stands
  attempt,   \* per id: errors of the agent node so far
  report,    \* per id: what its run has told (history, of the current run)
  main,      \* the commits of origin's main
  fetched,   \* how much of it the clone has fetched
  trees,     \* ids whose worktree ../wt-<id> and branch work/<id> exist
  base,      \* per id: how much of main that branch is based on
  own,       \* per id: the commits it adds
  dirty      \* ids whose worktree holds changes that are not committed; None: the clone

inboxVars == <<sent, pending, response>>
runVars   == <<node, attempt, report>>
repoVars  == <<main, fetched, trees, base, own, dirty>>
vars == <<inboxVars, runVars, repoVars>>

-----------------------------------------------------------------------------
(* The graph *)

\* the edge of a native node that succeeds; "push" is the last statement of integ
OnSuccess ==
  [prime |-> "health", health |-> "arm", arm |-> "armed", armed |-> "classify",
   worktree |-> "plan", redgate |-> "integ", integ |-> "push", push |-> "review",
   wdg_r |-> "emit_r", emit_r |-> "done", wdg_f |-> "emit_f", emit_f |-> "done",
   emit_clar |-> "reported", emit_blk |-> "reported", reported |-> "done"]

\* mutant: what the reviewer finds missing goes back to the implementer
BranchBack ==
  [classify |-> [scenario |-> "suff", flat |-> "impl_f"],
   suff     |-> [proceed |-> "worktree", clarify |-> "emit_clar"],
   plan     |-> [ok |-> "impl"],
   impl     |-> [ok |-> "redgate"],
   review   |-> [signoff |-> "wdg_r", scenario_gap |-> "emit_clar", impl_gap |-> "impl"],
   impl_f   |-> [ok |-> "wdg_f", clarify |-> "emit_clar"]]

\* the labelled edges of an agent node; plan and impl have one edge, without label
Branch ==
  [classify |-> [scenario |-> "suff", flat |-> "impl_f"],
   suff     |-> [proceed |-> "worktree", clarify |-> "emit_clar"],
   plan     |-> [ok |-> "impl"],
   impl     |-> [ok |-> "redgate"],
   review   |-> [signoff |-> "wdg_r", scenario_gap |-> "emit_clar",
                impl_gap |-> "emit_blk"],
   impl_f   |-> [ok |-> "wdg_f", clarify |-> "emit_clar"]]

Nodes == DOMAIN OnSuccess \cup Agents \cup {"done", "halt"}

FailsToHalt == {"prime", "health", "arm", "review", "emit_r", "emit_f", "emit_clar", "emit_blk"}

\* mutant: a report that cannot be sent counts as sent
OnFailureReported ==
  [n \in Nodes |-> IF n = "armed" THEN "done"
                   ELSE IF n \in {"emit_clar", "emit_blk"} THEN "reported"
                   ELSE IF n \in FailsToHalt THEN "halt" ELSE "emit_blk"]

\* the edges with condition="outcome=failed"
OnFailure ==
  [n \in Nodes |-> IF n = "armed" THEN "done"
                   ELSE IF n \in FailsToHalt THEN "halt" ELSE "emit_blk"]

At(w, n)  == node[w] = n
Runs(w)   == node[w] # "none"
Goto(w, n) ==
  /\ node' = [node EXCEPT ![w] = n]
  /\ attempt' = [attempt EXCEPT ![w] = 0]

Succeed(w) == Goto(w, OnSuccess[node[w]])
Fail(w)    == Goto(w, OnFailure[node[w]])
Infra      == "infra" \in Faults

Tell(w, what) == report' = [report EXCEPT ![w] = what]

-----------------------------------------------------------------------------
(* The repository *)

\* git log of a worktree, oldest first
Log(w) == SubSeq(main, 1, base[w]) \o own[w]

IsPrefix(s, t) == Len(s) <= Len(t) /\ SubSeq(t, 1, Len(s)) = s

\* git log origin/main --grep <id>, after a fetch
OnMain(w) == \E i \in DOMAIN main : main[i].work = w /\ main[i].named

\* the first test(red) of a log comes before its first feat(green)
RedFirst(log) ==
  \E g \in DOMAIN log :
    /\ log[g].kind = "green"
    /\ \E r \in 1..(g - 1) : log[r].kind = "red" /\ \A i \in 1..r : log[i].kind # "green"

Fetch == fetched' = Len(main)

Init ==
  /\ sent = {} /\ pending = {} /\ response = [w \in Work |-> "none"]
  /\ node = [w \in Work |-> "none"] /\ attempt = [w \in Work |-> 0]
  /\ report = [w \in Work |-> "none"]
  /\ main = Past /\ fetched = Len(Past)
  /\ trees = {} /\ base = [w \in Work |-> 0] /\ own = [w \in Work |-> <<>>] /\ dirty = {}

-----------------------------------------------------------------------------
(* The lead, the supervisor, crashes *)

\* an entry of the inbox is never overwritten
Send(w) ==
  /\ w \notin sent
  /\ sent' = sent \cup {w} /\ pending' = pending \cup {w}
  /\ UNCHANGED <<response, runVars, repoVars>>

Begin(w) ==
  /\ w \in sent /\ ~Runs(w)
  /\ Goto(w, "prime") /\ Tell(w, "none")
  /\ UNCHANGED <<inboxVars, repoVars>>

Ends(w) ==
  /\ node[w] \in {"done", "halt"}
  /\ Goto(w, "none") /\ Tell(w, "none")
  /\ UNCHANGED <<inboxVars, repoVars>>

\* the fabro server, or the run in it, dies
Crash(w) ==
  /\ "crash" \in Faults /\ Runs(w)
  /\ Goto(w, "none") /\ Tell(w, "none")
  /\ UNCHANGED <<inboxVars, repoVars>>

\* the container goes, and with it the clone unless it is on a mount
Stop ==
  /\ "stop" \in Faults
  /\ node' = [w \in Work |-> "none"] /\ attempt' = [w \in Work |-> 0]
  /\ report' = [w \in Work |-> "none"]
  /\ IF Mounted THEN UNCHANGED <<trees, base, own, dirty, fetched>>
     ELSE /\ trees' = {} /\ base' = [w \in Work |-> 0] /\ own' = [w \in Work |-> <<>>]
          /\ dirty' = {} /\ Fetch
  /\ UNCHANGED <<inboxVars, main>>

-----------------------------------------------------------------------------
(* Mutants: the mistakes the properties are there to catch *)

\* the push is forced
PushForced(w) ==
  /\ At(w, "push")
  /\ main' = Log(w) /\ fetched' = Len(main') /\ Succeed(w)
  /\ UNCHANGED <<inboxVars, report, trees, base, own, dirty>>

\* a rejected push is not noticed
PushIgnored(w) ==
  /\ At(w, "push")
  /\ \/ base[w] = Len(main) /\ main' = main \o own[w] /\ fetched' = Len(main') /\ Succeed(w)
     \/ /\ base[w] < Len(main) \/ Infra
        /\ Succeed(w) /\ UNCHANGED <<main, fetched>>
  /\ UNCHANGED <<inboxVars, report, trees, base, own, dirty>>

\* the block is an answer, and the message no longer pending
ReportBlockedAnswers(w) ==
  /\ At(w, "emit_blk")
  /\ \/ Succeed(w) /\ Tell(w, "blocked") /\ pending' = pending \ {w}
     \/ Infra /\ Fail(w) /\ UNCHANGED <<report, pending>>
  /\ UNCHANGED <<sent, response, repoVars>>

\* the answer goes to every message that grep finds
AnswerGrep(w, what) ==
  LET found == {v \in pending : <<w, v>> \in Contains} IN
  /\ response[w] = "none"
  /\ response' = [v \in Work |-> IF v \in found THEN what ELSE response[v]]
  /\ pending' = pending \ found
  /\ UNCHANGED sent

\* one attempt more than max_retries allows
AgentFailsOnceMore(w) ==
  IF attempt[w] <= MaxRetries
  THEN attempt' = [attempt EXCEPT ![w] = @ + 1] /\ node' = node
  ELSE Fail(w)

-----------------------------------------------------------------------------
(* Session start: prime, health, arm, armed *)

SessionStart(w) ==
  /\ node[w] \in {"prime", "health", "arm"}
  /\ Succeed(w) \/ (Infra /\ Fail(w))
  /\ UNCHANGED <<inboxVars, report, repoVars>>

\* the id is looked for in the listing as a substring, and a failing listing is an
\* empty one
Armed(w) ==
  /\ At(w, "armed")
  /\ \/ (\E v \in pending : <<w, v>> \in Contains) /\ Succeed(w) /\ UNCHANGED report
     \/ (\A v \in pending : <<w, v>> \notin Contains) /\ Fail(w) /\ Tell(w, "idle")
     \/ Infra /\ Fail(w) /\ Tell(w, "idle")
  /\ UNCHANGED <<inboxVars, repoVars>>

-----------------------------------------------------------------------------
(* Agents *)

\* an LLM error: the attempts that max_retries allows, then the failure edge
AgentFails(w) ==
  IF attempt[w] < MaxRetries
  THEN attempt' = [attempt EXCEPT ![w] = @ + 1] /\ node' = node
  ELSE Fail(w)

\* A directive takes its edge, and classify reads the lane off the type of the message.
\* plan and impl have one edge without condition, taken with "ok" or no directive.
AgentOutcome(w) ==
  \/ \E l \in DOMAIN Branch[node[w]] :
       /\ l \in Directives
       /\ l \in {"scenario", "flat"} => l = Lane[w]
       /\ Goto(w, Branch[node[w]][l])
  \/ "llm" \in Faults /\ AgentFails(w)

Judge(w) ==
  /\ node[w] \in {"classify", "suff", "plan", "review"}
  /\ AgentOutcome(w)
  /\ UNCHANGED <<inboxVars, report, repoVars>>

Naming == IF Diligent THEN {TRUE} ELSE BOOLEAN
Leaving(tree) == {dirty \ {tree}} \cup IF Diligent THEN {} ELSE {dirty \cup {tree}}

\* The implementer commits what it has, complete or not.
Implement(w) ==
  /\ At(w, "impl")
  /\ \E plan \in Plans, named \in Naming :
       /\ Len(main) + Len(own[w]) + Len(plan) <= MaxMain \/ plan = <<>>
       /\ own' = [own EXCEPT ![w] =
            @ \o [i \in DOMAIN plan |-> [work |-> w, kind |-> plan[i], named |-> named]]]
  /\ dirty' \in Leaving(w)
  /\ AgentOutcome(w)
  /\ UNCHANGED <<inboxVars, report, main, fetched, trees, base>>

\* The flat implementer works in the clone itself; its prompt forbids the push.
ImplementFlat(w) ==
  /\ At(w, "impl_f")
  /\ \/ /\ FlatPushes /\ Len(main) < MaxMain
        /\ \E named \in Naming :
             main' = Append(main, [work |-> w, kind |-> "other", named |-> named])
        /\ fetched' = Len(main')
     \/ UNCHANGED <<main, fetched>>
  /\ dirty' \in Leaving(None)
  /\ AgentOutcome(w)
  /\ UNCHANGED <<inboxVars, report, trees, base, own>>

-----------------------------------------------------------------------------
(* Worktree, gates and integration *)

\* git worktree add -b fails on a worktree or branch that exists
Worktree(w) ==
  /\ At(w, "worktree")
  /\ \/ /\ w \notin trees /\ Succeed(w)
        /\ trees' = trees \cup {w} /\ base' = [base EXCEPT ![w] = fetched]
        /\ own' = [own EXCEPT ![w] = <<>>]
     \/ /\ w \in trees \/ Infra
        /\ Fail(w) /\ UNCHANGED <<trees, base, own>>
  /\ UNCHANGED <<inboxVars, report, main, fetched, dirty>>

RedGate(w) ==
  /\ At(w, "redgate")
  /\ \/ RedFirst(Log(w)) /\ Succeed(w)
     \/ (~RedFirst(Log(w)) \/ Infra) /\ Fail(w)
  /\ UNCHANGED <<inboxVars, report, repoVars>>

\* git fetch and git rebase, which a modified tracked file or a conflict stops ...
Integ(w) ==
  /\ At(w, "integ")
  /\ \/ Succeed(w) /\ Fetch /\ base' = [base EXCEPT ![w] = Len(main)]
     \/ /\ w \in dirty \/ Infra
        /\ Fail(w) /\ fetched' \in {fetched, Len(main)} /\ UNCHANGED base
  /\ UNCHANGED <<inboxVars, report, main, trees, own, dirty>>

\* ... and git push, rejected unless it is a fast-forward
Push(w) ==
  /\ At(w, "push")
  /\ \/ base[w] = Len(main) /\ main' = main \o own[w] /\ fetched' = Len(main') /\ Succeed(w)
     \/ /\ base[w] < Len(main) \/ Infra
        /\ Fail(w) /\ UNCHANGED <<main, fetched>>
  /\ UNCHANGED <<inboxVars, report, trees, base, own, dirty>>

\* No uncommitted changes where the run worked, the id on origin's main, scenario tags
\* present.  The flat lane has no worktree: it looks at the clone, which all runs share.
WorkDoneGate(w) ==
  /\ node[w] \in {"wdg_r", "wdg_f"}
  /\ LET unclean == (IF At(w, "wdg_r") THEN w ELSE None) \in dirty IN
     \/ ~unclean /\ OnMain(w) /\ Succeed(w) /\ Fetch
     \/ /\ unclean \/ ~OnMain(w) \/ Infra
        /\ Fail(w) /\ fetched' \in {fetched, Len(main)}
  /\ UNCHANGED <<inboxVars, report, main, trees, base, own, dirty>>

-----------------------------------------------------------------------------
(* Answers and reports *)

\* the outbox takes one answer per id
Answer(w, what) ==
  /\ response[w] = "none"
  /\ response' = [response EXCEPT ![w] = what]
  /\ pending' = pending \ {w}
  /\ UNCHANGED sent

\* bc-emit may refuse for reasons of its own
EmitComplete(w) ==
  /\ node[w] \in {"emit_r", "emit_f"}
  /\ \/ /\ Answer(w, "complete") /\ Succeed(w)
        /\ Tell(w, IF At(w, "emit_r") THEN "reviewed" ELSE "flat")
     \/ /\ response[w] # "none" \/ Infra
        /\ Fail(w) /\ UNCHANGED <<inboxVars, report>>
  /\ UNCHANGED repoVars

EmitClarify(w) ==
  /\ At(w, "emit_clar")
  /\ \/ Answer(w, "clarify") /\ Succeed(w) /\ Tell(w, "clarify")
     \/ /\ response[w] # "none" \/ Infra
        /\ Fail(w) /\ UNCHANGED <<inboxVars, report>>
  /\ UNCHANGED repoVars

\* a nudge, which is no answer: the message stays pending
ReportBlocked(w) ==
  /\ At(w, "emit_blk")
  /\ \/ Succeed(w) /\ Tell(w, "blocked")
     \/ Infra /\ Fail(w) /\ UNCHANGED report
  /\ UNCHANGED <<inboxVars, repoVars>>

Reported(w) ==
  /\ At(w, "reported") /\ Succeed(w)
  /\ UNCHANGED <<inboxVars, report, repoVars>>

RunStep(w) ==
  \/ SessionStart(w) \/ Armed(w)
  \/ Judge(w) \/ Implement(w) \/ ImplementFlat(w)
  \/ Worktree(w) \/ RedGate(w) \/ Integ(w) \/ Push(w) \/ WorkDoneGate(w)
  \/ EmitComplete(w) \/ EmitClarify(w) \/ ReportBlocked(w) \/ Reported(w)
  \/ Ends(w)

Next ==
  \/ \E w \in Work : Send(w) \/ Begin(w) \/ Crash(w) \/ RunStep(w)
  \/ Stop

Spec == Init /\ [][Next]_vars

\* fabro walks every run on, and an agent stage ends
FairSpec == Spec /\ \A w \in Work : WF_vars(RunStep(w))

\* ... and the supervisor starts a run again for what is pending
ServingSpec == FairSpec /\ \A w \in Work : WF_vars(w \in pending /\ Begin(w))

-----------------------------------------------------------------------------
\* The variables have their types.
TypeOK ==
  /\ sent \subseteq Work /\ pending \subseteq sent
  /\ response \in [Work -> {"none", "complete", "clarify"}]
  /\ node \in [Work -> Nodes \cup {"none"}]
  /\ attempt \in [Work -> 0..MaxRetries]
  /\ report \in [Work -> {"none", "idle", "clarify", "blocked", "reviewed", "flat"}]
  /\ main \in Seq(Commit) /\ fetched \in Nat
  /\ trees \subseteq Work /\ dirty \subseteq Work \cup {None}
  /\ base \in [Work -> Nat] /\ own \in [Work -> Seq(Commit)]

-----------------------------------------------------------------------------
(* Safety *)

\* A work_done(complete) is over integrated work (workflow.fabro:21-31): main names
\* the id, and after a review main holds everything in the worktree that was
\* reviewed, although other runs and other people push at the same time and the id
\* may have been integrated by an earlier run.
CompleteMeansIntegrated ==
  \A w \in Work :
    /\ response[w] = "complete" => OnMain(w)
    /\ report[w] = "reviewed" => IsPrefix(Log(w), main) /\ w \notin dirty

\* A message is never consumed and lost: it stays pending until it is answered with
\* complete or clarify, whatever node its runs end at (workflow.fabro:226-245).
NothingLost == \A w \in sent : w \in pending <=> response[w] = "none"

\* "A FAILED node must never advance to the SUCCEEDED terminal" (workflow.fabro:82): a
\* run that succeeds has answered, has reported its block, or found nothing to do;
\* one that is halted has told the lead nothing.
EndIsReported ==
  \A w \in Work : /\ At(w, "done") => report[w] # "none"
                  /\ At(w, "halt") => report[w] = "none"

-----------------------------------------------------------------------------
(* Steps *)

\* Concurrent runs never lose each other's commits, nor other people's.
MainOnlyGrows == [][IsPrefix(main, main')]_vars

\* The runs implement what the supervisor assumes of its children.
Child ==
  INSTANCE WorkIntake WITH
    WorkId <- Work, Key <- Work, NameOf <- [w \in Work |-> w], inbox <- pending,
    busy <- [w \in Work |-> IF Runs(w) THEN w ELSE None]
ChildSpec == Child!Spec

\* How far a node is from the end of its run, and what is left of a run that is there
Level ==
  [prime |-> 16, health |-> 15, arm |-> 14, armed |-> 13, classify |-> 12, suff |-> 11,
   worktree |-> 10, plan |-> 9, impl |-> 8, redgate |-> 7, integ |-> 6, push |-> 5,
   review |-> 4, impl_f |-> 4, wdg_r |-> 3, wdg_f |-> 3, emit_clar |-> 2, emit_blk |-> 2,
   emit_r |-> 1, emit_f |-> 1, reported |-> 1, done |-> 0, halt |-> 0]
Remaining(w) == Level[node[w]] * (MaxRetries + 1) + (MaxRetries - attempt[w])

\* A run is finite (engage.py:121-123): whatever agents judge and commands fail, each of
\* its steps ends it or leaves less of it, so no gap report, failed gate or retried model
\* call leads back to where it has been, "a persistently-unavailable provider cannot hang
\* the run forever" (workflow.fabro:156-157), and the supervisor's lock is released.
RunIsFinite ==
  [][\A w \in Work :
       RunStep(w) => ~Runs(w)' \/ Remaining(w)' \in 0..(Remaining(w) - 1)]_vars

-----------------------------------------------------------------------------
(* Liveness *)

\* A message whose run was blocked is retriable "WITHOUT lead re-dispatch"
\* (workflow.fabro:242-243): served again and again, it is answered in the end.
EventuallyAnswered == \A w \in Work : w \in pending ~> w \notin pending
=============================================================================
