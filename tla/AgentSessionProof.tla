-------------------------- MODULE AgentSessionProof --------------------------
(***************************************************************************)
(* What holds of AgentSession for every set of commands, every choice of   *)
(* screens and every fault: the types, and that a launch or start-agent    *)
(* types its prompt only in front of claude's input.                       *)
(***************************************************************************)
EXTENDS AgentSession, TLAPS

InputScreen == {"input"} \cup OptionScreen

\* A command that has seen the trust banner, or the input
AfterBanner(o) ==
  \/ pc[o] \in {"accept", "ready", "scan", "escape", "option", "optEscape", "paste"}
  \/ Engaging(o) /\ pc[o] \in {"inject", "enter"}

\* ... or the input
AtInput(o) ==
  \/ pc[o] \in {"option", "optEscape", "paste"}
  \/ Engaging(o) /\ pc[o] \in {"inject", "enter"}

\* A startup screen is shown once, and the input after all of them
ShownOnce ==
  /\ screen = "trust" => "trust" \notin todo
  /\ screen \in InputScreen => todo = {}

\* The strengthening: a command past the first loop has the trust screen behind it,
\* for good, and one past the second has the input in front of it.
SessionInv ==
  /\ ShownOnce
  /\ ~crashed => \A o \in Op :
       /\ AfterBanner(o) => screen \in ClaudeScreen /\ "trust" \notin todo
       /\ AfterBanner(o) /\ pc[o] # "accept" => screen # "trust"
       /\ AtInput(o) => screen \in InputScreen

\* What the pane of a claude that is not killed can do in a step
Forward ==
  /\ screen \in ClaudeScreen => screen' \in ClaudeScreen /\ todo' \subseteq todo
  /\ screen \in ClaudeScreen /\ screen # "trust" /\ "trust" \notin todo => screen' # "trust"
  /\ screen \in InputScreen => screen' \in InputScreen

-----------------------------------------------------------------------------
LEMMA EnterType ==
  ASSUME TypeOK, Enter
  PROVE  /\ screen' \in Screen /\ todo' \subseteq StartupScreen
         /\ line' \subseteq Op /\ submitted' \subseteq Op /\ armed' \in BOOLEAN
BY DEF TypeOK, Enter, Screen, ClaudeScreen, StartupScreen, OptionScreen

LEMMA EscapeType ==
  ASSUME TypeOK, Escape
  PROVE  /\ screen' \in Screen /\ todo' \subseteq StartupScreen
         /\ line' \subseteq Op /\ submitted' \subseteq Op /\ armed' \in BOOLEAN
<1>1. screen' \in Screen /\ todo' \subseteq StartupScreen
  BY DEF TypeOK, Escape, Screen, ClaudeScreen, StartupScreen, OptionScreen
<1>2. armed' \in BOOLEAN
  BY DEF TypeOK, Escape
<1>. QED
  BY <1>1, <1>2 DEF TypeOK, Escape

LEMMA CommandType ==
  ASSUME TypeOK, Command
  PROVE  /\ screen' \in Screen /\ todo' \subseteq StartupScreen
         /\ line' \subseteq Op /\ submitted' \subseteq Op /\ armed' \in BOOLEAN
<1>1. CASE screen = "shell" /\ line = {} /\ screen' = "boot" /\ todo' \in SUBSET Startup
           /\ UNCHANGED <<line, submitted, armed>>
  BY <1>1, ScreenAssumption DEF TypeOK, Screen, ClaudeScreen
<1>2. CASE Enter
  BY <1>2, EnterType
<1>. QED
  BY <1>1, <1>2 DEF Command

LEMMA TypeInit == Init => TypeOK
<1>. SUFFICES ASSUME Init PROVE TypeOK
  OBVIOUS
<1>1. 0 \in 0..Polls
  BY PollsAssumption
<1>2. [o \in Op |-> 0] \in [Op -> 0..Polls]
  BY <1>1
<1>3. [o \in Op |-> "changed"] \in [Op -> Screen \cup {"changed"}]
  OBVIOUS
<1>. QED
  BY <1>2, <1>3 DEF Init, TypeOK, Screen, ClaudeScreen, Pcs, Exits

LEMMA WaitTyped ==
  ASSUME TypeOK, NEW o \in Op, NEW n \in 0..Polls, StartWait(o, n)
  PROVE  seen' \in [Op -> Screen \cup {"changed"}] /\ left' \in [Op -> 0..Polls]
BY DEF TypeOK, StartWait

LEMMA PollTyped ==
  ASSUME TypeOK, NEW o \in Op, Progress(o) \/ Idle(o) \/ LoopOver(o)
  PROVE  seen' \in [Op -> Screen \cup {"changed"}] /\ left' \in [Op -> 0..Polls]
<1>1. CASE Progress(o)
  BY <1>1 DEF TypeOK, Progress
<1>2. CASE Idle(o)
  <2>1. PICK n \in 0..(left[o] - 1) : StartWait(o, n)
    BY <1>2 DEF Idle
  <2>2. n \in 0..Polls
    BY <2>1, PollsAssumption DEF TypeOK
  <2>. QED
    BY <2>1, <2>2, WaitTyped
<1>3. CASE LoopOver(o)
  <2>1. 0 \in 0..Polls
    BY PollsAssumption
  <2>. QED
    BY <1>3, <2>1, WaitTyped DEF LoopOver
<1>. QED
  BY <1>1, <1>2, <1>3

LEMMA GotoTyped ==
  ASSUME TypeOK, NEW o \in Op, NEW from, NEW to \in Pcs, Goto(o, from, to)
  PROVE  pc' \in [Op -> Pcs]
BY DEF TypeOK, Goto

LEMMA FinishTyped ==
  ASSUME TypeOK, NEW o \in Op, NEW from, NEW result \in Exits, Finish(o, from, result)
  PROVE  pc' \in [Op -> Pcs] /\ exit' \in [Op -> Exits]
BY DEF TypeOK, Finish, Goto, Pcs

\* One step of a command keeps the types: the pane, then what the command owns.
LEMMA TypeOp ==
  ASSUME TypeOK, NEW o \in Op, OpStep(o)
  PROVE  TypeOK'
<1>. USE DEF paneVars, agentVars, waitVars
<1>1. CASE Launch(o)
  <2>1. pc' \in [Op -> Pcs]
    BY <1>1, GotoTyped DEF Launch, Pcs
  <2>. QED
    BY <1>1, <2>1 DEF Launch, TypeOK
<1>2. CASE StartAgent(o)
  <2>1. pc' \in [Op -> Pcs] /\ exit' \in [Op -> Exits]
    <3>1. ASSUME Goto(o, "idle", "session"), UNCHANGED exit
          PROVE  pc' \in [Op -> Pcs] /\ exit' \in [Op -> Exits]
      BY <3>1, GotoTyped DEF Pcs, TypeOK
    <3>2. ASSUME NEW r \in {"notRunning", "online"}, Finish(o, "idle", r)
          PROVE  pc' \in [Op -> Pcs] /\ exit' \in [Op -> Exits]
      BY <3>2, FinishTyped DEF Exits
    <3>. QED
      BY <1>2, <3>1, <3>2 DEF StartAgent
  <2>. QED
    BY <1>2, <2>1 DEF StartAgent, TypeOK
<1>3. CASE Inject(o)
  <2>1. pc' \in [Op -> Pcs]
    BY <1>3, GotoTyped DEF Inject, Pcs
  <2>. QED
    BY <1>3, <2>1 DEF Inject, TypeOK
<1>4. CASE NewSession(o)
  <2>1. CASE o \in Prompted
    BY <1>4, <2>1, GotoTyped DEF NewSession, TypeOK, Pcs, Screen
  <2>2. CASE o \notin Prompted
    BY <1>4, <2>2, FinishTyped DEF NewSession, TypeOK, Exits, Screen
  <2>. QED
    BY <2>1, <2>2
<1>5. CASE Barrier(o)
  <2>1. pc' \in [Op -> Pcs] /\ exit' \in [Op -> Exits]
    <3>1. ASSUME NEW from \in Pcs, NEW to \in Pcs, Goto(o, from, to), UNCHANGED exit
          PROVE  pc' \in [Op -> Pcs] /\ exit' \in [Op -> Exits]
      BY <3>1, GotoTyped DEF TypeOK
    <3>2. ASSUME NEW from \in Pcs, NEW r \in Exits, Finish(o, from, r)
          PROVE  pc' \in [Op -> Pcs] /\ exit' \in [Op -> Exits]
      BY <3>2, FinishTyped
    <3>. QED
      BY <1>5, <3>1, <3>2 DEF Barrier, Pcs, Exits
  <2>. QED
    BY <1>5, <2>1 DEF Barrier, TypeOK
<1>6. CASE SendClaude(o)
  <2>1. Polls \in 0..Polls
    BY PollsAssumption
  <2>2. pc' \in [Op -> Pcs]
    BY <1>6, GotoTyped DEF SendClaude, Pcs
  <2>3. seen' \in [Op -> Screen \cup {"changed"}] /\ left' \in [Op -> 0..Polls]
    BY <1>6, <2>1, WaitTyped DEF SendClaude
  <2>. QED
    BY <1>6, <2>2, <2>3, CommandType DEF SendClaude, TypeOK
<1>7. CASE WaitBanner(o) \/ WaitReady(o)
  <2>1. pc' \in [Op -> Pcs]
    BY <1>7, GotoTyped DEF WaitBanner, WaitReady, TypeOK, Pcs
  <2>2. seen' \in [Op -> Screen \cup {"changed"}] /\ left' \in [Op -> 0..Polls]
    BY <1>7, PollTyped DEF WaitBanner, WaitReady
  <2>. QED
    BY <1>7, <2>1, <2>2 DEF WaitBanner, WaitReady, TypeOK
<1>8. CASE CheckSelfAdvanced(o)
  <2>1. pc' \in [Op -> Pcs] /\ exit' \in [Op -> Exits]
    <3>1. ASSUME NEW to \in {"option", "banner"}, Goto(o, "selfAdvanced", to), UNCHANGED exit
          PROVE  pc' \in [Op -> Pcs] /\ exit' \in [Op -> Exits]
      BY <3>1, GotoTyped DEF Pcs, TypeOK
    <3>2. ASSUME Finish(o, "selfAdvanced", "agent-startup")
          PROVE  pc' \in [Op -> Pcs] /\ exit' \in [Op -> Exits]
      BY <3>2, FinishTyped DEF Exits
    <3>. QED
      BY <1>8, <3>1, <3>2 DEF CheckSelfAdvanced
  <2>2. seen' \in [Op -> Screen \cup {"changed"}] /\ left' \in [Op -> 0..Polls]
    <3>1. left[o] \in 0..Polls
      BY DEF TypeOK
    <3>. QED
      BY <1>8, <3>1, WaitTyped, PollTyped DEF CheckSelfAdvanced, TypeOK
  <2>. QED
    BY <1>8, <2>1, <2>2 DEF CheckSelfAdvanced, TypeOK
<1>9. CASE AcceptTrust(o)
  <2>1. Polls \in 0..Polls
    BY PollsAssumption
  <2>2. pc' \in [Op -> Pcs]
    BY <1>9, GotoTyped DEF AcceptTrust, Pcs
  <2>3. seen' \in [Op -> Screen \cup {"changed"}] /\ left' \in [Op -> 0..Polls]
    BY <1>9, <2>1, WaitTyped DEF AcceptTrust
  <2>. QED
    BY <1>9, <2>2, <2>3, EnterType DEF AcceptTrust, TypeOK
<1>10. ASSUME NEW from \in Pcs, NextAttempt(o, from)
       PROVE  /\ pc' \in [Op -> Pcs] /\ exit' \in [Op -> Exits]
              /\ seen' \in [Op -> Screen \cup {"changed"}] /\ left' \in [Op -> 0..Polls]
  <2>1. CASE Goto(o, from, "ready") /\ StartWait(o, left[o]) /\ UNCHANGED exit
    <3>1. left[o] \in 0..Polls
      BY DEF TypeOK
    <3>2. "ready" \in Pcs
      BY DEF Pcs
    <3>3. pc' \in [Op -> Pcs]
      BY <2>1, <3>2, GotoTyped
    <3>. QED
      BY <2>1, <3>1, <3>3, WaitTyped DEF TypeOK
  <2>2. CASE Finish(o, from, "readiness") /\ UNCHANGED waitVars
    <3>1. "readiness" \in Exits
      BY DEF Exits
    <3>. QED
      BY <2>2, <3>1, FinishTyped DEF TypeOK
  <2>. QED
    BY <1>10, <2>1, <2>2 DEF NextAttempt
<1>11. CASE Scan(o)
  <2>1. CASE Goto(o, "scan", "escape") /\ UNCHANGED <<waitVars, exit>>
    <3>1. pc' \in [Op -> Pcs]
      BY <2>1, GotoTyped DEF Pcs
    <3>. QED
      BY <1>11, <2>1, <3>1 DEF Scan, TypeOK
  <2>2. CASE NextAttempt(o, "scan")
    <3>1. "scan" \in Pcs
      BY DEF Pcs
    <3>. QED
      BY <1>10, <1>11, <2>2, <3>1 DEF Scan, TypeOK
  <2>. QED
    BY <1>11, <2>1, <2>2 DEF Scan
<1>12. CASE DismissPrompt(o)
  <2>1. "escape" \in Pcs
    BY DEF Pcs
  <2>. QED
    BY <1>10, <1>12, <2>1, EscapeType DEF DismissPrompt, TypeOK
<1>13. CASE HandleOptionScreen(o)
  <2>1. pc' \in [Op -> Pcs] /\ exit' \in [Op -> Exits]
    <3>1. ASSUME NEW to \in {"optEscape", "inject"}, Goto(o, "option", to), UNCHANGED exit
          PROVE  pc' \in [Op -> Pcs] /\ exit' \in [Op -> Exits]
      BY <3>1, GotoTyped DEF Pcs, TypeOK
    <3>2. ASSUME Finish(o, "option", "refused")
          PROVE  pc' \in [Op -> Pcs] /\ exit' \in [Op -> Exits]
      BY <3>2, FinishTyped DEF Exits
    <3>. QED
      BY <1>13, <3>1, <3>2 DEF HandleOptionScreen
  <2>. QED
    BY <1>13, <2>1 DEF HandleOptionScreen, TypeOK
<1>14. CASE DismissOption(o)
  <2>1. pc' \in [Op -> Pcs]
    BY <1>14, GotoTyped DEF DismissOption, Pcs
  <2>. QED
    BY <1>14, <2>1, EscapeType DEF DismissOption, TypeOK
<1>15. CASE TypePrompt(o)
  <2>1. pc' \in [Op -> Pcs]
    BY <1>15, GotoTyped DEF TypePrompt, Pcs
  <2>2. line' \subseteq Op
    BY <1>15 DEF TypePrompt, Prompts, TypeOK
  <2>. QED
    BY <1>15, <2>1, <2>2 DEF TypePrompt, Prompts, TypeOK
<1>16. CASE LoadBuffer(o)
  <2>1. pc' \in [Op -> Pcs]
    BY <1>16, GotoTyped DEF LoadBuffer, Pcs
  <2>. QED
    BY <1>16, <2>1 DEF LoadBuffer, OthersPasting, TypeOK
<1>17. CASE PasteBuffer(o)
  <2>1. pc' \in [Op -> Pcs]
    BY <1>17, GotoTyped DEF PasteBuffer, Pcs
  <2>2. line' \subseteq Op
    BY <1>17 DEF PasteBuffer, Prompts, TypeOK
  <2>. QED
    BY <1>17, <2>1, <2>2 DEF PasteBuffer, Prompts, OthersPasting, TypeOK
<1>18. CASE Submit(o)
  <2>1. pc' \in [Op -> Pcs] /\ exit' \in [Op -> Exits]
    BY <1>18, FinishTyped DEF Submit, Exits
  <2>. QED
    BY <1>18, <2>1, EnterType DEF Submit, TypeOK
<1>. QED
  BY <1>1, <1>2, <1>3, <1>4, <1>5, <1>6, <1>7, <1>8, <1>9, <1>11, <1>12, <1>13,
     <1>14, <1>15, <1>16, <1>17, <1>18 DEF OpStep

LEMMA TypeEnvironment ==
  ASSUME TypeOK, Environment
  PROVE  TypeOK'
<1>. USE DEF paneVars, agentVars, waitVars
<1>1. CASE ClaudeShows
  BY <1>1 DEF ClaudeShows, TypeOK, Screen, ClaudeScreen, StartupScreen
<1>2. CASE TrustPasses
  BY <1>2 DEF TrustPasses, TypeOK, Screen, ClaudeScreen
<1>3. CASE OptionAppears
  BY <1>3, ScreenAssumption DEF OptionAppears, TypeOK, Screen, ClaudeScreen
<1>4. CASE Redraw
  BY <1>4 DEF Redraw, TypeOK
<1>5. CASE AgentArms
  BY <1>5 DEF AgentArms, TypeOK
<1>6. CASE ClaudeExits
  BY <1>6 DEF ClaudeExits, TypeOK, Screen
<1>7. CASE Stop
  BY <1>7 DEF Stop, TypeOK, Screen
<1>. QED
  BY <1>1, <1>2, <1>3, <1>4, <1>5, <1>6, <1>7 DEF Environment

LEMMA TypeNext == TypeOK /\ [Next]_vars => TypeOK'
<1>1. ASSUME TypeOK, UNCHANGED vars PROVE TypeOK'
  BY <1>1 DEF TypeOK, vars, paneVars, agentVars, waitVars
<1>. QED
  BY <1>1, TypeOp, TypeEnvironment DEF Next

\* Every variable of AgentSession keeps its type.
THEOREM TypeCorrect == Spec => []TypeOK
BY TypeInit, TypeNext, PTL DEF Spec

-----------------------------------------------------------------------------
(* The prompt goes only where it is expected *)

LEMMA EnterForward ==
  ASSUME TypeOK, Enter
  PROVE  Forward
BY DEF TypeOK, Enter, Forward, ClaudeScreen, StartupScreen, OptionScreen, InputScreen

LEMMA EscapeForward ==
  ASSUME TypeOK, Escape, screen # "trust"
  PROVE  Forward /\ screen' # "trust"
BY DEF TypeOK, Escape, Forward, ClaudeScreen, StartupScreen, OptionScreen, InputScreen

LEMMA CommandForward ==
  ASSUME TypeOK, Command
  PROVE  Forward
<1>1. CASE screen = "shell" /\ screen' = "boot"
  BY <1>1 DEF Forward, ClaudeScreen, InputScreen, StartupScreen, OptionScreen
<1>. QED
  BY <1>1, EnterForward DEF Command

\* Whatever a command types, a claude that has left the trust screen stays out of it
\* and one at its input stays there; only an Esc at the trust screen could end it,
\* and no command that sends an Esc has that screen in front of it.
LEMMA OpForward ==
  ASSUME TypeOK, SessionInv, ~crashed, NEW o \in Op, OpStep(o)
  PROVE  Forward /\ ~crashed' /\ (screen' = "trust" => screen = "trust" /\ todo' = todo)
<1>. USE DEF paneVars, agentVars, waitVars
<1>1. CASE UNCHANGED <<screen, todo, crashed>>
  BY <1>1 DEF Forward
<1>2. CASE NewSession(o)
  BY <1>2 DEF NewSession, Forward, ClaudeScreen, StartupScreen, OptionScreen, InputScreen
<1>3. CASE SendClaude(o)
  <2>1. Forward
    BY <1>3, CommandForward DEF SendClaude
  <2>2. screen' # "trust"
    BY <1>3 DEF SendClaude, Command, Enter, TypeOK, Screen, ClaudeScreen, StartupScreen, OptionScreen
  <2>. QED
    BY <1>3, <2>1, <2>2 DEF SendClaude
<1>4. CASE AcceptTrust(o) \/ Submit(o)
  <2>1. screen' # "trust"
    BY <1>4 DEF AcceptTrust, Submit, Enter, StartupScreen, OptionScreen
  <2>. QED
    BY <1>4, <2>1, EnterForward DEF AcceptTrust, Submit
<1>5. CASE DismissPrompt(o) \/ DismissOption(o)
  <2>1. pc[o] \in {"escape", "optEscape"}
    BY <1>5 DEF DismissPrompt, DismissOption, NextAttempt, Goto, Finish
  <2>2. screen # "trust"
    BY <2>1 DEF SessionInv, AfterBanner
  <2>. QED
    BY <1>5, <2>2, EscapeForward DEF DismissPrompt, DismissOption
<1>. QED
  BY <1>1, <1>2, <1>3, <1>4, <1>5
     DEF OpStep, Launch, StartAgent, Inject, Barrier, WaitBanner, CheckSelfAdvanced,
         WaitReady, Scan, HandleOptionScreen, TypePrompt, LoadBuffer, PasteBuffer, Prompts

\* Which steps take a command past the banner, and past the input marker
LEMMA OpAdvance ==
  ASSUME TypeOK, NEW o \in Op, OpStep(o)
  PROVE  /\ \A p \in Op : p # o => pc'[p] = pc[p]
         /\ AfterBanner(o)' =>
              AfterBanner(o) \/ (screen' = screen /\ todo' = todo /\ screen \in {"trust", "input"})
         /\ AfterBanner(o)' /\ pc'[o] # "accept" =>
              AfterBanner(o) \/ (screen' = screen /\ screen = "input")
         /\ pc[o] = "accept" => screen' # "trust"
         /\ AtInput(o)' => AtInput(o) \/ (screen' = screen /\ screen = "input")
<1>. USE DEF paneVars, agentVars, waitVars, AfterBanner, AtInput, Engaging, TypeOK
<1>1. CASE Launch(o) \/ StartAgent(o) \/ Inject(o)
  BY <1>1 DEF Launch, StartAgent, Inject, Goto, Finish
<1>2. CASE NewSession(o) \/ Barrier(o) \/ SendClaude(o)
  BY <1>2 DEF NewSession, Barrier, SendClaude, Goto, Finish
<1>3. CASE WaitBanner(o) \/ CheckSelfAdvanced(o)
  BY <1>3 DEF WaitBanner, CheckSelfAdvanced, Goto, Finish
<1>4. CASE AcceptTrust(o)
  <2>1. screen' # "trust"
    BY <1>4 DEF AcceptTrust, Enter, StartupScreen, OptionScreen
  <2>. QED
    BY <1>4, <2>1 DEF AcceptTrust, Goto
<1>5. CASE WaitReady(o) \/ Scan(o) \/ DismissPrompt(o)
  BY <1>5 DEF WaitReady, Scan, DismissPrompt, NextAttempt, Goto, Finish
<1>6. CASE HandleOptionScreen(o) \/ DismissOption(o)
  BY <1>6 DEF HandleOptionScreen, DismissOption, Goto, Finish
<1>7. CASE TypePrompt(o) \/ LoadBuffer(o) \/ PasteBuffer(o) \/ Submit(o)
  BY <1>7 DEF TypePrompt, LoadBuffer, PasteBuffer, Submit, Goto, Finish
<1>. QED
  BY <1>1, <1>2, <1>3, <1>4, <1>5, <1>6, <1>7 DEF OpStep

LEMMA EnvironmentForward ==
  ASSUME TypeOK, SessionInv, ~crashed', Environment
  PROVE  ~crashed /\ Forward /\ UNCHANGED pc
<1>. USE DEF paneVars, agentVars, waitVars, Forward, ClaudeScreen, StartupScreen,
             OptionScreen, InputScreen
<1>1. CASE ClaudeShows
  BY <1>1 DEF ClaudeShows, TypeOK
<1>2. CASE TrustPasses \/ Redraw \/ AgentArms
  BY <1>2 DEF TrustPasses, Redraw, AgentArms
<1>3. CASE OptionAppears
  BY <1>3, ScreenAssumption DEF OptionAppears
<1>4. CASE ClaudeExits \/ Stop
  BY <1>4 DEF ClaudeExits, Stop
<1>. QED
  BY <1>1, <1>2, <1>3, <1>4 DEF Environment

\* ... crash or not
LEMMA ShownOnceNext ==
  ASSUME TypeOK, ShownOnce, Next
  PROVE  ShownOnce'
<1>. USE DEF paneVars, agentVars, waitVars, ShownOnce, InputScreen, OptionScreen, StartupScreen
<1>1. CASE Environment
  BY <1>1, ScreenAssumption
     DEF Environment, ClaudeShows, TrustPasses, OptionAppears, Redraw, AgentArms, ClaudeExits,
         Stop, TypeOK
<1>2. ASSUME NEW o \in Op, OpStep(o)
      PROVE  ShownOnce'
  <2>1. CASE UNCHANGED <<screen, todo>>
    BY <2>1
  <2>2. CASE NewSession(o)
    BY <2>2 DEF NewSession
  <2>3. CASE SendClaude(o)
    BY <2>3 DEF SendClaude, Command, Enter
  <2>4. CASE AcceptTrust(o) \/ Submit(o)
    BY <2>4 DEF AcceptTrust, Submit, Enter
  <2>5. CASE DismissPrompt(o) \/ DismissOption(o)
    BY <2>5 DEF DismissPrompt, DismissOption, Escape
  <2>. QED
    BY <1>2, <2>1, <2>2, <2>3, <2>4, <2>5
       DEF OpStep, Launch, StartAgent, Inject, Barrier, WaitBanner, CheckSelfAdvanced,
           WaitReady, Scan, HandleOptionScreen, TypePrompt, LoadBuffer, PasteBuffer, Prompts
<1>. QED
  BY <1>1, <1>2 DEF Next

LEMMA SessionInit == Init => SessionInv
BY DEF Init, SessionInv, ShownOnce, InputScreen, OptionScreen, AfterBanner, AtInput

LEMMA SessionNext == TypeOK /\ SessionInv /\ [Next]_vars => SessionInv'
<1>. SUFFICES ASSUME TypeOK, SessionInv, [Next]_vars PROVE SessionInv'
  OBVIOUS
<1>1. CASE UNCHANGED vars
  BY <1>1 DEF vars, paneVars, agentVars, waitVars, SessionInv, ShownOnce, AfterBanner, AtInput
<1>2. CASE Next
  <2>1. ShownOnce'
    BY <1>2, ShownOnceNext DEF SessionInv
  <2>2. ASSUME ~crashed', NEW o \in Op
        PROVE  /\ AfterBanner(o)' => screen' \in ClaudeScreen /\ "trust" \notin todo'
               /\ AfterBanner(o)' /\ pc'[o] # "accept" => screen' # "trust"
               /\ AtInput(o)' => screen' \in InputScreen
    <3>1. CASE Environment
      <4>1. ~crashed /\ Forward /\ pc' = pc
        BY <2>2, <3>1, EnvironmentForward
      <4>2. (AfterBanner(o)' <=> AfterBanner(o)) /\ (AtInput(o)' <=> AtInput(o))
        BY <4>1 DEF AfterBanner, AtInput
      <4>. QED
        BY <4>1, <4>2 DEF SessionInv, Forward
    <3>2. ASSUME NEW q \in Op, OpStep(q)
          PROVE  /\ AfterBanner(o)' => screen' \in ClaudeScreen /\ "trust" \notin todo'
                 /\ AfterBanner(o)' /\ pc'[o] # "accept" => screen' # "trust"
                 /\ AtInput(o)' => screen' \in InputScreen
      <4>1. ~crashed
        BY <2>2, <3>2
           DEF OpStep, Launch, StartAgent, Inject, NewSession, Barrier, SendClaude, WaitBanner,
               CheckSelfAdvanced, AcceptTrust, WaitReady, Scan, DismissPrompt,
               HandleOptionScreen, DismissOption, TypePrompt, LoadBuffer, PasteBuffer, Submit,
               agentVars
      <4>2. Forward /\ (screen' = "trust" => screen = "trust" /\ todo' = todo)
        BY <3>2, <4>1, OpForward
      <4>3. CASE q # o
        <5>1. pc'[o] = pc[o]
          BY <3>2, <4>3, OpAdvance
        <5>2. (AfterBanner(o)' <=> AfterBanner(o)) /\ (AtInput(o)' <=> AtInput(o))
          BY <5>1 DEF AfterBanner, AtInput
        <5>. QED
          BY <4>1, <4>2, <5>1, <5>2 DEF SessionInv, Forward
      <4>4. CASE q = o
        <5>1. /\ AfterBanner(o)' =>
                   AfterBanner(o) \/ (screen' = screen /\ todo' = todo /\ screen \in {"trust", "input"})
              /\ AfterBanner(o)' /\ pc'[o] # "accept" =>
                   AfterBanner(o) \/ (screen' = screen /\ screen = "input")
              /\ pc[o] = "accept" => screen' # "trust"
              /\ AtInput(o)' => AtInput(o) \/ (screen' = screen /\ screen = "input")
          BY <3>2, <4>4, OpAdvance
        <5>2. AfterBanner(o)' => screen' \in ClaudeScreen /\ "trust" \notin todo'
          BY <4>1, <4>2, <5>1
             DEF SessionInv, ShownOnce, Forward, ClaudeScreen, StartupScreen, InputScreen
        <5>3. AfterBanner(o)' /\ pc'[o] # "accept" => screen' # "trust"
          BY <4>1, <4>2, <5>1 DEF SessionInv, Forward
        <5>4. AtInput(o)' => screen' \in InputScreen
          BY <4>1, <4>2, <5>1 DEF SessionInv, Forward, InputScreen
        <5>. QED
          BY <5>2, <5>3, <5>4
      <4>. QED
        BY <4>3, <4>4
    <3>. QED
      BY <1>2, <3>1, <3>2 DEF Next
  <2>. QED
    BY <2>1, <2>2 DEF SessionInv
<1>. QED
  BY <1>1, <1>2

LEMMA SessionAlways == Spec => []SessionInv
BY TypeInit, TypeNext, SessionInit, SessionNext, PTL DEF Spec

\* From its look for an option screen to its last key a launch or start-agent has
\* claude's input, or an option screen over it, in front of it.
THEOREM PromptGoesToInput == Spec => []PromptOnlyAtInput
<1>1. SessionInv => PromptOnlyAtInput
  BY DEF SessionInv, PromptOnlyAtInput, AtInput, Injecting, InputScreen
<1>. QED
  BY <1>1, SessionAlways, PTL

\* No Esc of the launcher reaches the workspace-trust screen.
THEOREM EscapeSparesTrust == Spec => TrustNeverEscaped
<1>1. ASSUME SessionInv, ~crashed, NEW o \in Op, DismissPrompt(o) \/ DismissOption(o)
      PROVE  screen # "trust"
  <2>1. pc[o] \in {"escape", "optEscape"}
    BY <1>1 DEF DismissPrompt, DismissOption, NextAttempt, Goto, Finish
  <2>. QED
    BY <1>1, <2>1 DEF SessionInv, AfterBanner
<1>2. SessionInv /\ [Next]_vars =>
        [~crashed => \A o \in Op : DismissPrompt(o) \/ DismissOption(o) => screen # "trust"]_vars
  BY <1>1
<1>. QED
  BY <1>2, SessionAlways, PTL DEF Spec, TrustNeverEscaped

-----------------------------------------------------------------------------
(* Exit 0 as engaged means submitted *)

\* A command that was not disturbed has the bare input in front of it while it types,
\* its buffer is its own, and its prompt is on the line until some Enter submits it.
Claims(o) ==
  /\ pc[o] = "paste" => buffer = {o}
  /\ pc[o] \in {"inject", "paste", "enter"} => screen = "input"
  /\ pc[o] = "optEscape" => screen \in {"input", "option"}
  /\ pc[o] = "enter" => o \in submitted \cup line
  /\ exit[o] = "engaged" => o \in submitted

SubmitInv ==
  /\ \A o \in Op : pc[o] = "paste" => Engaging(o)
  /\ ~crashed => \A o \in Op : Engaging(o) /\ o \notin disturbed => Claims(o)

\* The input line when the pane is at the input: text is only added, or submitted
Kept ==
  /\ screen = "input" => screen' = "input"
  /\ screen = "option" => screen' \in {"input", "option"}
  /\ submitted \subseteq submitted'
  /\ screen = "input" => line \subseteq line' \cup submitted'

LEMMA EnterKept == ASSUME TypeOK, Enter PROVE Kept
<1>1. screen = "input" => screen' = "input"
  BY DEF Enter, StartupScreen, OptionScreen
<1>2. screen = "option" => screen' \in {"input", "option"}
  BY DEF Enter, StartupScreen, OptionScreen
<1>3. submitted \subseteq submitted'
  BY DEF Enter
<1>4. screen = "input" => line \subseteq submitted'
  BY DEF Enter
<1>. QED
  BY <1>1, <1>2, <1>3, <1>4 DEF Kept

LEMMA EscapeKept == ASSUME TypeOK, Escape PROVE Kept
<1>1. screen = "input" => screen' = "input"
  BY DEF Escape
<1>2. screen = "option" => screen' \in {"input", "option"}
  BY DEF Escape
<1>. QED
  BY <1>1, <1>2 DEF Escape, Kept

LEMMA CommandKept == ASSUME TypeOK, Command PROVE Kept
<1>1. CASE screen = "shell" /\ UNCHANGED <<line, submitted>>
  BY <1>1 DEF Kept
<1>. QED
  BY <1>1, EnterKept DEF Command

\* Every command keeps what another one has typed.
LEMMA OpKept ==
  ASSUME TypeOK, NEW o \in Op, OpStep(o)
  PROVE  Kept
<1>. USE DEF paneVars, agentVars, waitVars
<1>1. CASE UNCHANGED <<screen, line, submitted>>
  BY <1>1 DEF Kept
<1>2. CASE NewSession(o)
  BY <1>2 DEF NewSession, Kept
<1>3. CASE TypePrompt(o) \/ PasteBuffer(o)
  BY <1>3 DEF TypePrompt, PasteBuffer, Prompts, Kept
<1>. QED
  BY <1>1, <1>2, <1>3, EnterKept, EscapeKept, CommandKept
     DEF OpStep, Launch, StartAgent, Inject, Barrier, SendClaude, WaitBanner,
         CheckSelfAdvanced, AcceptTrust, WaitReady, Scan, DismissPrompt, HandleOptionScreen,
         DismissOption, LoadBuffer, Submit

\* Claude moves an input away from under a command only by disturbing it.
LEMMA EnvironmentKept ==
  ASSUME TypeOK, ~crashed', Environment
  PROVE  /\ ~crashed /\ UNCHANGED <<pc, exit, line, submitted, buffer>>
         /\ disturbed \subseteq disturbed'
         /\ \A o \in Op : Engaging(o) /\ pc[o] \in Injecting /\ o \notin disturbed' =>
              /\ screen = "input" => screen' = "input"
              /\ screen = "option" => screen' = "option"
<1>. USE DEF paneVars, agentVars, waitVars
<1>1. CASE ClaudeShows \/ TrustPasses \/ Redraw \/ AgentArms
  BY <1>1 DEF ClaudeShows, TrustPasses, Redraw, AgentArms
<1>2. CASE OptionAppears
  BY <1>2 DEF OptionAppears
<1>3. CASE ClaudeExits \/ Stop
  BY <1>3 DEF ClaudeExits, Stop
<1>. QED
  BY <1>1, <1>2, <1>3 DEF Environment

LEMMA DisturbedGrows ==
  ASSUME NEW o \in Op, OpStep(o)
  PROVE  disturbed \subseteq disturbed' /\ crashed' = crashed
BY DEF OpStep, Launch, StartAgent, Inject, NewSession, Barrier, SendClaude, WaitBanner,
       CheckSelfAdvanced, AcceptTrust, WaitReady, Scan, DismissPrompt, HandleOptionScreen,
       DismissOption, TypePrompt, LoadBuffer, PasteBuffer, Submit, agentVars

\* The stepping command's own claims
LEMMA OwnStep ==
  ASSUME TypeOK, SessionInv, SubmitInv, ~crashed, NEW o \in Op, OpStep(o), Kept,
         Engaging(o), o \notin disturbed
  PROVE  Claims(o)'
<1>. USE DEF paneVars, agentVars, waitVars
<1>1. Claims(o) /\ (o \in submitted => o \in submitted')
  BY DEF SubmitInv, Kept
<1>2. CASE Submit(o)
  <2>1. pc[o] = "enter" /\ pc'[o] = "done"
    BY <1>2 DEF Submit, Finish, Goto, TypeOK
  <2>2. o \in submitted'
    BY <1>1, <1>2, <2>1 DEF Claims, Submit, Enter
  <2>. QED
    BY <2>1, <2>2 DEF Claims
<1>3. CASE TypePrompt(o)
  <2>1. pc[o] = "inject" /\ pc'[o] = "enter" /\ UNCHANGED <<exit, screen>>
    BY <1>3 DEF TypePrompt, Goto, Prompts, TypeOK
  <2>2. o \in line'
    BY <1>1, <1>3, <2>1 DEF Claims, TypePrompt, Prompts
  <2>. QED
    BY <1>1, <2>1, <2>2 DEF Claims
<1>4. CASE LoadBuffer(o)
  <2>1. pc[o] = "inject" /\ pc'[o] = "paste" /\ UNCHANGED <<exit, screen>>
    BY <1>4 DEF LoadBuffer, Goto, TypeOK
  <2>2. buffer' = {o}
    BY <1>1, <1>4, <2>1 DEF Claims, LoadBuffer
  <2>. QED
    BY <1>1, <2>1, <2>2 DEF Claims
<1>5. CASE PasteBuffer(o)
  <2>1. pc[o] = "paste" /\ pc'[o] = "enter" /\ UNCHANGED <<exit, screen>>
    BY <1>5 DEF PasteBuffer, Goto, Prompts, TypeOK
  <2>2. o \in line'
    BY <1>1, <1>5, <2>1 DEF Claims, PasteBuffer, Prompts
  <2>. QED
    BY <1>1, <2>1, <2>2 DEF Claims
<1>6. CASE DismissOption(o)
  <2>1. pc[o] = "optEscape" /\ pc'[o] = "inject" /\ exit' = exit
    BY <1>6 DEF DismissOption, Goto, TypeOK
  <2>2. screen' = "input"
    BY <1>1, <1>6, <2>1 DEF Claims, DismissOption, Escape
  <2>. QED
    BY <1>1, <2>1, <2>2 DEF Claims
<1>7. CASE HandleOptionScreen(o)
  <2>1. screen' = screen /\ pc[o] = "option"
    BY <1>7 DEF HandleOptionScreen, Goto, Finish
  <2>2. pc'[o] \in {"optEscape", "inject", "done"}
    BY <1>7 DEF HandleOptionScreen, Goto, Finish, TypeOK
  <2>3. pc'[o] = "optEscape" => screen = "option"
    BY <1>7, <2>1 DEF HandleOptionScreen, Goto, Finish, TypeOK
  <2>4. exit'[o] = "engaged" => exit[o] = "engaged"
    BY <1>7 DEF HandleOptionScreen, Finish, TypeOK
  <2>5. pc'[o] = "inject" => screen = "input"
    <3>1. screen \in InputScreen
      BY <2>1 DEF SessionInv, AtInput
    <3>2. pc'[o] = "inject" => screen \notin OptionScreen
      BY <1>7, <2>1 DEF HandleOptionScreen, Goto, Finish, TypeOK, OptionScreen
    <3>. QED
      BY <3>1, <3>2 DEF InputScreen
  <2>. QED
    BY <1>1, <2>1, <2>2, <2>3, <2>4, <2>5 DEF Claims
<1>8. CASE \/ Launch(o) \/ StartAgent(o) \/ NewSession(o) \/ Barrier(o) \/ SendClaude(o)
           \/ WaitBanner(o) \/ CheckSelfAdvanced(o) \/ AcceptTrust(o) \/ WaitReady(o)
           \/ Scan(o) \/ DismissPrompt(o)
  <2>1. pc'[o] \notin {"inject", "paste", "enter", "optEscape"}
    <3>1. CASE Launch(o) \/ StartAgent(o) \/ NewSession(o) \/ Barrier(o) \/ SendClaude(o)
      BY <3>1 DEF Launch, StartAgent, NewSession, Barrier, SendClaude, Goto, Finish, TypeOK
    <3>2. CASE WaitBanner(o) \/ CheckSelfAdvanced(o) \/ AcceptTrust(o) \/ WaitReady(o)
      BY <3>2 DEF WaitBanner, CheckSelfAdvanced, AcceptTrust, WaitReady, Goto, Finish, TypeOK
    <3>3. CASE Scan(o) \/ DismissPrompt(o)
      BY <3>3 DEF Scan, DismissPrompt, NextAttempt, Goto, Finish, TypeOK
    <3>. QED
      BY <1>8, <3>1, <3>2, <3>3
  <2>2. exit'[o] = "engaged" => exit[o] = "engaged"
    <3>1. CASE Launch(o) \/ StartAgent(o) \/ NewSession(o) \/ Barrier(o) \/ SendClaude(o)
      BY <3>1 DEF Launch, StartAgent, NewSession, Barrier, SendClaude, Finish, TypeOK
    <3>2. CASE WaitBanner(o) \/ CheckSelfAdvanced(o) \/ AcceptTrust(o) \/ WaitReady(o)
      BY <3>2 DEF WaitBanner, CheckSelfAdvanced, AcceptTrust, WaitReady, Finish, TypeOK
    <3>3. CASE Scan(o) \/ DismissPrompt(o)
      BY <3>3 DEF Scan, DismissPrompt, NextAttempt, Finish, TypeOK
    <3>. QED
      BY <1>8, <3>1, <3>2, <3>3
  <2>. QED
    BY <1>1, <2>1, <2>2 DEF Claims
<1>9. ~Inject(o)
  BY DEF Inject, Engaging
<1>. QED
  BY <1>2, <1>3, <1>4, <1>5, <1>6, <1>7, <1>8, <1>9 DEF OpStep

\* What the step of one command leaves of the others' claims
LEMMA OtherStep ==
  ASSUME TypeOK, SubmitInv, ~crashed, NEW q \in Op, OpStep(q), Kept,
         NEW o \in Op, o # q, Engaging(o), o \notin disturbed'
  PROVE  Claims(o)'
<1>. USE DEF paneVars, agentVars, waitVars
<1>1. Claims(o)
  BY DisturbedGrows DEF SubmitInv
<1>2. pc'[o] = pc[o]
  BY OpAdvance
<1>3. exit'[o] = exit[o]
  BY DEF OpStep, Launch, StartAgent, Inject, NewSession, Barrier, SendClaude, WaitBanner,
         CheckSelfAdvanced, AcceptTrust, WaitReady, Scan, DismissPrompt, NextAttempt,
         HandleOptionScreen, DismissOption, TypePrompt, LoadBuffer, PasteBuffer, Submit,
         Finish, TypeOK
<1>4. pc[o] = "paste" => buffer' = buffer
  <2>1. SUFFICES ASSUME pc[o] = "paste" PROVE buffer' = buffer
    OBVIOUS
  <2>2. o \in OthersPasting(q)
    BY <2>1 DEF OthersPasting
  <2>3. ~LoadBuffer(q) /\ ~PasteBuffer(q)
    BY <2>2 DEF LoadBuffer, PasteBuffer
  <2>. QED
    BY <2>3
       DEF OpStep, Launch, StartAgent, Inject, NewSession, Barrier, SendClaude, WaitBanner,
           CheckSelfAdvanced, AcceptTrust, WaitReady, Scan, DismissPrompt,
           HandleOptionScreen, DismissOption, TypePrompt, Submit
<1>5. pc[o] = "enter" => o \in submitted' \cup line'
  BY <1>1 DEF Claims, Kept
<1>. QED
  BY <1>1, <1>2, <1>3, <1>4, <1>5 DEF Claims, Kept

LEMMA SubmitNext ==
  ASSUME TypeOK, SessionInv, SubmitInv, [Next]_vars
  PROVE  SubmitInv'
<1>1. CASE UNCHANGED vars
  BY <1>1 DEF vars, paneVars, agentVars, waitVars, SubmitInv, Claims
<1>2. CASE Environment
  <2>1. UNCHANGED pc
    BY <1>2 DEF Environment, ClaudeShows, TrustPasses, OptionAppears, Redraw, AgentArms,
                ClaudeExits, Stop, paneVars, agentVars, waitVars
  <2>2. ASSUME ~crashed', NEW o \in Op, Engaging(o), o \notin disturbed'
        PROVE  Claims(o)'
    <3>1. /\ ~crashed /\ UNCHANGED <<pc, exit, line, submitted, buffer>>
          /\ o \notin disturbed
          /\ pc[o] \in Injecting => /\ screen = "input" => screen' = "input"
                                    /\ screen = "option" => screen' = "option"
      BY <1>2, <2>2, EnvironmentKept
    <3>2. Claims(o)
      BY <2>2, <3>1 DEF SubmitInv
    <3>. QED
      BY <3>1, <3>2 DEF Claims, Injecting
  <2>. QED
    BY <2>1, <2>2 DEF SubmitInv
<1>3. ASSUME NEW q \in Op, OpStep(q)
      PROVE  SubmitInv'
  <2>1. Kept /\ disturbed \subseteq disturbed' /\ crashed' = crashed
    BY <1>3, OpKept, DisturbedGrows
  <2>2. ASSUME NEW o \in Op, pc'[o] = "paste" PROVE Engaging(o)
    <3>1. CASE o = q
      BY <1>3, <2>2, <3>1
         DEF OpStep, Launch, StartAgent, Inject, NewSession, Barrier, SendClaude, WaitBanner,
             CheckSelfAdvanced, AcceptTrust, WaitReady, Scan, DismissPrompt, NextAttempt,
             HandleOptionScreen, DismissOption, TypePrompt, LoadBuffer, PasteBuffer, Submit,
             Goto, Finish, TypeOK, SubmitInv
    <3>2. CASE o # q
      BY <1>3, <2>2, <3>2, OpAdvance DEF SubmitInv
    <3>. QED
      BY <3>1, <3>2
  <2>3. ASSUME ~crashed', NEW o \in Op, Engaging(o), o \notin disturbed'
        PROVE  Claims(o)'
    BY <1>3, <2>1, <2>3, OwnStep, OtherStep
  <2>. QED
    BY <2>2, <2>3 DEF SubmitInv
<1>. QED
  BY <1>1, <1>2, <1>3 DEF Next

\* A launch or start-agent that ends engaged has had its prompt submitted, whatever
\* other commands type and whatever claude shows, unless an option screen came after its
\* look for one or another command's buffer came between its load and its paste.
THEOREM EngagedSubmits == Spec => []EngagedMeansSubmitted
<1>1. Init => SubmitInv
  BY DEF Init, SubmitInv, Claims
<1>2. TypeOK /\ SessionInv /\ SubmitInv /\ [Next]_vars => SubmitInv'
  BY SubmitNext
<1>3. SubmitInv => EngagedMeansSubmitted
  BY DEF SubmitInv, Claims, EngagedMeansSubmitted
<1>. QED
  BY <1>1, <1>2, <1>3, SessionAlways, TypeCorrect, PTL DEF Spec

-----------------------------------------------------------------------------
(* The deadlines *)

Amount(p, polls) == Ahead[p] + Budget(p, polls)

LEMMA Amounts ==
  ASSUME NEW n \in 0..Polls
  PROVE  /\ Amount("idle", n) = 16 + 5 * Polls /\ Amount("session", n) = 15 + 5 * Polls
         /\ Amount("messaging", n) = 14 + 5 * Polls /\ Amount("vault", n) = 13 + 5 * Polls
         /\ Amount("claude", n) = 12 + 5 * Polls
         /\ Amount("selfAdvanced", n) = 11 + 3 * Polls + 2 * n
         /\ Amount("banner", n) = 10 + 3 * Polls + 2 * n
         /\ Amount("accept", n) = 9 + 3 * Polls
         /\ Amount("scan", n) = 8 + 3 * n /\ Amount("escape", n) = 7 + 3 * n
         /\ Amount("ready", n) = 6 + 3 * n
         /\ Amount("option", n) = 5 /\ Amount("optEscape", n) = 4 /\ Amount("inject", n) = 3
         /\ Amount("paste", n) = 2 /\ Amount("enter", n) = 1 /\ Amount("done", n) = 0
<1>0. Polls \in Nat /\ n \in Nat
  BY PollsAssumption
<1>1. /\ Budget("idle", n) = 5 * Polls /\ Budget("session", n) = 5 * Polls
      /\ Budget("messaging", n) = 5 * Polls /\ Budget("vault", n) = 5 * Polls
      /\ Budget("claude", n) = 5 * Polls
  BY DEF Budget
<1>2. /\ Budget("selfAdvanced", n) = 3 * Polls + 2 * n
      /\ Budget("banner", n) = 3 * Polls + 2 * n /\ Budget("accept", n) = 3 * Polls
  BY DEF Budget
<1>3. /\ Budget("scan", n) = 3 * n /\ Budget("escape", n) = 3 * n /\ Budget("ready", n) = 3 * n
  BY DEF Budget
<1>4. /\ Budget("option", n) = 0 /\ Budget("optEscape", n) = 0 /\ Budget("inject", n) = 0
      /\ Budget("paste", n) = 0 /\ Budget("enter", n) = 0 /\ Budget("done", n) = 0
  BY DEF Budget
<1>. QED
  BY <1>0, <1>1, <1>2, <1>3, <1>4 DEF Amount, Ahead

\* What is left is a number for every statement, and less for every later one.
LEMMA AmountType ==
  ASSUME NEW p \in Pcs, NEW n \in 0..Polls
  PROVE  Amount(p, n) \in Nat
BY Amounts, PollsAssumption DEF Pcs

LEMMA Less ==
  ASSUME TypeOK, TypeOK', NEW o \in Op, Amount(pc'[o], left'[o]) < Amount(pc[o], left[o])
  PROVE  Remaining(o)' \in 0..(Remaining(o) - 1)
<1>1. Amount(pc[o], left[o]) \in Nat /\ Amount(pc'[o], left'[o]) \in Nat
  BY AmountType DEF TypeOK
<1>2. Remaining(o) = Amount(pc[o], left[o]) /\ Remaining(o)' = Amount(pc'[o], left'[o])
  BY DEF Remaining, Amount
<1>. QED
  BY <1>1, <1>2

\* A step of a command, by the statement it comes from and the one it goes to
LEMMA Straight ==
  ASSUME TypeOK, NEW o \in Op,
         \/ Launch(o) \/ StartAgent(o) \/ Inject(o) \/ NewSession(o) \/ Barrier(o)
         \/ HandleOptionScreen(o) \/ DismissOption(o) \/ TypePrompt(o) \/ LoadBuffer(o)
         \/ PasteBuffer(o) \/ Submit(o)
  PROVE  /\ left' = left
         /\ <<pc[o], pc'[o]>> \in
              {<<"idle", "session">>, <<"idle", "done">>, <<"idle", "inject">>,
               <<"session", "messaging">>, <<"session", "done">>, <<"messaging", "vault">>,
               <<"messaging", "done">>, <<"vault", "claude">>, <<"vault", "done">>,
               <<"option", "optEscape">>, <<"option", "done">>, <<"option", "inject">>,
               <<"optEscape", "inject">>, <<"inject", "enter">>, <<"inject", "paste">>,
               <<"paste", "enter">>, <<"enter", "done">>}
<1> USE DEF TypeOK, Goto, Finish, waitVars
<1>1. CASE Launch(o) \/ StartAgent(o) \/ Inject(o)
  BY <1>1 DEF Launch, StartAgent, Inject
<1>2. CASE NewSession(o)
  BY <1>2 DEF NewSession
<1>3. CASE Barrier(o)
  BY <1>3 DEF Barrier
<1>4. CASE HandleOptionScreen(o) \/ DismissOption(o)
  BY <1>4 DEF HandleOptionScreen, DismissOption
<1>5. CASE TypePrompt(o) \/ LoadBuffer(o) \/ PasteBuffer(o) \/ Submit(o)
  BY <1>5 DEF TypePrompt, LoadBuffer, PasteBuffer, Submit
<1>. QED
  BY <1>1, <1>2, <1>3, <1>4, <1>5

LEMMA Looping ==
  ASSUME TypeOK, NEW o \in Op,
         \/ SendClaude(o) \/ CheckSelfAdvanced(o) \/ AcceptTrust(o) \/ Scan(o)
         \/ DismissPrompt(o)
  PROVE  \/ pc[o] = "claude" /\ pc'[o] = "banner" /\ left'[o] = Polls
         \/ pc[o] = "accept" /\ pc'[o] = "ready" /\ left'[o] = Polls
         \/ pc[o] = "selfAdvanced" /\ pc'[o] = "option"
         \/ /\ left'[o] = left[o]
            /\ <<pc[o], pc'[o]>> \in
                 {<<"selfAdvanced", "banner">>,
                  <<"selfAdvanced", "done">>, <<"scan", "escape">>, <<"scan", "ready">>,
                  <<"scan", "done">>, <<"escape", "ready">>, <<"escape", "done">>}
<1> USE DEF TypeOK, Goto, Finish, waitVars, StartWait
<1>1. CASE SendClaude(o) \/ AcceptTrust(o)
  BY <1>1 DEF SendClaude, AcceptTrust
<1>2. CASE CheckSelfAdvanced(o)
  BY <1>2 DEF CheckSelfAdvanced
<1>3. CASE Scan(o)
  BY <1>3 DEF Scan, NextAttempt
<1>4. CASE DismissPrompt(o)
  BY <1>4 DEF DismissPrompt, NextAttempt
<1>. QED
  BY <1>1, <1>2, <1>3, <1>4

LEMMA Waiting ==
  ASSUME TypeOK, NEW o \in Op, WaitBanner(o) \/ WaitReady(o)
  PROVE  \/ pc' = pc /\ left' = left /\ seen[o] # screen /\ seen'[o] = screen
         \/ <<pc[o], pc'[o]>> \in {<<"banner", "accept">>, <<"ready", "option">>}
         \/ /\ left[o] > 0 /\ left'[o] \in 0..(left[o] - 1)
            /\ <<pc[o], pc'[o]>> \in {<<"banner", "selfAdvanced">>, <<"ready", "scan">>}
<1> USE DEF TypeOK, Goto, waitVars
<1>1. CASE WaitBanner(o)
  <2>1. CASE screen = "trust" /\ Goto(o, "banner", "accept") /\ LoopOver(o)
    BY <2>1
  <2>2. CASE pc' = pc /\ seen[o] # screen /\ Progress(o)
    BY <2>2 DEF Progress
  <2>3. CASE Goto(o, "banner", "selfAdvanced") /\ Idle(o)
    BY <2>3 DEF Idle, StartWait
  <2>. QED
    BY <1>1, <2>1, <2>2, <2>3 DEF WaitBanner
<1>2. CASE WaitReady(o)
  <2>1. CASE Goto(o, "ready", "option") /\ LoopOver(o)
    BY <2>1
  <2>2. CASE pc' = pc /\ seen[o] # screen /\ Progress(o)
    BY <2>2 DEF Progress
  <2>3. CASE Goto(o, "ready", "scan") /\ Idle(o)
    BY <2>3 DEF Idle, StartWait
  <2>. QED
    BY <1>2, <2>1, <2>2, <2>3 DEF WaitReady
<1>. QED
  BY <1>1, <1>2

LEMMA StepLess ==
  ASSUME TypeOK, TypeOK', NEW o \in Op, OpStep(o)
  PROVE  \/ Remaining(o)' \in 0..(Remaining(o) - 1)
         \/ pc' = pc /\ seen[o] # screen /\ seen'[o] = screen /\ Remaining(o)' = Remaining(o)
<1>0. left[o] \in 0..Polls /\ left'[o] \in 0..Polls /\ Polls \in Nat /\ Polls \in 0..Polls
  BY PollsAssumption DEF TypeOK
<1>1. CASE \/ Launch(o) \/ StartAgent(o) \/ Inject(o) \/ NewSession(o) \/ Barrier(o)
           \/ HandleOptionScreen(o) \/ DismissOption(o) \/ TypePrompt(o) \/ LoadBuffer(o)
           \/ PasteBuffer(o) \/ Submit(o)
  <2>1. Amount(pc'[o], left'[o]) < Amount(pc[o], left[o])
    BY <1>0, <1>1, Straight, Amounts
  <2>. QED
    BY <2>1, Less
<1>2. CASE \/ SendClaude(o) \/ CheckSelfAdvanced(o) \/ AcceptTrust(o) \/ Scan(o)
           \/ DismissPrompt(o)
  <2>1. Amount(pc'[o], left'[o]) < Amount(pc[o], left[o])
    BY <1>0, <1>2, Looping, Amounts
  <2>. QED
    BY <2>1, Less
<1>3. CASE WaitBanner(o) \/ WaitReady(o)
  <2>1. CASE pc' = pc /\ left' = left /\ seen[o] # screen /\ seen'[o] = screen
    BY <2>1 DEF Remaining
  <2>2. CASE <<pc[o], pc'[o]>> \in {<<"banner", "accept">>, <<"ready", "option">>}
    <3>1. Amount(pc'[o], left'[o]) < Amount(pc[o], left[o])
      BY <1>0, <2>2, Amounts
    <3>. QED
      BY <3>1, Less
  <2>3. CASE /\ left[o] > 0 /\ left'[o] \in 0..(left[o] - 1)
             /\ <<pc[o], pc'[o]>> \in {<<"banner", "selfAdvanced">>, <<"ready", "scan">>}
    <3>1. Amount(pc'[o], left'[o]) < Amount(pc[o], left[o])
      BY <1>0, <2>3, Amounts
    <3>. QED
      BY <3>1, Less
  <2>. QED
    BY <1>3, <2>1, <2>2, <2>3, Waiting
<1>. QED
  BY <1>1, <1>2, <1>3 DEF OpStep

\* A command makes at most 16 + 5 * Polls steps that are not captures of a pane that has
\* just changed, for any number of commands, any screens and any fault: only a pane that is
\* redrawn again and again keeps a command beyond its deadlines.
THEOREM DeadlinesBind == Spec => DeadlinesKept
<1>1. TypeOK /\ TypeOK' /\ [Next]_vars
        => \A o \in Op : OpStep(o) =>
             \/ Remaining(o)' \in 0..(Remaining(o) - 1)
             \/ pc' = pc /\ seen[o] # screen /\ seen'[o] = screen /\ Remaining(o)' = Remaining(o)
  BY StepLess
<1>. QED
  BY <1>1, TypeCorrect, PTL DEF Spec, DeadlinesKept
=============================================================================
