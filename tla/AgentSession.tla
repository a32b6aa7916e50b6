---------------------------- MODULE AgentSession ----------------------------
(***************************************************************************)
(* The tmux engage tier: `launch`, `start-agent` and `inject` driving one  *)
(* BC container's tmux session "agent"                                     *)
(* (controller/_agent_session.py, controller/_engage.py, readiness.py,     *)
(* driver/real.py).                                                        *)
(*                                                                         *)
(* Each operator command is a host process; the session, the claude in it  *)
(* and the container are shared.  A command sees the session only through  *)
(* captures of the pane and acts on it only by typing keys, and anything   *)
(* may happen between a capture and the keys it leads to.  Claude is       *)
(* external: what it shows and what its screens do with a key is modelled  *)
(* from how the launcher's code and comments describe it.                  *)
(*                                                                         *)
(* A key typed while claude renders its next screen is lost; the case in   *)
(* which claude reads it later is the one in which it is typed later.      *)
(***************************************************************************)
EXTENDS Naturals

CONSTANTS
  Op,          \* operator commands, each run once
  Kind,        \* [Op -> {"launch", "start", "inject"}]
  Prompted,    \* the commands whose startup prompt is not empty
  Oversized,   \* those whose prompt exceeds MAX_ARG_STRLEN
  Startup,     \* screens this claude may show before its input
  Options,     \* option screens it may show over its input
  SelfAdvance, \* claude may pass the workspace-trust screen by itself
  Faults,      \* what may go wrong in this instance
  Polls        \* readiness timeout / poll budget (60 s / 5 s = 12)

StartupScreen == {"renderer", "trust", "prompt"}
OptionScreen  == {"option", "Option", "hardOption"}  \* "esc to", "Esc to", neither
ClaudeScreen  == {"boot", "input"} \cup StartupScreen \cup OptionScreen
Screen        == {"none", "shell"} \cup ClaudeScreen

ASSUME KindAssumption == Kind \in [Op -> {"launch", "start", "inject"}]
ASSUME PromptAssumption == Oversized \subseteq Prompted /\ Prompted \subseteq Op
ASSUME ScreenAssumption == Startup \subseteq StartupScreen /\ Options \subseteq OptionScreen
ASSUME SessionFlagAssumption == SelfAdvance \in BOOLEAN
ASSUME SessionFaultAssumption == Faults \subseteq {"probe", "exit", "stop"}
ASSUME PollsAssumption == Polls \in Nat \ {0}

VARIABLES
  up,         \* the container runs
  screen,     \* what the session's pane shows
  todo,       \* startup screens this claude has still to show
  line,       \* whose prompts are on the input line (of bash, or of claude)
  submitted,  \* whose prompts claude has been given
  armed,      \* the agent's `shop-msg watch` runs
  buffer,     \* tmux buffer "bc-startup-prompt": whose prompt, if any
  pc,         \* per command: where it stands
  seen,       \* per command: last_pane of its wait, "changed" when the pane has moved on
  left,       \* per command: poll budgets left before the deadline
  exit,       \* per command: how it ended
  crashed,    \* claude or the container was killed (history)
  disturbed   \* commands that lost their input or buffer after looking (history)

paneVars == <<screen, todo, line, submitted>>
agentVars == <<up, armed, buffer, crashed, disturbed>>
waitVars == <<seen, left>>
vars == <<paneVars, agentVars, pc, waitVars, exit>>

Pcs == {"idle", "session", "messaging", "vault", "claude", "banner", "selfAdvanced",
        "accept", "ready", "scan", "escape", "option", "optEscape", "inject", "paste",
        "enter", "done"}
Exits == {"none", "notRunning", "online", "optOut", "messaging-db", "agent-vault",
          "agent-startup", "readiness", "refused", "engaged"}

Engaging(o) == Kind[o] # "inject"
Goto(o, from, to) == pc[o] = from /\ pc' = [pc EXCEPT ![o] = to]
Finish(o, from, result) == Goto(o, from, "done") /\ exit' = [exit EXCEPT ![o] = result]

\* mutant of StartWait: the deadline one poll late
StartWaitLate(o, n) ==
  /\ seen' = [seen EXCEPT ![o] = "changed"]
  /\ left' = [left EXCEPT ![o] = n + 1]

StartWait(o, n) ==
  /\ seen' = [seen EXCEPT ![o] = "changed"]
  /\ left' = [left EXCEPT ![o] = n]

\* a loop is left, and its deadline with it
LoopOver(o) == StartWait(o, 0)

Init ==
  /\ up = TRUE /\ screen = "none" /\ todo = {}
  /\ line = {} /\ submitted = {} /\ armed = FALSE /\ buffer = {}
  /\ pc = [o \in Op |-> "idle"] /\ seen = [o \in Op |-> "changed"]
  /\ left = [o \in Op |-> 0] /\ exit = [o \in Op |-> "none"]
  /\ crashed = FALSE /\ disturbed = {}

-----------------------------------------------------------------------------
(* Keys: what one `tmux send-keys` does to the pane.  Without a session, or *)
(* without a container, it fails, and no caller looks.                      *)

\* bash runs its line, claude's input takes it, a blocking screen takes the
\* option it highlights.
Enter ==
  /\ screen' = CASE screen \in StartupScreen -> "boot"
                 [] screen \in OptionScreen -> "input"
                 [] OTHER -> screen
  /\ line' = IF screen \in {"shell", "input"} THEN {} ELSE line
  /\ submitted' = IF screen = "input" THEN submitted \cup line ELSE submitted
  /\ UNCHANGED <<todo, armed>>

\* A screen that offers Esc is declined; the trust screen takes it as "no" and
\* claude exits to the shell.
Escape ==
  /\ screen' = CASE screen \in {"renderer", "prompt"} -> "boot"
                 [] screen \in {"option", "Option"} -> "input"
                 [] screen = "trust" -> "shell"
                 [] OTHER -> screen
  /\ todo' = IF screen = "trust" THEN {} ELSE todo
  /\ armed' = (armed /\ screen # "trust")
  /\ UNCHANGED <<line, submitted>>

Prompts(ops) ==
  /\ line' = IF screen \in {"shell", "input"} THEN line \cup ops ELSE line
  /\ UNCHANGED <<screen, todo, submitted, armed>>

\* The claude command and its Enter, in one send-keys: bash starts claude unless
\* something was on its line already; whatever else is on the pane is typed into.
Command ==
  \/ /\ screen = "shell" /\ line = {}
     /\ screen' = "boot" /\ todo' \in SUBSET Startup
     /\ UNCHANGED <<line, submitted, armed>>
  \/ ~(screen = "shell" /\ line = {}) /\ Enter

-----------------------------------------------------------------------------
(* Claude and the container *)

\* startup screens come in this order, then the input
ShowOrder == [s \in StartupScreen |-> CASE s = "renderer" -> 1 [] s = "trust" -> 2
                                        [] s = "prompt" -> 3]

ClaudeShows ==
  /\ screen = "boot"
  /\ \/ \E s \in todo :
          /\ \A t \in todo : ShowOrder[s] <= ShowOrder[t]
          /\ screen' = s /\ todo' = todo \ {s}
     \/ todo = {} /\ screen' = "input" /\ todo' = todo
  /\ UNCHANGED <<line, submitted, agentVars, pc, waitVars, exit>>

TrustPasses ==
  /\ SelfAdvance /\ screen = "trust" /\ screen' = "boot"
  /\ UNCHANGED <<todo, line, submitted, agentVars, pc, waitVars, exit>>

\* the steps of a command from its look for an option screen to its last key
Injecting == {"optEscape", "inject", "paste", "enter"}

\* It may come at any time, between a command's look for one and its keys too.
OptionAppears ==
  /\ screen = "input" /\ screen' \in Options
  /\ disturbed' = disturbed \cup {o \in Op : Engaging(o) /\ pc[o] \in Injecting}
  /\ UNCHANGED <<todo, line, submitted, up, armed, buffer, crashed, pc, waitVars, exit>>

\* What is shown then differs from every capture made so far.
Redraw ==
  /\ screen \in {"boot", "input"}
  /\ seen' = [o \in Op |-> "changed"]
  /\ UNCHANGED <<paneVars, agentVars, pc, left, exit>>

\* the default startup prompt tells the agent to arm its inbox watcher
AgentArms ==
  /\ screen \in {"input"} \cup OptionScreen
  /\ ~armed /\ submitted # {}
  /\ armed' = TRUE
  /\ UNCHANGED <<paneVars, up, buffer, crashed, disturbed, pc, waitVars, exit>>

ClaudeExits ==
  /\ "exit" \in Faults
  /\ screen \in ClaudeScreen /\ screen' = "shell"
  /\ todo' = {} /\ line' = {} /\ submitted' = {} /\ armed' = FALSE /\ crashed' = TRUE
  /\ UNCHANGED <<up, buffer, disturbed, pc, waitVars, exit>>

Stop ==
  /\ "stop" \in Faults
  /\ up /\ up' = FALSE
  /\ screen' = "none" /\ todo' = {} /\ line' = {} /\ submitted' = {}
  /\ armed' = FALSE /\ buffer' = {} /\ crashed' = TRUE
  /\ UNCHANGED <<disturbed, pc, waitVars, exit>>

-----------------------------------------------------------------------------
(* Mutants: the mistakes the properties are there to catch *)

\* any screen of claude counts as up
SelfAdvancedTooSoon(o) ==
  /\ \/ /\ screen \in ClaudeScreen
        /\ Goto(o, "selfAdvanced", "option") /\ UNCHANGED <<waitVars, exit>>
     \/ /\ screen \notin ClaudeScreen
        /\ Finish(o, "selfAdvanced", "agent-startup") /\ UNCHANGED waitVars
  /\ UNCHANGED <<paneVars, agentVars>>

\* the first loop declines blocking prompts too, and goes on to the second
SelfAdvancedEscape(o) ==
  /\ \/ screen = "input" /\ Goto(o, "selfAdvanced", "option") /\ UNCHANGED <<waitVars, exit>>
     \/ /\ screen \in {"renderer", "prompt"}
        /\ Goto(o, "selfAdvanced", "escape") /\ UNCHANGED <<waitVars, exit>>
     \/ /\ screen \notin {"input", "renderer", "prompt"} /\ left[o] > 0
        /\ Goto(o, "selfAdvanced", "banner") /\ StartWait(o, left[o]) /\ UNCHANGED exit
     \/ /\ screen \notin {"input", "renderer", "prompt"} /\ left[o] = 0
        /\ Finish(o, "selfAdvanced", "agent-startup") /\ UNCHANGED waitVars
  /\ UNCHANGED <<paneVars, agentVars>>

\* only the one prompt with a known signature is recognised
BlockingPromptRenderer == screen = "renderer"

\* the deadline is computed again for every attempt
NextAttemptAfresh(o, from) ==
  Goto(o, from, "ready") /\ StartWait(o, Polls) /\ UNCHANGED exit

\* no look for an option screen
NoOptionCheck(o) ==
  /\ Goto(o, "option", "inject")
  /\ UNCHANGED <<paneVars, agentVars, waitVars, exit>>

-----------------------------------------------------------------------------
(* The commands *)

\* launch, its container provisioned, reaches _start_agent_session
Launch(o) ==
  /\ Kind[o] = "launch" /\ Goto(o, "idle", "session")
  /\ UNCHANGED <<paneVars, agentVars, waitVars, exit>>

\* agent_online: the session, a claude process and its armed watch are there
Online == screen \in ClaudeScreen /\ armed

\* start-agent: refused without a container, a no-op when the agent is online
StartAgent(o) ==
  /\ Kind[o] = "start"
  /\ \/ ~up /\ Finish(o, "idle", "notRunning")
     \/ up /\ Online /\ Finish(o, "idle", "online")
     \/ up /\ ~Online /\ Goto(o, "idle", "session") /\ UNCHANGED exit
  /\ UNCHANGED <<paneVars, agentVars, waitVars>>

\* inject looks at nothing
Inject(o) ==
  /\ Kind[o] = "inject" /\ Goto(o, "idle", "inject")
  /\ UNCHANGED <<paneVars, agentVars, waitVars, exit>>

\* tmux new-session, which fails on an existing session, and nobody looks;
\* without a prompt that is all
NewSession(o) ==
  /\ IF o \in Prompted
     THEN Goto(o, "session", "messaging") /\ UNCHANGED exit
     ELSE Finish(o, "session", "optOut")
  /\ screen' = IF up /\ screen = "none" THEN "shell" ELSE screen
  /\ UNCHANGED <<todo, line, submitted, agentVars, waitVars>>

\* the two readiness barriers; both probe from inside the container, and without
\* a DSN the first one is not probed at all
Barrier(o) ==
  /\ \/ /\ Goto(o, "messaging", "vault") \/ (up /\ Goto(o, "vault", "claude"))
        /\ UNCHANGED exit
     \/ /\ ~up \/ "probe" \in Faults
        /\ Finish(o, "messaging", "messaging-db") \/ Finish(o, "vault", "agent-vault")
  /\ UNCHANGED <<paneVars, agentVars, waitVars>>

SendClaude(o) ==
  /\ Goto(o, "claude", "banner")
  /\ Command
  /\ StartWait(o, Polls)
  /\ UNCHANGED <<up, buffer, crashed, disturbed, exit>>

\* wait_for_pane_marker: a capture that differs from the last one restarts the
\* idle budget; one that does not may exhaust it, which costs at least one budget
Progress(o) ==
  /\ seen' = [seen EXCEPT ![o] = screen] /\ left' = left
Idle(o) ==
  /\ seen[o] = screen
  /\ \E n \in 0..(left[o] - 1) : StartWait(o, n)

\* first loop: the trust banner, or else a claude already at its input
WaitBanner(o) ==
  /\ \/ screen = "trust" /\ Goto(o, "banner", "accept") /\ LoopOver(o)
     \/ /\ screen # "trust" /\ seen[o] # screen
        /\ pc[o] = "banner" /\ pc' = pc /\ Progress(o)
     \/ screen # "trust" /\ Goto(o, "banner", "selfAdvanced") /\ Idle(o)
  /\ UNCHANGED <<paneVars, agentVars, exit>>

CheckSelfAdvanced(o) ==
  /\ \/ screen = "input" /\ Goto(o, "selfAdvanced", "option") /\ LoopOver(o) /\ UNCHANGED exit
     \/ /\ screen # "input" /\ left[o] > 0
        /\ Goto(o, "selfAdvanced", "banner") /\ StartWait(o, left[o]) /\ UNCHANGED exit
     \/ /\ screen # "input" /\ left[o] = 0
        /\ Finish(o, "selfAdvanced", "agent-startup") /\ UNCHANGED waitVars
  /\ UNCHANGED <<paneVars, agentVars>>

AcceptTrust(o) ==
  /\ Goto(o, "accept", "ready")
  /\ Enter
  /\ StartWait(o, Polls)
  /\ UNCHANGED <<up, buffer, crashed, disturbed, exit>>

\* second loop: the input-ready marker, declining what blocks it
WaitReady(o) ==
  /\ \/ screen = "input" /\ Goto(o, "ready", "option") /\ LoopOver(o)
     \/ /\ screen # "input" /\ seen[o] # screen
        /\ pc[o] = "ready" /\ pc' = pc /\ Progress(o)
     \/ screen # "input" /\ Goto(o, "ready", "scan") /\ Idle(o)
  /\ UNCHANGED <<paneVars, agentVars, exit>>

\* _readiness_wait_blocking_prompt: offers Esc, in either case of the letter, and
\* is neither the trust screen nor the input
BlockingPrompt == screen \in {"renderer", "prompt", "option", "Option"}

\* to the next attempt, or out of the loop when the deadline has passed
NextAttempt(o, from) ==
  \/ left[o] > 0 /\ Goto(o, from, "ready") /\ StartWait(o, left[o]) /\ UNCHANGED exit
  \/ left[o] = 0 /\ Finish(o, from, "readiness") /\ UNCHANGED waitVars

Scan(o) ==
  /\ \/ BlockingPrompt /\ Goto(o, "scan", "escape") /\ UNCHANGED <<waitVars, exit>>
     \/ ~BlockingPrompt /\ NextAttempt(o, "scan")
  /\ UNCHANGED <<paneVars, agentVars>>

DismissPrompt(o) ==
  /\ NextAttempt(o, "escape")
  /\ Escape
  /\ UNCHANGED <<up, buffer, crashed, disturbed>>

\* _handle_option_screen: one capture; the affordance is matched as "esc to"
HandleOptionScreen(o) ==
  /\ \/ screen = "option" /\ Goto(o, "option", "optEscape") /\ UNCHANGED exit
     \/ screen \in {"Option", "hardOption"} /\ Finish(o, "option", "refused")
     \/ screen \notin OptionScreen /\ Goto(o, "option", "inject") /\ UNCHANGED exit
  /\ UNCHANGED <<paneVars, agentVars, waitVars>>

DismissOption(o) ==
  /\ Goto(o, "optEscape", "inject")
  /\ Escape
  /\ UNCHANGED <<up, buffer, crashed, disturbed, waitVars, exit>>

\* the prompt: two send-keys, or load-buffer, paste-buffer and an Enter
TypePrompt(o) ==
  /\ \/ Engaging(o) /\ o \notin Oversized
     \/ ~Engaging(o)
  /\ Goto(o, "inject", "enter")
  /\ Prompts({o})
  /\ UNCHANGED <<up, buffer, crashed, disturbed, waitVars, exit>>

\* the buffer has one name for all: these have loaded theirs and not pasted it
OthersPasting(o) == {p \in Op \ {o} : pc[p] = "paste"}

LoadBuffer(o) ==
  /\ Engaging(o) /\ o \in Oversized
  /\ Goto(o, "inject", "paste")
  /\ buffer' = IF screen = "none" THEN buffer ELSE {o}
  /\ disturbed' = disturbed \cup OthersPasting(o)
  /\ UNCHANGED <<paneVars, up, armed, crashed, waitVars, exit>>

PasteBuffer(o) ==
  /\ Goto(o, "paste", "enter")
  /\ Prompts(buffer)
  /\ buffer' = {} /\ disturbed' = disturbed \cup OthersPasting(o)
  /\ UNCHANGED <<up, crashed, waitVars, exit>>

Submit(o) ==
  /\ Finish(o, "enter", "engaged")
  /\ Enter
  /\ UNCHANGED <<up, buffer, crashed, disturbed, waitVars>>

OpStep(o) ==
  \/ Launch(o) \/ StartAgent(o) \/ Inject(o)
  \/ NewSession(o) \/ Barrier(o) \/ SendClaude(o)
  \/ WaitBanner(o) \/ CheckSelfAdvanced(o) \/ AcceptTrust(o)
  \/ WaitReady(o) \/ Scan(o) \/ DismissPrompt(o)
  \/ HandleOptionScreen(o) \/ DismissOption(o)
  \/ TypePrompt(o) \/ LoadBuffer(o) \/ PasteBuffer(o) \/ Submit(o)

Environment ==
  \/ ClaudeShows \/ TrustPasses \/ OptionAppears \/ Redraw \/ AgentArms
  \/ ClaudeExits \/ Stop

Next == Environment \/ \E o \in Op : OpStep(o)

Spec == Init /\ [][Next]_vars

\* a command that has begun runs on; nothing is asked of claude
FairSpec == Spec /\ \A o \in Op : WF_vars(pc[o] # "idle" /\ OpStep(o))

-----------------------------------------------------------------------------
\* The variables have their types.
TypeOK ==
  /\ up \in BOOLEAN /\ armed \in BOOLEAN /\ crashed \in BOOLEAN
  /\ screen \in Screen 
  /\ todo \subseteq StartupScreen
  /\ line \subseteq Op /\ submitted \subseteq Op /\ buffer \subseteq Op
  /\ pc \in [Op -> Pcs]
  /\ seen \in [Op -> Screen \cup {"changed"}]
  /\ left \in [Op -> 0..Polls]
  /\ exit \in [Op -> Exits]
  /\ disturbed \subseteq Op

-----------------------------------------------------------------------------
(* Safety *)

\* The startup prompt is typed into a claude past every startup screen, "the exact
\* state in which the user prompt can be safely injected"
\* (_agent_session.py:339-340): from its look for an option screen to its last
\* key, a launch or start-agent has claude's input, or an option screen over it,
\* in front of it, whatever other commands type meanwhile.
PromptOnlyAtInput ==
  ~crashed => \A o \in Op :
    Engaging(o) /\ pc[o] \in {"option"} \cup Injecting => screen \in {"input"} \cup OptionScreen

\* A launch or start-agent that exits 0 as engaged has had its prompt submitted to
\* claude (bc_container_prompt_submit.feature:16-19), alone or with what another command
\* typed on the same line.  The code loses it without a word in two cases, and the
\* property says that there is no third: an option screen came after the one look for it
\* (_engage.py:383) and took the keys, or another command's load or paste of the tmux
\* buffer came between the command's own (_agent_session.py:466).
EngagedMeansSubmitted ==
  ~crashed => \A o \in Op :
    Engaging(o) /\ exit[o] = "engaged"
      => o \in submitted \cup disturbed

-----------------------------------------------------------------------------
(* Steps *)

\* The trust screen is never dismissed with Esc (readiness.py:161-164), although
\* the Esc follows a capture that is old by then: it would end claude.
TrustNeverEscaped ==
  [][~crashed => \A o \in Op :
       DismissPrompt(o) \/ DismissOption(o) => screen # "trust"]_vars

\* What is left of a command: statements ahead of it, and polls until its deadlines
Ahead ==
  [idle |-> 16, session |-> 15, messaging |-> 14, vault |-> 13, claude |-> 12,
   selfAdvanced |-> 11, banner |-> 10, accept |-> 9, scan |-> 8, escape |-> 7, ready |-> 6,
   option |-> 5, optEscape |-> 4, inject |-> 3, paste |-> 2, enter |-> 1, done |-> 0]
Budget(p, polls) ==
  CASE p \in {"option", "optEscape", "inject", "paste", "enter", "done"} -> 0
    [] p \in {"ready", "escape", "scan"} -> 3 * polls
    [] p = "accept" -> 3 * Polls
    [] p \in {"banner", "selfAdvanced"} -> 3 * Polls + 2 * polls
    [] OTHER -> 5 * Polls
Remaining(o) == Ahead[pc[o]] + Budget(pc[o], left[o])

\* Both loops keep to their deadlines, whatever claude shows and other commands type:
\* each step of a command leaves less of it, declined prompts and further attempts
\* included.  One step leaves as much as there was: a capture of a pane that has changed
\* since the last one (driver/real.py:470), so that a claude that redraws again and again
\* within every budget takes the command past the total of _agent_session.py:351-352.
DeadlinesKept ==
  [][\A o \in Op : OpStep(o) =>
       \/ Remaining(o)' \in 0..(Remaining(o) - 1)
       \/ pc' = pc /\ seen[o] # screen /\ seen'[o] = screen /\ Remaining(o)' = Remaining(o)]_vars

-----------------------------------------------------------------------------
(* Liveness *)

\* A prompt that blocks a command waiting for the input-ready marker is dismissed
\* (bc_container_readiness_wait_prompt_escape.feature:8-9).
BlockingPromptDismissed ==
  \A o \in Op : screen = "prompt" /\ pc[o] \in {"ready", "scan"} ~> screen # "prompt"
=============================================================================
