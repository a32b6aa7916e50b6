------------------------------- MODULE MCLaunch -------------------------------
(* A clone for tmux, a mount for fabro, an explicit network, and the other commands. *)
EXTENDS Launch, TLC

CONSTANTS c1, c2

Asked(cmd, source, tier, derived, carried) ==
  [cmd |-> cmd, source |-> source, tier |-> tier, derived |-> derived,
   dsn |-> cmd = "launch", carried |-> carried]

AllRequests ==
  {Asked("launch", "clone", "tmux", TRUE, TRUE), Asked("launch", "mount", "fabro", TRUE, TRUE),
   Asked("launch", "clone", "fabro", FALSE, FALSE), Asked("launch", "none", "tmux", TRUE, TRUE),
   Asked("start-agent", "none", "tmux", TRUE, FALSE), Asked("stop", "none", "tmux", TRUE, FALSE)}

\* one launch of a clone
CloneRequest == {Asked("launch", "clone", "tmux", TRUE, TRUE)}

CmdSymmetry == Permutations(Cmd)
=============================================================================
