\* Two peers, one pane, and a tmux that may refuse one command.
CONSTANTS
  p1 = p1
  p2 = p2
  Peers = {p1, p2}
  High = 3
  Low = 1
  MaxOutput = 6
  MaxRefusals = 1
SPECIFICATION FairSpec
INVARIANTS
  PausedBelowLowIsResuming
  OneContinuePerEpisode
  BeliefMatchesTmux
PROPERTY
  PausedResumes
CHECK_DEADLOCK FALSE
