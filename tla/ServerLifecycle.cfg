\* Two servers and one descriptor less than they need.
SPECIFICATION Spec
CONSTANTS
  s1 = s1
  s2 = s2
  Servers <- MCServers
  MaxFd = 2
  Configs = {c1}
  Default = c1
  Unset = unset
  None = None
SYMMETRY Symmetry
\* Freed memory was used: nothing can be said of what follows.
CHECK_DEADLOCK FALSE
INVARIANTS
  DescriptorsHeld StopIsComplete RunningMeansRun NoDeafLoop SignalReaches
PROPERTIES
  DestroyReleases
