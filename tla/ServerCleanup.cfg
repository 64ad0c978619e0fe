\* One server is enough.
SPECIFICATION Spec
CONSTANTS
  s1 = s1
  s2 = s2
  Servers <- MCServer
  MaxFd = 3
  Configs = {c1, c2}
  Default = c1
  Unset = unset
  None = None
\* Freed memory was used: nothing can be said of what follows.
CHECK_DEADLOCK FALSE
PROPERTIES
  CleanupReleases
