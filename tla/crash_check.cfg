CONSTANTS
  Platforms = {"win", "linux"}
  LinuxSignals = {"SIGSEGV", "SIGABRT", "SIGINT"}
  Threads = {m, t1}
  Main = m
  StdlogChoices = {TRUE, FALSE}
  DumpChoices = {"None", "Full"}
  MaxDemands = 1
  MaxStarts = 2
SPECIFICATION Spec
CHECK_DEADLOCK FALSE
INVARIANT TypeOK
INVARIANT NoSelfWait
PROPERTY CrashTerminates
