CONSTANTS
  Programs = {"shell", "run_command", "tee", "walk", "filter", "tail", "read_line", "eventfd", "signalfd"}
  LINE_BUF_SIZE = 2
  TOKEN_BUF_SIZE = 1
  ShellMaxInput = 5
  MaxStops = 2
  Size = 3
  RunMaxInput = 5
  MaxSigint = 2
  MaxBytes = 4
  MaxFails = 2
  PATH_MAX = 8
  Args <- MCArgs
  Trees <- MCTrees
  Types = {"reg", "dir", "lnk"}
  FilterSize = 2
  Arguments <- MCArguments
  Missing = Missing
  Limits = {1, 2}
  MaxErrors = 1
  TailCount = 3
  Width = 4
  TailMaxInput = 8
  N = 4
  Expected <- MCExpected
  LineChars = {"f", "b"}
  LineMaxInput = 7
  Max64 = 3
  MaxArgs = 4
  MaxSignals = 3
SPECIFICATION FairSpec
INVARIANTS InBounds RunsInput NoChildAtPrompt WalkCounts TeeCopies Filters EventSum
PROPERTY Exits
