CONSTANTS
  PageSize = 2
  Space = 24
  Path = {"pie", "dynamic", "static", "packed", "ld", "libc", "text"}
  File <- AllFiles
  Programs = {"pie", "dynamic", "static", "packed", "text"}
  Opened = {"libc", "text"}
  ExeBase = 8
  InterpBase = 14
  Inherited = {0}
  Fds = {0, 3}
  Targets = {14, 18}
  Sizes = {1, 4}
  MaxImages = 3
SPECIFICATION Spec
INVARIANT ExecutableIsDescribed
CHECK_DEADLOCK FALSE
