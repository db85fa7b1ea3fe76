CONSTANTS
  Loggers = {l1, l2, l3}
  Dirs = {d1}
SPECIFICATION Spec
INVARIANT OneLoggerPerDir
