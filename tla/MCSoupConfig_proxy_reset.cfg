CONSTANTS
  NULL = NULL
  Missing = Missing
  Unset = Unset
  Junk = Junk
  c1 = c1
  c2 = c2
  Contexts = {c1, c2}
  ContextOf <- MCContextOf
  Limits = {0, 2}
  MaxAppRefs = 1
  SysFiles <- OnlySysEmpty
  UserFiles <- OnlyUserEmpty
  AppResetsProxy = TRUE
  MaxLoads = 1
SPECIFICATION Spec
CHECK_DEADLOCK FALSE
INVARIANT ProxyRefsSound
