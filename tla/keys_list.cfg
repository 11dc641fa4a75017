SPECIFICATION Spec
CONSTANTS
  Orgs <- OrgSet
  Callers <- CallerSet
  Paths <- PathSet
  Envs <- EnvSet
  Names <- NameSet
  Rests <- RestSet
  Queries <- PrefixSet
  Args <- ArgSet
  Unsafe = {"x*"}
  Longer <- LongerSet
  None = None
  MaxRows = 2
INVARIANT ListReturnsAll
