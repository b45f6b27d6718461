SPECIFICATION FairSpec
CONSTANTS
  Daemon = {1, 2, 3}
  Key = {"n/a", "m/b"}
  Host = {"h1", "h2"}
  HostOf <- TwoHosts
  NamespaceOf <- Namespaces
  Proc = {1, 2}
  Msg = {"m"}
  Claimed = {"n/a"}
  Budgets <- SomeBudgets
INVARIANTS HolderNamed OwnNamespace
PROPERTIES NotBlocked Reaches
CHECK_DEADLOCK FALSE
