SPECIFICATION Spec
CONSTANTS
  Home <- HomeDir
  Guarded <- GuardedDirs
  Scaffold <- ScaffoldDirs
  Name = {"base", "child"}
  Command = {"c1", "c2"}
  Loader = {"l1"}
  Draft <- SomeDrafts
  Bundle <- SomeBundles
  NewMount <- SomeMounts
  Dir <- SomeDirs
  FirstFiles <- OnlyBase
  Budgets <- SomeBudgets
INVARIANTS ProfilesTypeOK OwnMounts ToolsStand Inherited
CHECK_DEADLOCK FALSE
