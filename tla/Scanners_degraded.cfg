SPECIFICATION Spec
CONSTANTS
  Trees <- SomeTrees
  Excludes <- SomeExcludes
  MaxDepth = 2
INVARIANTS
  EachSiteReportedOnce
  ErrorsStayLocal
  CleanExitMeansClean
