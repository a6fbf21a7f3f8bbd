\* Starter tasks A and B, each with its dependant task.  Spans go to files; the clock may or may not
\* move between two of them.
SPECIFICATION FairSpec
CONSTANTS
  A = A B = B
  TaskNames = {A, B}
  SpanNames = {"Starter Span", "Nested Span"}
  Services = {"Unknown", "thread"}
  Exporter = "disk"
  ZipkinUp = FALSE
  MaxFailures = 1
  MaxTime = 1
INVARIANTS ChildrenFirst NothingThrown ContextPrivate SameTrace AllClosed SpanOnDiskIfAlone
PROPERTIES Finishes
