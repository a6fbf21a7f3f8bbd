\* Three threads and one exporter; contexts of depth two are copied, copies are copied again.
SPECIFICATION Spec
CONSTANTS
  t1 = t1 t2 = t2 t3 = t3
  Threads = {t1, t2, t3}
  MaxContexts = 3
  MaxTraces = 1
  MaxSpans = 4
  MaxChanged = 2
  SpanNames = {"span"}
  Services = {"Unknown", "service"}
  Exporter = "directZipkin"
  ZipkinUp = TRUE
  MaxFailures = 0
  MaxTime = 0
INVARIANTS TypeOK SpansPrivate ChainLinked ExportedOnce
PROPERTIES ClosedFrozen
SYMMETRY Symmetry
CHECK_DEADLOCK FALSE
