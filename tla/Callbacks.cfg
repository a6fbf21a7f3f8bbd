\* Callbacks A and B, each called by a task; the Zipkin server may be down.
SPECIFICATION Spec
CONSTANTS
  A = A B = B
  CallbackNames = {A, B}
  SpanNames = {"Main Callback Span", "Task submission span", "Thread execution span"}
  Services = {"Unknown", "callback"}
  Exporter = "directZipkin"
  ZipkinUp = FALSE
  MaxFailures = 0
  MaxTime = 0
INVARIANTS NothingThrown ClosesItsOwn AllClosed
SYMMETRY Symmetry
