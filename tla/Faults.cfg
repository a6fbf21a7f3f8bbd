\* A remote server that serves two runs of an application; a class loaded by two loaders, a failing
\* transformation, an interceptor without bytecode, a dependency without bytes.
SPECIFICATION Spec
CONSTANTS
  t1 = t1 t2 = t2 Main = Main Task = Task Base = Base H1 = H1 H2 = H2 A1 = A1 I1 = I1 I2 = I2
  None = None VM = VM
  Threads = {t1, t2}
  Loaders = {"app", "plugin"}
  IgnoredLoaders = {}
  Classes <- Three
  Refs <- ThreeRefs
  Helpers = {H1, H2}
  Auxiliaries = {A1}
  Interceptors = {I1, I2}
  AuxiliariesOf <- MCAuxiliariesOf
  InterceptorsOf <- MCInterceptorsOf
  Verdict <- ErrorVerdict
  Shipped = {I1}
  ServerClasspath = {}
  Findable = {Main, Task}
  ByteLength = 3
  LocalMode = FALSE
  Overlap = FALSE
  Preparable = {Task}
  MaxRuns = 2
INVARIANTS StarvationExplained AbortExplained
SYMMETRY Symmetry
CHECK_DEADLOCK FALSE
