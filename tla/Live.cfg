\* The same system under fairness, with a server that knows one class from its own class path.
\* No class is prepared: a search for initializers that another hook runs into may end the JVM.
SPECIFICATION FairSpec
CONSTANTS
  t1 = t1 t2 = t2 Main = Main Task = Task Base = Base H1 = H1 H2 = H2 A1 = A1 I1 = I1 I2 = I2
  None = None VM = VM
  Threads = {t1, t2}
  Loaders = {"app"}
  IgnoredLoaders = {}
  Classes <- Three
  Refs <- ThreeRefs
  Helpers = {H1, H2}
  Auxiliaries = {A1}
  Interceptors = {I1, I2}
  AuxiliariesOf <- MCAuxiliariesOf
  InterceptorsOf <- MCInterceptorsOf
  Verdict <- MCVerdict
  Shipped = {I1, I2}
  ServerClasspath = {Base}
  Findable = {Main, Task, Base}
  ByteLength = 3
  LocalMode = TRUE
  Overlap = FALSE
  Preparable = {}
  MaxRuns = 1
PROPERTIES HookReturns ImplementsClassLoading
CHECK_DEADLOCK FALSE
