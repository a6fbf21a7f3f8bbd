\* Two threads load three classes, each once; the JVM is quiet during VMInit and VMDeath.
SPECIFICATION Spec
CONSTANTS
  t1 = t1 t2 = t2 Main = Main Task = Task Base = Base H1 = H1 H2 = H2 A1 = A1 I1 = I1 I2 = I2
  None = None VM = VM
  Threads = {t1, t2}
  Loaders = {"app", "boot"}
  IgnoredLoaders = {"boot"}
  Classes <- Three
  Refs <- ThreeRefs
  Helpers = {H1, H2}
  Auxiliaries = {A1}
  Interceptors = {I1, I2}
  AuxiliariesOf <- MCAuxiliariesOf
  InterceptorsOf <- MCInterceptorsOf
  Verdict <- MCVerdict
  Shipped = {I1, I2}
  ServerClasspath = {}
  Findable = {Main, Task, Base}
  ByteLength = 3
  LocalMode = TRUE
  Overlap = FALSE
  Preparable = {Task, Base}
  MaxRuns = 1
INVARIANTS TypeOK SocketExclusive RepliesAligned NeverStarved DependenciesFirst CacheSound OwnBytecode
INVARIANTS ReadyToRun NoSelfLock InterceptorsAgree
SYMMETRY Symmetry
CHECK_DEADLOCK FALSE
