\* The application ends while another thread loads a class.
SPECIFICATION Spec
CONSTANTS
  t1 = t1 t2 = t2 Main = Main Task = Task Base = Base H1 = H1 H2 = H2 A1 = A1 I1 = I1 I2 = I2
  None = None VM = VM
  Threads = {t1, t2}
  Loaders = {"app"}
  IgnoredLoaders = {}
  Classes <- Pair
  Refs <- PairRefs
  Helpers = {H1, H2}
  Auxiliaries = {A1}
  Interceptors = {I1, I2}
  AuxiliariesOf <- MCAuxiliariesOf
  InterceptorsOf <- MCInterceptorsOf
  Verdict <- MCVerdict
  Shipped = {I1, I2}
  ServerClasspath = {}
  Findable = {Main, Task}
  ByteLength = 3
  LocalMode = TRUE
  Overlap = TRUE
  Preparable = {}
  MaxRuns = 1
INVARIANT SocketExclusive
CHECK_DEADLOCK FALSE
