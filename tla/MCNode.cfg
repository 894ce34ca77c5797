CONSTANTS
  std = std
  trg = trg
  blk = blk
  twin = twin
  int = int
  conf = conf
  tproto = tproto
  bproto = bproto
  x = x
  y = y
  p1 = p1
  p2 = p2
  p3 = p3
  na = na
  nb = nb
  i1 = i1
  i2 = i2
  lg = lg
  sa = sa
  sb = sb
  inter = inter
  c1 = c1
  c2 = c2
  NULL = NULL
  Modules <- AllModules
  TypeNames <- AllTypes
  Protos <- AllProtos
  Instances <- AllInsts
  Items <- AllItems
  Strict <- StrictMods
  PortIds <- ThreePorts
  Names <- TwoNames
  IBlocks <- TwoIBlocks
  Faulty = {}
  Dirs <- EachDir
  MaxPorts = 3
  MaxPccs = 1
  MayStart = TRUE
  MaxConns = 2
  BufferLen = 1
  Modulus = 16
  Logger = lg
  Sources <- TwoSources
  Inter = inter
  Pool <- TwoInters
  Orders <- SomeOrders
  Confs <- SomeConfs
  BuffLen = 2
  MaxWrites = 2
  Systems = {"r", "s", "t"}
  Root = "r"
  Blocks = {"a", "b"}
  Configs = {"k"}
  Dynamic = {"a"}
  Models <- SomeModels
SPECIFICATION MCSpec
CHECK_DEADLOCK FALSE
SYMMETRY Symmetry
INVARIANTS
  NoDangling
  CleanAtEnd
  StartUpSafe
  HeldPortsRight
  LoggerSafe
PROPERTIES
  ImplementsInterface
  SamplesRight
