CONSTANTS
  first_mcb = 10
  base_seg = 11
  uppermem_root = 17
  umb_base = 18
  MemTop = 21
  DOS_PSP = 2
  PspSize = 1
  KeepMin = 1
  Strategies <- MCStrategies
  Sizes = {0, 2}
  EnvSizes = {1}
  NeedSizes = {1, 2}
  MaxSizes = {2}
  All = 40
  Garbage = {0,11}
SPECIFICATION Spec
PROPERTIES
  NoEnvFreesNothing
