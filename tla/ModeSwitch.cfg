SPECIFICATION Spec
CONSTANTS
  TABLE_SIZE = 8
  MEMORY_SIZE = 4
  IA32e_PAGING_BASE = 17
  HIGHER_MEMORY_STACK_TOP = 24
  ADDRESS_SPACE = 256
  Leftover <- MCLeftover
  Address <- MCAddress
  real_mode_start = 1048832
  REAL_MODE_BASE_ADDRESS = 32256
  LOWER_MEMORY_STACK_TOP = 31743
  HOST_STACK = 1179648
  GRUB_STACK = 524288
  StackDepth = 40
INVARIANTS
  TypeOK
  NeverFaults
  InterruptsFindTheIvt
  CallerResumes
  RunsTheFunctionAsked
  IdentityMapped
PROPERTIES
  OnlyTablesWritten
  HostGoesOn
