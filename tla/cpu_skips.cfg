SPECIFICATION Spec
CONSTANTS
  NUser = 3
  EXCEPTION_ADDR <- KernelText
  Programs <- AllPrograms
  DeviceLines = {3}
  IO_INTERVAL = 2
  MaxDepth = 2
  MaxEPC = 4
  delayed_branches = FALSE
  mapped_io = TRUE
  display = FALSE
INVARIANTS ResumesExactly
