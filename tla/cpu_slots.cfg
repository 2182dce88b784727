SPECIFICATION Spec
CONSTANTS
  NUser = 4
  EXCEPTION_ADDR <- KernelText
  Programs <- SlotPrograms
  DeviceLines = {3}
  IO_INTERVAL = 2
  MaxDepth = 2
  MaxEPC = 4
  delayed_branches = TRUE
  mapped_io = TRUE
  display = FALSE
INVARIANTS SlotsExact
