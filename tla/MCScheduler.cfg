CONSTANTS
  g1 = g1 g2 = g2
  a = a b = b c = c
  low = low high = high
  GPUs = {g1, g2}
  Jobs = {a, b, c}
  Users <- TwoUsers
  Owner <- OwnerABC
  Count <- CountABC
  Urgent = {b}
  Rank <- TwoRanks
  SizeDisparity = FALSE
  NoJob = NoJob
  NoUser = NoUser
SPECIFICATION Spec
INVARIANTS TypeOK Ownership StatusAgrees JobSizes QueueAgrees PromptIsForHolder NoThrashing Consistent
PROPERTIES CriticalFirst OverIsOver LeaseContract
SYMMETRY GPUSymmetry
