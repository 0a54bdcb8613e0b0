SPECIFICATION Spec
CONSTANTS
  v1 = v1
  v2 = v2
  Values = {v1, v2}
  Zero = Zero
  Batches <- UpToThree
  Sizes = {1, 2, 4}
  InitialSize = 1
INVARIANTS TypeOK NoResidue DstCleared
PROPERTIES ImplementsFifo
