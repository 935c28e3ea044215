SPECIFICATION Spec
CONSTANTS
  Bytes = {"a"}
  Contents <- MCContents
  Extensions = {x1, x2}
  x1 = x1
  x2 = x2
  MaxDirect = 2
  MaxUpload = 2
  MaxRecord = 2
  PerSide = 1
  MaxUploads = 2
  MaxFaults = 1
INVARIANT CustodyKept
SYMMETRY MCSymmetry
