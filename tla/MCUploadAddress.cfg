SPECIFICATION UploadSpec
CONSTANTS
  r1 = r1
  r2 = r2
  r3 = r3
  a = a
  b = b
  Nothing = Nothing
  Partial = Partial
  Requests = {r1, r2, r3}
  Names = {a, b}
  FilesOf <- MCFilesOf
  MaxTime = 1
INVARIANT AddressOfItsImage
CHECK_DEADLOCK FALSE
