\* The stack allocator with two malloc'able block addresses, blocks of
\* up to 8 bytes, requests of 1 to 3 bytes (odd sizes exercise SHELL_ALIGN),
\* two objects and two nested marks.
CONSTANTS
  MINSIZE = 2
  ALIGN = 2
  GROWMIN = 2
  Addrs = {1, 2}
  MaxBlock = 8
  MaxReq = 3
  MaxObjs = 2
  MaxMarks = 2
SPECIFICATION Spec
INVARIANTS
  AllocatorSafe
  WrittenIsReturned
