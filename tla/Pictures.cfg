SPECIFICATION Spec
CONSTANTS
  Objects = {decoded, copied}
  Heights = {2}
  LineSizes = {2, 3}
  Formats = {"YUV420P", "RGB24"}
  Planes = {light, dark}
  Buffers = {b1, b2, b3, b4, b5, b6}
  Gone = Gone
SYMMETRY Addresses
INVARIANTS
  BuffersOwnedOnce
PROPERTY CopiesAreEqual
