CONSTANTS
  Size = 5
  Base = 4
  Address = {0, 1, 2, 3, 4, 5}
  StoredHalf = {1, 6, 15}
  StoredWord = {0, 27, 63, 228}
SPECIFICATION Spec
INVARIANT AccessesAtAddress
