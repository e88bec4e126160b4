CONSTANTS
  MaxSet = 5
  MaxEntries = 3
  MaxFonts = 2
SPECIFICATION Spec
CHECK_DEADLOCK FALSE
INVARIANTS CellsArePainted KeysAreSent RequestsAreUnderstood GlyphsAreDrawn
