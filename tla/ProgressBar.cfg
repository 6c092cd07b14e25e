SPECIFICATION Spec
CONSTANTS
  Names = {f, g, h}
  Label = Label
  None = None
  MAX_DISPLAY_BARS = 2
  MaxProgress = 1
  MaxFiles = 2
INVARIANTS TypeOK BarsBounded TableFitsQueue CurrentIsShown
