SPECIFICATION Spec
CONSTANTS
  Letters = {a, b}
  BufferSize = 4
  Width = 2
  PrinterColumns <- LeftMargin
  NoKey = NoKey
  NoCommand = NoCommand
INVARIANTS
  TypeOK
  
  CursorFollowsLine
PROPERTIES
  ImplementsEditor
