CONSTANTS
  Width = 12
  Height = 9
  LINE_EDITOR_CHUNK_SIZE = 4
  Printable = {"a", "$"}
  Missing = "$"
  Entries <- MCEntries
  BoxValues <- MCBoxValues
  Log <- MCLog
  MenuTimeout = 2
  MaxEdits = 2
  Timeout = 2
  TypedKeys <- MCTypedKeys
  MaxTyped = 3
SPECIFICATION Spec
INVARIANTS
  Shown
  SameOnSerial
  BufferFits
PROPERTIES
  KeysArrive
