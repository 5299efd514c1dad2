SPECIFICATION Spec
CONSTANTS
  Half = 4
  MaxSize = 18
INVARIANTS SentInOrder 
