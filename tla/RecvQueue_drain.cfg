\* The interrupt may fire at any step of the handler.
CONSTANTS
  RecLens <- MCRecLens
  QueueLength = 4
  Lens <- MCLens
  MaxEvents = 6
  IsrDuringDrain = TRUE
SPECIFICATION Spec
INVARIANT DrainsWhatFits
