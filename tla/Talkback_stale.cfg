SPECIFICATION Spec
CONSTANTS
  Clients = {x, y}
  Anonymous = anonymous
  MaxQueue = 2
  ToneFrames = 2
  MaxChunk = 3
  MaxFrames = 3
  MaxSenders = 2
INVARIANT NewestTalks
