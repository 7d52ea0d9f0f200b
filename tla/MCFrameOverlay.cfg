SPECIFICATION OverlaySpec
CONSTANTS
  Ports = {0, 1}
  Masks = {0, 1}
  MaxSegments = 2
  MaxIcount = 1
  MaxEvents = 3
  MaxEventsCut = 0
  MaxFrames = 2
  Payloads <- MCPayloads
  Frames <- MCFrames
  Damages <- MCDamages
  HashLens = {0, 1, 9}
INVARIANTS
  ResumeIsSafe
  TornKeepsFrames
  HudShowsTheLatch
