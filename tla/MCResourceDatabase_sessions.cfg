CONSTANTS
  rock_png = rock_png
  rock_hdr = rock_hdr
  chair_gltf = chair_gltf
  rock = rock
  chair = chair
  cushion = cushion
  Sources = {rock_png, rock_hdr, chair_gltf}
  Ids = {rock, chair, cushion}
  IdOf <- ByStem
  PartsOf <- Embedded
  None = None
  MaxEdits = 3
  MaxCrashes = 2
  MaxCalls = 4
SPECIFICATION Spec
CHECK_DEADLOCK FALSE
INVARIANTS
  TypeOK
  Durable
PROPERTIES
  MendedIsValid
  CleanReopen
