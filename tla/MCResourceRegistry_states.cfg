CONSTANTS
  gltf = gltf
  texture = texture
  material = material
  other = other
  shader = shader
  unknown = unknown
  Ids = {gltf, texture, material, unknown}
  Known = {gltf, texture, material}
  CompositeOf <- GltfParts
  MetadataId <- TexturesMisfiled
  Needs <- MaterialNeeds
  Stage <- TexturesFirst
  Callers = {main}
  None = None
  MaxCalls = 2
  MaxLoads = 7
  MaxFailures = 1
SPECIFICATION FairSpec
CHECK_DEADLOCK FALSE
INVARIANTS
  TypeOK
  PendingIsLoading
PROPERTIES
  StatesAdvance
  ImmediateIsSettled
  LoadsEnd
