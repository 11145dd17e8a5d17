CONSTANTS
  gltf = gltf
  texture = texture
  material = material
  other = other
  shader = shader
  unknown = unknown
  Ids = {gltf, material, other, shader}
  Known = {gltf, material, other, shader}
  CompositeOf <- GltfParts
  MetadataId <- TexturesMisfiled
  Needs <- MaterialNeeds
  Stage <- TexturesFirst
  Callers = {main}
  None = None
  MaxCalls = 1
  MaxLoads = 6
  MaxFailures = 0
SPECIFICATION Spec
CHECK_DEADLOCK FALSE
PROPERTY ImmediateNeverPending
