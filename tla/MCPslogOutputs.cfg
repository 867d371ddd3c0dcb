CONSTANTS
  Capacity = 3
  ChunkCapacity = 2
  MaxBuffers = 2
  FileCapacity = 3
  FileChunk = 2
  MaxFileBuffers = 3
  Tokens <- AllTokens
  Seeds <- InitialSeeds
  Envs <- AllEnvs
  Unset <- NotSet
  Upper <- Case
  NameSize = 5
  OutputSize = 6
SPECIFICATION MCSpec
INVARIANTS
  SinksInStep
  OwnedClosedOnce
  FileInOrder
  NoDescriptorLeft
  EnvAsWritten
  PaletteFound
