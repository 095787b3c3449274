\* A data source's callbacks, wherever they come from.
CONSTANTS
  Handle = {h1}
  Source = {d1}
  Addr = {a1, a2}
  Null = Null
  Mono = Mono
  Stereo = Stereo
  File = {Mono, Stereo}
  FileChannels <- MCFileChannels
  EndpointChannels = 2
SPECIFICATION Spec
INVARIANTS ServedBySource
