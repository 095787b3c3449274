\* Two sounds and two data sources over four blocks: a sound may play from one
\* data source while the other is made, moved or destroyed, and a block of
\* either kind may come back as one of the other.
CONSTANTS
  Handle = {h1, h2}
  Source = {d1, d2}
  Addr = {a1, a2, a3, a4}
  Null = Null
  Mono = Mono
  Stereo = Stereo
  File = {Mono, Stereo}
  FileChannels <- MCFileChannels
  EndpointChannels = 2
SYMMETRY Blocks
SPECIFICATION Spec
INVARIANTS TypeOK AudioReadsLive SourcesOutliveSounds LoadsFollowSounds Owned ChannelsNeverRefused
