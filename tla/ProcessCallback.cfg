\* Up to two frames of up to two channels, over every kind of node.
CONSTANTS
  Node <- MCNode
  Frames = {1, 2}
  Extent = 4
SPECIFICATION Spec
INVARIANTS TypeOK InsideBuffers SilenceWhenCountsAgree CopyFaithful
