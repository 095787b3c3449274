CONSTANTS
  Handle = {n1, n2}
  Custom = {n1}
  Addr = {a1, a2}
  Endpoint = Endpoint
  Null = Null
  Layout <- MCLayout
  EndpointLayout <- MCEndpoint
SPECIFICATION Spec
INVARIANTS TypeOK GraphSound ChannelsAgree AudioSafe Owned CanAttachIsExact
PROPERTIES CallsReturn
