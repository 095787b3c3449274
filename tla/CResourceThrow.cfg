\* The class comment taken at its word, with operator new allowed to fail.
CONSTANTS
  Handle = {h1, h2}
  Addr = {a1, a2}
  Null = Null
  Client = Client
  Nobody = Nobody
SPECIFICATION Spec
INVARIANTS UniqueOwner
