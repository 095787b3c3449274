\* Three handles over three blocks: a swap or a move between two of them while
\* the third is inside its emplace, with a block free for the allocator to
\* hand out again.
CONSTANTS
  Handle = {h1, h2, h3}
  Addr = {a1, a2, a3}
  Null = Null
  Client = Client
  Nobody = Nobody
SPECIFICATION Spec
INVARIANTS TypeOK SingleOwner ValidOwner NothingLost
PROPERTIES UninitBeforeFree ImplementsOwnership
