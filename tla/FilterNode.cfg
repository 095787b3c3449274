CONSTANTS
  Lpf = {l1, l2}
  Hpf = {p1}
  Addr = {a1, a2}
  Null = Null
  Cutoff = {500, 900}
  Order = {0, 2, 9}
SPECIFICATION Spec
INVARIANTS TypeOK MembersInSync
