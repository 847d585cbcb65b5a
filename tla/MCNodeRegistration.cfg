\* Two objects of one node and topic, twins if they have one role, and one fault
\* of any kind at any moment.  No symmetry: it is unsound with a liveness property.
CONSTANTS
  Names = {"n1"}
  Addrs = {a1, a2}
  Topics = {t1}
  Types = {m1}
  Handles <- MCHandles
  MaxFaults = 1
SPECIFICATION FairSpec
INVARIANTS TypeOK RegistrationStands NoGhost
PROPERTIES CallsReturn
