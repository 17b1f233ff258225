\* Two builders, two directories, two episodes of at most two steps.
SPECIFICATION BundleSpec
CONSTANTS
  Builders = {b1, b2}
  Directories = {d1, d2}
  Observations = {o1, o2, o3, o4}
  Episodes = {1, 2}
  Ordinals = {1, 2}
  MaxTransitions = 2
  MaxBlobs = 3
  Spare = 1
INVARIANTS
  SegmentBounded
