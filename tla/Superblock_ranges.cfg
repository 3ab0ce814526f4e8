\* Strands of at most six instructions and their last one, three of which jump anywhere.
SPECIFICATION Spec
CONSTANTS Length = 6 Jumps = 3 Single = FALSE
INVARIANTS JumpsLand FallsThrough RangesNest
