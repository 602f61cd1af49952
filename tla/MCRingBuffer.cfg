SPECIFICATION RingSpec
CONSTANTS
  Capacity = 3
  Values = {v0, v1, v2}
  Zero = v0
  Nobody = Nobody
INVARIANT IndicesAgree
PROPERTY ImplementsFifo
