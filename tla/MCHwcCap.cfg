SPECIFICATION Spec
CONSTANTS
    MaxLayers = 5
    PlaneCaps = {2, 4}
INVARIANT PlanesCapped
