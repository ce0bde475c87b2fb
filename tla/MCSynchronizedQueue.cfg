\* Capacity 2, four pushes, two consumers.
CONSTANTS
    Capacity = 2
    MaxPushes = 4
    Consumers = {c1, c2}
SPECIFICATION Spec
INVARIANT TypeOK
PROPERTY RefinesAbstractQueue
PROPERTY NoStrandedElement
PROPERTY InterruptReleasesAll
