CONSTANT Builds <- PassBuilds
SPECIFICATION Spec
INVARIANT FramesIntact
INVARIANT HandlerNotReentered
INVARIANT MatchesIss
PROPERTY MachineStateProtected
