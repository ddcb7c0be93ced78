SPECIFICATION Spec
CONSTANT Objects <- AllObjects
INVARIANTS TypeOK ParsedKeysMatch EcdsaPointsAreWhole
           OnlyMalformedKeysPanic OnlyKnownKeysArePublished
