SPECIFICATION Spec
CONSTANTS
    Fields <- MCFields
    Removed = Removed
    MaxFailures = 1
INVARIANT ColumnIsDefinition
INVARIANT RelatedIsDefinition
INVARIANT ForeignKeyIsDefinition
INVARIANT IncomingWritesTakeDefault
