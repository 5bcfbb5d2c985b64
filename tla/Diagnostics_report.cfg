\* Two diagnostics reported with and without a callback, held diagnostics
\* pickled and unpickled, and hand-made tuples unpickled.
CONSTANTS
    Messages = {"m1", "m2"}
    Codes = {"ec"}
    OutOfRange = OutOfRange
    IntValue = IntValue
    Reports <- MCReports
    Crafted <- MCCrafted
    MaxReports = 3
SPECIFICATION Spec
INVARIANT TypeOK
INVARIANT PickleRoundTrip
