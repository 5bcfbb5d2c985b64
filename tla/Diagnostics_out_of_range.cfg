\* Python unpickles a Diagnostic whose category it built from an integer
\* that is no enumerator, and prints it.
CONSTANTS
    Messages = {"m1", "m2"}
    Codes = {"ec"}
    OutOfRange = OutOfRange
    IntValue = IntValue
    Reports <- MCReports
    Crafted <- MCCraftedOutOfRange
    MaxReports = 1
SPECIFICATION Spec
INVARIANT NoUnreachable
