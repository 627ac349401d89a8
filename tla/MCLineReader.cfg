SPECIFICATION Spec
CONSTANTS
    Chars = {a, b, CR}
    CR = CR
    Delimiter = Delimiter
    BufferSize = 2
    Nothing = Nothing
    MaxAhead = 2
    MaxLine = 6
INVARIANTS
    TypeOK
    BufferIsTheEnd
PROPERTIES
    FeedsLines
