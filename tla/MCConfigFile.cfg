\* Every file of up to three lines over nine line kinds (820 files).
\* Parsing ends, so the final states have no successor.
CONSTANTS
    SectionTexts <- MCSectionTexts
    KeyTexts <- MCKeyTexts
    Values = {v1, v2}
    MaxLines = 3
SPECIFICATION Spec
INVARIANT TypeOK
INVARIANT ParsedAsDocumented
CHECK_DEADLOCK FALSE
