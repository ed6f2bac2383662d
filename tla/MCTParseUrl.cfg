SPECIFICATION UrlSpec
CHECK_DEADLOCK FALSE
CONSTANTS
    Chars <- MCChars
    Urls <- MCUrls
    LaterUrls <- Few
    Params <- MCParams
    TailLength = 4
    MaxFields = 3
INVARIANTS
    RequestExact
    ColonExact
