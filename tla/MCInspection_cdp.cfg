\* A session of up to four requests, two of them unanswered at a time.
SPECIFICATION WireSpec
CONSTANTS
    MaxInt = 40
    Decimal <- DecimalOf
    Numerals <- Nums
    Letter <- Letters
    Hex <- Hexes
    Code <- Codes
    KeyOrder <- Keys
    Byte = 128
    Wide = 150
    WideBytes = 4
    ByteXor <- XorOf
    Drives <- DriveLetters
    LowerOf <- Lowers
    Regexes <- Patterns
    BadRegexes = {}
    Finds <- FindsOf
    Heap <- Graph
    MaxProps = 2
    MaxGlobals = 2
    Outcome <- Evaluated
    Alphabet <- Chars
    Setups <- Sessions
    Source <- Program
    Snapshots <- Statements
    Lines <- AskedLines
    Expressions <- Typed
    Queries <- Other
    MaxRequests = 4
    MaxInFlight = 2
INVARIANTS TypeOK WireTypeOK SessionInvariant AnsweredInOrder ScriptsAnnounced ObjectsResolve BreakpointsBind
PROPERTIES MessagesArrive RequestsArrive RepliesArrive
CHECK_DEADLOCK FALSE
