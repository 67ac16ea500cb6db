\* Every set of documents is the evidence of some question.
CONSTANTS
    banned = banned
    name = name
    other = other
    customer = customer
    public = public
    own = own
    ext = ext
    Words = {banned, name, other}
    Globs = {customer, public, own}
    Company = company
    Owners = {team}
    Protocols <- MCProtocols
    Documents <- MCDocuments
    VerifiedQAs <- MCVerifiedQAs
    Extensions = {ext}
    Ending <- MCEnding
    Questions <- MCQuestions
    Tasked <- MCTasked
    Long <- MCLong
    BaseLiterals = {banned}
    BasePatterns = {}
    BaseSecret = {customer}
    BaseOpen = {public}
    Identifiers = {name}
    Absent = absent
    Torn = torn
SPECIFICATION Spec
INVARIANTS TextThatCrosses FailClosed
PROPERTY AppliesAtOnce
