\* One upload, one generated file, two items; any turn can be cut short.
CONSTANTS
    Uploads = {u1}
    KbFiles = {k1}
    Items = {i1, i2}
    VerifiedLimit = 1
SPECIFICATION Spec
INVARIANTS FeedbackFaithful FeedbackKept NoDangling
PROPERTY LoadsWhatIsStored
