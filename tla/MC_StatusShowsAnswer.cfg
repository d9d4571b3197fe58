SPECIFICATION Spec
CONSTANTS
    s1 = s1
    s2 = s2
    s3 = s3
    c1 = c1
    c2 = c2
    Samples = {s1, s2, s3}
    Calls = {c1, c2}
    Trackings = {t1}
    NoTracking = NoTracking
    NoSample = NoSample
    NoCall = NoCall
    NoForm = NoForm
    FirstRounds = {s1}
    FormSamples = {s1, s2}
    FormStatuses = {"Prepared", "Resample"}
    InApproval = {s1}
SYMMETRY Symmetry
INVARIANT StatusShowsAnswer
