CONSTANTS
    Requests = {r1, r2}
    Codes = {k1, k2}
    Limit <- OneOfEach
    MaxAttempts = 2
    Expiry = 2
    Window = 1
    Offered = {"send", "resend"}
    NoCode = NoCode
    Forms = {f1, f2}
    Documents = {gst}
    Images = {i1}
    Days = {mon, tue}
    Sections = {"settings"}
    MaxCommits = 2
SPECIFICATION AccountSpec
SYMMETRY AccountSymmetry
INVARIANTS OtpInv DossierInv AnswersFresh
PROPERTIES DeletedForCause TokensOncePerCode
