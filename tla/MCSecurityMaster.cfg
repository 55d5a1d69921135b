\* Edits of the known-identities file, imports that commit or roll back, and a
\* reading service, in every order.
CONSTANTS
    k1 = k1
    k2 = k2
    T = T
    U = U
    Keys = {k1, k2}
    Tickers = {T, U}
    Forever = 3
    Unresolved = Unresolved
    FirstSeeds <- Seeds
    IdValues = {"cik"}
    MaxEdits = 2
SPECIFICATION Spec
INVARIANTS
    TypeOK
    AnswersWereImported
PROPERTY
    ImportsAreWhole
