\* The dialog and the email in the field it is opened for.
CONSTANTS
    Empty = Empty
    a = a
    A = A
    b = b
    Texts <- MCTexts
    Typed = {Empty, A, b}
    Normal <- MCNormal
    Addresses = {a, b}
    Accounts = {a}
    Nobody = Nobody
    NoCookie = NoCookie
    MaxLookups = 2
    MaxCalls = 2
SPECIFICATION Spec
CHECK_DEADLOCK FALSE
PROPERTIES DialogIsForCheckoutEmail
