SPECIFICATION Spec
CONSTANTS
    email = email
    phone = phone
    Off = Off
    Pii = {email, phone}
    statement <- MCStatement
    Decisions <- MCDecisions
    Breaks = {"transport"}
INVARIANTS
    BranchingScrubs
