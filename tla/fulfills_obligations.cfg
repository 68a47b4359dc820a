SPECIFICATION FairSpec
CONSTANTS
    email = email
    phone = phone
    Off = Off
    Pii = {email, phone}
    statement <- MCStatement
    Decisions <- MCDecisions
    Breaks = {"transport", "status", "body", "decode", "contradiction", "drop"}
INVARIANTS
    TypeOK
    ForwardsScrubbed
    TellsRedaction
PROPERTIES
    Ends
