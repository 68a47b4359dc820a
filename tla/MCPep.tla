------------------------------- MODULE MCPep -------------------------------
(* Decisions for the TLC runs of Pep.                                      *)
EXTENDS Pep

CONSTANTS email, phone

MCStatement == {email, phone}

Redact(phase, types, endpoint) ==
    [type |-> "redact_pii", phase |-> phase, content_types |-> types, endpoint |-> endpoint]

Note == [type |-> "other", phase |-> "none", content_types |-> "absent", endpoint |-> "blank"]

(* One obligation for each way through the loop.                           *)
MCObligations ==
    {Redact("request", "text", "path"), Redact("request", "empty", "url"),
     Redact("response", "absent", "path"), Redact("none", "absent", "blank"),
     Redact("request", "other", "path"), Redact("request", "absent", "foreign"), Note}

MCDecisions ==
    [verdict : Verdicts,
     obligations : {<<>>} \cup {<<a>> : a \in MCObligations}
                   \cup {<<a, b>> : a, b \in MCObligations}]
=============================================================================
