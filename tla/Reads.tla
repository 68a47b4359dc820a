------------------------------- MODULE Reads -------------------------------
(***************************************************************************)
(* The reads of decisions that the platform narrows to the caller's        *)
(* identity: explain_decision_as and list_decisions_as                     *)
(* (src/src/decisions.rs) and what they make of the X-Axonflow-Read-Scope  *)
(* header (src/src/read_identity.rs).                                      *)
(*                                                                         *)
(* "No rows" and "nobody to read rows for" are the same bytes but for that *)
(* header, which a proxy may respell and which rides every status.         *)
(***************************************************************************)
EXTENDS Exchange, Documents

(* The header: none, or a word as something on the way spelled it.         *)
Spellings == {"plain", "cased", "padded", "opaque"}

Header(word, spelled) == <<[word |-> word, spelled |-> spelled]>>

ScopeOf(word) ==
    CASE word = "tenant" -> "Tenant"
      [] word = "own-rows" -> "OwnRows"
      [] word = "none" -> "None"
      [] OTHER -> "Other"

Mutant_parse(header) ==
    IF header = <<>> \/ Head(header).word = "" THEN "Absent"
    ELSE IF Head(header).spelled # "plain" THEN "Other"
    ELSE ScopeOf(Head(header).word)

(* ReadScope::of and parse: trimmed and lower-cased; a value that is not   *)
(* text, or is blank, counts as absent.                                    *)
parse(header) ==
    IF header = <<>> \/ Head(header).word = "" \/ Head(header).spelled = "opaque" THEN "Absent"
    ELSE ScopeOf(Head(header).word)

ReadScopeRefusal(scope, status) == Result("ReadScope", status, scope)

(* <<>>, or the refusal in place of the result.                            *)
read_scope_refusal(scope, status) ==
    IF scope \in {"None", "OwnRows"} THEN <<ReadScopeRefusal(scope, status)>> ELSE <<>>

refuse_vacuous_scoped_page(scope, status, rows) ==
    IF rows > 0 \/ scope # "None" THEN <<>> ELSE <<ReadScopeRefusal(scope, status)>>

-----------------------------------------------------------------------------
Explain(o) == o.surface = "reads" /\ o.call = "explain"
List(o) == o.surface = "reads" /\ o.call = "list"

ReadsRefusal(o) ==
    IF Explain(o) /\ o.id = "" THEN <<Result("ConfigError", 0, "decision_id is required")>>
    ELSE <<>>

decode_explanation(a) ==
    IF Decodes("explanation", DecisionExplanation, a.body) THEN Ok(a.body)
    ELSE Result("SerdeError", 0, a.body)

Mutant_explain_decision_as(a) ==
    LET refusal == read_scope_refusal(parse(a.scope), a.status)
    IN IF ~is_success(a.status) /\ refusal # <<>> THEN Head(refusal)
       ELSE check_status(a, decode_explanation(a))

explain_decision_as(a) ==
    LET refusal == read_scope_refusal(parse(a.scope), a.status)
    IN IF a.status = 404 /\ refusal # <<>> THEN Head(refusal)
       ELSE check_status(a, decode_explanation(a))

(* The number of rows a 200 decodes to: a document without the member      *)
(* decisions has none; what is no such document decodes to nothing.        *)
ListResponse(a) ==
    CASE a.body = "page" -> a.doc
      [] a.body # "page" /\ Decodes("page", {}, a.body) -> <<0>>
      [] OTHER -> <<>>

list_decisions_as(a) ==
    LET rows == ListResponse(a)
        refusal == refuse_vacuous_scoped_page(parse(a.scope), a.status, Head(rows))
    IN IF a.status = 429 /\ Decodes("envelope", RateLimitEnvelope, a.body)
       THEN Result("RateLimited", 429, "tier")
       ELSE check_status(a,
              CASE rows = <<>> -> Result("SerdeError", 0, a.body)
                [] rows # <<>> /\ refusal # <<>> -> Head(refusal)
                [] OTHER -> Ok(Head(rows)))

ReadsRead(o, a) == IF Explain(o) THEN explain_decision_as(a) ELSE list_decisions_as(a)

-----------------------------------------------------------------------------
(* The platform: it narrows the read, says how, and answers.               *)
Narrowings == {"tenant", "own-rows", "none", "team"}

(* What the client can get to see of it.                                   *)
Headers(word) == {Header(word, s) : s \in Spellings}

Scoped(a, word) == {[a EXCEPT !.scope = h] : h \in Headers(word)}

Rows(n) == [Plain(200, "page", "done") EXCEPT !.doc = <<n>>]

ReadsAnswers(o) ==
    (UNION {Scoped(a, word) :
              a \in {Plain(404, "miss", "final"), Plain(500, "fault", "transient")}
                      \cup (IF List(o) THEN {Rows(0)} ELSE {}),
              word \in Narrowings})
    \cup (UNION {Scoped(IF List(o) THEN Rows(2) ELSE Plain(200, "explanation", "done"), word) :
                   word \in Narrowings \ {"none"}})
    \cup (IF List(o) THEN {Plain(429, "envelope", "capped")} ELSE {})
    \cup {Plain(401, "unauthenticated", "final")}

-----------------------------------------------------------------------------
(* Properties *)

(* The platform said, as far as the client can read it, that it read for   *)
(* nobody.                                                                 *)
ForNobody(a) == a.scope # <<>> /\ Head(a.scope).word = "none" /\ Head(a.scope).spelled # "opaque"

(* An application that is told "no decisions" or "no such decision" can    *)
(* believe it: an empty page or a miss the platform had to return because  *)
(* it resolved no identity is never reported as data, however a proxy      *)
(* respelled the header.                                                   *)
EmptyPageIsTrue ==
    Answered /\ op.surface = "reads" /\ ForNobody(answer) /\ answer.status \in {200, 404} =>
       \/ result.kind = "ReadScope"
       \/ List(op) /\ answer.status = 404
       \/ answer.body \in {"page_html"}

(* A scope is blamed only for what it did: never for a fault further down  *)
(* the handler, never for a page with rows, never for rows merely not      *)
(* found in the whole tenant.                                              *)
ScopeRefusalIsTrue ==
    pc = "done" /\ result.kind = "ReadScope" =>
       /\ Head(answer.scope).word = (IF result.reason = "None" THEN "none" ELSE "own-rows")
       /\ \/ Explain(op) /\ answer.status = 404
          \/ List(op) /\ ForNobody(answer) /\ answer.doc = <<0>>
=============================================================================
