--------------------------- MODULE TypedPolicies ---------------------------
(***************************************************************************)
(* Typed policy authoring (src/src/typed_policies.rs): six routes, one     *)
(* refusal type, and the Retry-After header by which the platform asks for *)
(* a repetition.                                                           *)
(***************************************************************************)
EXTENDS Exchange, Documents

(* The answer types, the members the client needs to tell them apart: the  *)
(* decoding of each accepts any object that has the required ones.         *)
AnswerTypes ==
    [edition  |-> {},            \* TypedAuthoringEdition
     validate |-> {},            \* TypedPolicyValidation
     publish  |-> {"digest"},    \* TypedPolicyPublication
     activate |-> {},            \* TypedPolicyActivation
     system   |-> {}]            \* TypedPolicySystemCorpus, of the member system

(* The reasons a refusal's body names.                                     *)
Reasons ==
    {"publication_refused", "activation_refused", "tier_limit", "artifact_cap",
     "catalog_not_configured", "store_unavailable", "nothing_active"}

(* Bodies that are no JSON at all, and not a JSON object.                  *)
NoObject == {"page_html", "array"}

(* Digits that fit in 64 bits; not a date, not a number too large.         *)
retry_after(a) == a.wait = "seconds"

refusal(a) ==
    IF a.status = 401 THEN Result("ApiError", 401, a.body)
    ELSE [Result("TypedPolicyRefusal", a.status, IF a.body \in Reasons THEN a.body ELSE "none")
            EXCEPT !.wait = retry_after(a)]

not_an_object(a) == Result("ApiError", a.status, "not an object")

(* object: the JSON object of a 2xx answer; decode makes the result of it. *)
object(a, decode) ==
    CASE ~is_success(a.status) -> refusal(a)
      [] is_success(a.status) /\ a.body \in NoObject -> not_an_object(a)
      [] OTHER -> decode

decode(o, a) ==
    IF Decodes(o.call, AnswerTypes[o.call], a.body)
    THEN Ok(Found(o.call, AnswerTypes[o.call], a.body))
    ELSE Result("SerdeError", 0, a.body)

Mutant_active(a) ==
    CASE a.status = 404 -> Ok("nothing")
      [] a.status # 404 -> object(a, Ok("document"))

active(a) ==
    IF a.status = 404 /\ a.body = "nothing_active" THEN Ok("nothing")
    ELSE object(a, Ok("document"))

TypedRead(o, a) == IF o.call = "active" THEN active(a) ELSE object(a, decode(o, a))

-----------------------------------------------------------------------------
(* The platform *)

Asking(a, wait) == [a EXCEPT !.wait = wait, !.meant = "transient"]

Publications ==
    {[Plain(200, "publish", "done") EXCEPT !.performs = TRUE],
     Plain(422, "publication_refused", "final"),
     Plain(402, "tier_limit", "final"),
     Asking(Plain(402, "tier_limit", "final"), "seconds"),
     Plain(429, "artifact_cap", "final")}

(* An activation promotes: repeated, its version no longer advances.       *)
Activations(done) ==
    {Plain(409, "activation_refused", "final")} \cup
    (IF done > 0 THEN {} ELSE {[Plain(200, "activate", "done") EXCEPT !.performs = TRUE]})

TypedAnswers(o, done) ==
    {Plain(401, "unauthenticated", "final"),
     Plain(503, "catalog_not_configured", "final"),
     Plain(503, "store_unavailable", "transient")} \cup
    (CASE o.call = "publish" -> Publications
       [] o.call = "activate" -> Activations(done)
       [] o.call = "active" -> {Plain(200, "document", "done"),
                                Plain(404, "nothing_active", "done")}
       [] OTHER -> {Plain(200, o.call, "done")})

-----------------------------------------------------------------------------
(* Properties *)

(* "Nothing is active" is the platform's word about this organization:     *)
(* never what an older platform, a gateway or a login page answers on a    *)
(* route it does not know.                                                 *)
NothingActiveIsItsWord ==
    Answered /\ op.surface = "typed" /\ result.value = <<"nothing">> =>
       answer \in TypedAnswers(op, 0) /\ answer.status = 404
=============================================================================
