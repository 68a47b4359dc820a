---------------------------- MODULE AuthzenTypes ----------------------------
(***************************************************************************)
(* The AuthZEN wire types (src/src/authzen/types_gen.rs): the members each *)
(* needs to be decoded, those it may have, and the checks its validate     *)
(* makes, in order.                                                        *)
(*                                                                         *)
(* A value maps the members it has to sequences: a scalar is a sequence of *)
(* one word, "" the empty string; an optional member that is not there is  *)
(* <<>> or not mentioned.  A bag is an attribute map (AttributeMap).       *)
(***************************************************************************)
EXTENDS Naturals, Sequences, SequencesExt, AttributeMap

Check(kind, member, arg) == [kind |-> kind, member |-> member, arg |-> arg]

Required(member) == Check("required", member, "")
MinLength(member) == Check("min_length", member, "")
Const(member, word) == Check("const", member, word)
MinItems(member) == Check("min_items", member, "")
Base(member, inner) == Check("base", member, inner)
Nested(member, type) == Check("nested", member, type)
Bag(member) == Check("bag", member, "")
ExactlyOne(member, other) == Check("exactly_one", member, other)

(* A value is constructed from the members it needs, in this order; a type *)
(* that needs none is constructed empty.                                   *)
Type(needs, may, checks) ==
    [new |-> needs, needs |-> ToSet(needs), may |-> may, checks |-> checks]

AUTHZEN_PROFILE_V1 == "axonflow-authzen-profile-2026-08-29"
AUTHZEN_CONTRACT_SCHEMA_VERSION == "2026-08-29"
AUTHZEN_PATH == <<"", "api", "v1", "access", "evaluation">>
AUTHZEN_PROFILE_HEADER == "X-Axonflow-AuthZEN-Profile"

approval_clause ==
    Type(<<"quorum", "eligible">>, {}, <<MinItems("eligible"), Nested("eligible", "identifier")>>)

approval_requirement ==
    Type(<<"all_of", "separation_of_duties", "expires_at">>, {},
         <<MinItems("all_of"), Nested("all_of", "approval_clause"), Required("expires_at")>>)

authzen_action == Type(<<"name">>, {"properties"}, <<Required("name"), Bag("properties")>>)

authzen_bulk ==
    Type(<<"evaluations">>, {"subject", "action", "resource", "context"},
         <<Nested("subject", "authzen_subject"), Nested("action", "authzen_action"),
           Nested("resource", "authzen_resource"), Bag("context"),
           MinItems("evaluations"), Nested("evaluations", "authzen_request")>>)

authzen_envelope ==
    Type(<<>>, {"evaluation", "evaluations"},
         <<ExactlyOne("evaluation", "evaluations"),
           Base("evaluation", "action"), Base("evaluation", "resource"),
           Base("evaluation", "subject"), Nested("evaluation", "authzen_request"),
           Nested("evaluations", "authzen_bulk")>>)

(* The one type that is decoded leniently.                                 *)
authzen_error ==
    Type(<<"code", "message">>, {"pointer", "supported", "request_id"},
         <<Required("code"), Required("message")>>)

authzen_request ==
    Type(<<>>, {"subject", "action", "resource", "context"},
         <<Nested("subject", "authzen_subject"), Nested("action", "authzen_action"),
           Nested("resource", "authzen_resource"), Bag("context")>>)

authzen_resource ==
    Type(<<"type", "id">>, {"properties"}, <<Required("type"), Required("id"), Bag("properties")>>)

authzen_response ==
    Type(<<"decision">>, {"context"}, <<Nested("context", "authzen_response_context")>>)

authzen_response_context ==
    Type(<<"profile", "state", "category", "decision_id", "schema_version">>,
         {"reason", "obligations", "approval"},
         <<Required("profile"), Const("profile", AUTHZEN_PROFILE_V1), Required("state"),
           Required("category"), Nested("obligations", "obligation"),
           Nested("approval", "approval_requirement"), Required("decision_id"),
           Required("schema_version")>>)

authzen_subject ==
    Type(<<"type", "id">>, {"properties"}, <<Required("type"), Required("id"), Bag("properties")>>)

identifier ==
    Type(<<"kind", "type", "local">>, {"qualifier"},
         <<Required("kind"), Required("type"), Required("local")>>)

obligation ==
    Type(<<"type", "mandatory", "source_policy", "schema_version">>, {"target", "params"},
         <<Required("type"), MinLength("target"), Required("source_policy")>>)

Types ==
    [approval_clause |-> approval_clause, approval_requirement |-> approval_requirement,
     authzen_action |-> authzen_action, authzen_bulk |-> authzen_bulk,
     authzen_envelope |-> authzen_envelope, authzen_error |-> authzen_error,
     authzen_request |-> authzen_request, authzen_resource |-> authzen_resource,
     authzen_response |-> authzen_response,
     authzen_response_context |-> authzen_response_context,
     authzen_subject |-> authzen_subject, identifier |-> identifier, obligation |-> obligation]

-----------------------------------------------------------------------------
(* The sets of wire values; any other is carried verbatim as Unknown.      *)

authzen_error_code ==
    {"malformed_envelope", "incomplete_evaluation", "unsupported_subject", "unsupported_action",
     "unsupported_resource", "unevaluable_attribute", "missing_evaluable_content",
     "evaluation_unavailable"}

category ==
    {"allowed", "not_permitted", "approval_required", "temporarily_unavailable",
     "invalid_request"}

identifier_kind ==
    {"organization", "principal", "group", "resource", "action", "tool", "client", "session"}

obligation_type ==
    {"approval_challenge", "field_remove", "field_redact", "field_hash", "field_mask",
     "field_annotate", "field_tokenize", "schema_transform", "response_filter",
     "route_restriction", "step_up_authentication", "quota_reservation", "immutable_audit",
     "notification"}

operational_state == {"ALLOW", "DENY", "CHALLENGE", "ERROR"}

reason_code ==
    {"permitted", "approval_required", "explicit_constraint", "no_matching_permission",
     "unknown_constraint", "unknown_permission", "unknown_requirement", "invalid_input",
     "evaluation_error", "unsupported_obligation", "obligation_conflict", "unknown_action",
     "unknown_realm", "schema_violation", "delegation_depth_exceeded", "budget_exhausted",
     "binding_mismatch", "approval_unsatisfiable", "approval_expired", "authoring_rejected"}

Enums ==
    [authzen_error_code |-> authzen_error_code, category |-> category,
     identifier_kind |-> identifier_kind, obligation_type |-> obligation_type,
     operational_state |-> operational_state, reason_code |-> reason_code]

-----------------------------------------------------------------------------
(* validate and decoding *)

Member(v, m) == IF m \in DOMAIN v THEN v[m] ELSE <<>>

With(v, m, member) == [n \in DOMAIN v \cup {m} |-> IF n = m THEN member ELSE v[n]]

(* A value as it is decoded from JSON: every member is a sequence.         *)
IsObject(v) == \A m \in DOMAIN v : v[m] \in Seq(ToSet(v[m]))

Refusing(code, condition) == IF condition THEN code ELSE "valid"

(* What the first check that does not pass says; a check is asked for by   *)
(* its number.                                                             *)
FirstFound(findings) ==
    LET refusing == {i \in DOMAIN findings : findings[i] # "valid"}
    IN IF refusing = {} THEN "valid"
       ELSE findings[CHOOSE i \in refusing : \A j \in refusing : i <= j]

(* One check of a value's own members.                                     *)
own_finding(c, v) ==
    CASE c.kind \in {"required", "min_length"} ->
           Refusing("incomplete_evaluation", Member(v, c.member) = <<"">>)
      [] c.kind = "const" ->
           Refusing("malformed_envelope", Member(v, c.member) # <<c.arg>>)
      [] c.kind = "min_items" ->
           Refusing("malformed_envelope", Member(v, c.member) = <<>>)
      [] c.kind = "base" ->
           Refusing("incomplete_evaluation",
                    Member(v, c.member) # <<>> /\ Member(Head(v[c.member]), c.arg) = <<>>)
      [] c.kind = "exactly_one" ->
           Refusing("malformed_envelope",
                    (Member(v, c.member) = <<>>) = (Member(v, c.arg) = <<>>))
      [] c.kind = "bag" ->
           IF Member(v, c.member) = <<>> THEN "valid" ELSE bag_refusal(Head(v[c.member]))

(* One check of a value; nested validates a value of a type.               *)
found(c, v, nested(_, _)) ==
    IF c.kind = "nested"
    THEN FirstFound([i \in DOMAIN Member(v, c.member) |-> nested(c.arg, v[c.member][i])])
    ELSE own_finding(c, v)

(* The checks of a type, in order; validate stops at the first that does   *)
(* not pass.                                                               *)
checked(type, v, nested(_, _)) ==
    FirstFound([i \in DOMAIN Types[type].checks |-> found(Types[type].checks[i], v, nested)])

(* validate is one function for each type, and calls those of the types it *)
(* nests: here by how deep they nest.  The deepest is a response, whose    *)
(* context has an approval of clauses that name identifiers.               *)
validate_1(type, v) == checked(type, v, LAMBDA t, w : "nests too deep")
validate_2(type, v) == checked(type, v, validate_1)
validate_3(type, v) == checked(type, v, validate_2)
validate_4(type, v) == checked(type, v, validate_3)
validate(type, v) == checked(type, v, validate_4)

(* deny_unknown_fields: a member the build does not know, or one it needs  *)
(* and that is not there, at any depth.                                    *)
decoded_with(type, v, nested(_, _)) ==
    /\ Types[type].needs \subseteq DOMAIN v
    /\ DOMAIN v \subseteq Types[type].needs \cup Types[type].may
    /\ \A c \in ToSet(Types[type].checks) :
          c.kind = "nested" => \A i \in DOMAIN Member(v, c.member) : nested(c.arg, v[c.member][i])

decodes_1(type, v) == decoded_with(type, v, LAMBDA t, w : FALSE)
decodes_2(type, v) == decoded_with(type, v, decodes_1)
decodes_3(type, v) == decoded_with(type, v, decodes_2)
decodes_4(type, v) == decoded_with(type, v, decodes_3)
decodes(type, v) == decoded_with(type, v, decodes_4)
=============================================================================
