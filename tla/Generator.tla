----------------------------- MODULE Generator -----------------------------
(***************************************************************************)
(* The generator of the AuthZEN types (src/tools/gen-authzen-types): from  *)
(* the platform's surface artifact (src/testdata/authzen-surface.json) to  *)
(* the members of each type and the checks of its validate.                *)
(***************************************************************************)
EXTENDS AuthzenTypes

(* A field of the artifact.  A field of kind "ref", or an array of them    *)
(* (kind "refs"), names a type; one of kind "enum" names an enum.          *)
Field(name, kind, of) ==
    [name |-> name, kind |-> kind, of |-> of, required |-> FALSE, min_length |-> 0,
     const |-> "", min_items |-> 0, requires |-> <<>>]

Needed(field) == [field EXCEPT !.required = TRUE]
Filled(field) == [field EXCEPT !.min_length = 1]
Some(field) == [field EXCEPT !.min_items = 1]

Text(name) == Field(name, "string", "")
Word(name) == Needed(Filled(Text(name)))
Plain0(name, kind) == Needed(Field(name, kind, ""))
Enum(name, of) == Field(name, "enum", of)
Object(name) == Field(name, "object", "")
Ref(name, of) == Field(name, "ref", of)
Refs(name, of) == Field(name, "refs", of)

Fields(fields) == [fields |-> fields, exactly_one_of |-> <<>>]

Parts == <<Ref("subject", "authzen_subject"), Ref("action", "authzen_action"),
           Ref("resource", "authzen_resource"), Object("context")>>

Entity == <<Word("type"), Word("id"), Object("properties")>>

Surface ==
    [approval_clause |-> Fields(<<Plain0("quorum", "int"),
        Needed(Some(Refs("eligible", "identifier")))>>),
     approval_requirement |-> Fields(<<Needed(Some(Refs("all_of", "approval_clause"))),
        Plain0("separation_of_duties", "bool"), Needed(Text("expires_at"))>>),
     authzen_action |-> Fields(<<Word("name"), Object("properties")>>),
     authzen_bulk |-> Fields(Append(Parts, Needed(Some(Refs("evaluations", "authzen_request"))))),
     authzen_envelope |->
        [fields |-> <<[Ref("evaluation", "authzen_request")
                         EXCEPT !.requires = <<"action", "resource", "subject">>],
                      Ref("evaluations", "authzen_bulk")>>,
         exactly_one_of |-> <<<<"evaluation", "evaluations">>>>],
     authzen_error |-> Fields(<<Needed(Enum("code", "authzen_error_code")), Text("pointer"),
        Word("message"), Field("supported", "array", ""), Text("request_id")>>),
     authzen_request |-> Fields(Parts),
     authzen_resource |-> Fields(Entity),
     authzen_response |-> Fields(<<Plain0("decision", "bool"),
        Ref("context", "authzen_response_context")>>),
     authzen_response_context |-> Fields(<<
        [Needed(Text("profile")) EXCEPT !.const = AUTHZEN_PROFILE_V1],
        Needed(Enum("state", "operational_state")), Needed(Enum("category", "category")),
        Enum("reason", "reason_code"), Refs("obligations", "obligation"),
        Ref("approval", "approval_requirement"), Word("decision_id"), Word("schema_version")>>),
     authzen_subject |-> Fields(Entity),
     identifier |-> Fields(<<Needed(Enum("kind", "identifier_kind")), Needed(Text("type")),
        Text("qualifier"), Word("local")>>),
     obligation |-> Fields(<<Needed(Enum("type", "obligation_type")), Filled(Text("target")),
        Field("params", "map", ""), Plain0("mandatory", "bool"), Word("source_policy"),
        Plain0("schema_version", "int")>>)]

Enumerations ==
    [authzen_error_code |->
        <<"malformed_envelope", "incomplete_evaluation", "unsupported_subject",
          "unsupported_action", "unsupported_resource", "unevaluable_attribute",
          "missing_evaluable_content", "evaluation_unavailable">>,
     category |->
        <<"allowed", "not_permitted", "approval_required", "temporarily_unavailable",
          "invalid_request">>,
     identifier_kind |->
        <<"organization", "principal", "group", "resource", "action", "tool", "client",
          "session">>,
     obligation_type |->
        <<"approval_challenge", "field_remove", "field_redact", "field_hash", "field_mask",
          "field_annotate", "field_tokenize", "schema_transform", "response_filter",
          "route_restriction", "step_up_authentication", "quota_reservation",
          "immutable_audit", "notification">>,
     operational_state |-> <<"ALLOW", "DENY", "CHALLENGE", "ERROR">>,
     reason_code |->
        <<"permitted", "approval_required", "explicit_constraint", "no_matching_permission",
          "unknown_constraint", "unknown_permission", "unknown_requirement", "invalid_input",
          "evaluation_error", "unsupported_obligation", "obligation_conflict",
          "unknown_action", "unknown_realm", "schema_violation",
          "delegation_depth_exceeded", "budget_exhausted", "binding_mismatch",
          "approval_unsatisfiable", "approval_expired", "authoring_rejected">>]

(* A path is what stands between its slashes.                              *)
Artifact ==
    [artifact |-> "axonflow-authzen-surface", artifact_version |-> 1,
     profile |-> "axonflow-authzen-profile-2026-08-29",
     profile_header |-> "X-Axonflow-AuthZEN-Profile",
     method |-> "POST", path |-> <<"", "api", "v1", "access", "evaluation">>,
     contract_schema_version |-> "2026-08-29"]

-----------------------------------------------------------------------------
(* parse_surface: what it refuses to generate from.                        *)

check_ref(f) ==
    /\ f.kind \in {"ref", "refs"} => f.of \in DOMAIN Surface
    /\ f.kind = "enum" => f.of \in DOMAIN Enumerations
    /\ f.kind \in {"ref", "refs", "enum", "array", "map", "string", "bool", "int", "object"}
    /\ f.requires # <<>> =>
          /\ f.kind = "ref"
          /\ ToSet(f.requires) \subseteq {g.name : g \in ToSet(Surface[f.of].fields)}

parse_type(t) ==
    LET names == {f.name : f \in ToSet(t.fields)}
    IN /\ t.fields # <<>>
       /\ \A i, j \in DOMAIN t.fields : t.fields[i].name = t.fields[j].name => i = j
       /\ \A f \in ToSet(t.fields) : check_ref(f)
       /\ \A group \in ToSet(t.exactly_one_of) : Len(group) >= 2 /\ ToSet(group) \subseteq names

parse_surface(artifact) ==
    /\ artifact.method = "POST"
    /\ Len(artifact.path) > 1 /\ Head(artifact.path) = "" /\ Last(artifact.path) # ""
    /\ artifact.profile_header # ""
    /\ \A e \in DOMAIN Enumerations : Enumerations[e] # <<>> /\ IsInjective(Enumerations[e])
    /\ \A t \in DOMAIN Surface : parse_type(Surface[t])

-----------------------------------------------------------------------------
(* emit *)

When(condition, x) == IF condition THEN <<x>> ELSE <<>>

Mutant_emit_checks(f) ==
    When(f.required /\ f.kind \in {"string", "enum"}, Required(f.name))
    \o When(f.min_length > 1, MinLength(f.name))
    \o When(f.const # "", Const(f.name, f.const))
    \o When(f.min_items > 0, MinItems(f.name))
    \o [i \in DOMAIN f.requires |-> Base(f.name, f.requires[i])]
    \o When(f.kind \in {"ref", "refs"}, Nested(f.name, f.of))
    \o When(f.kind = "object", Bag(f.name))

(* The part of emit_validate that one field gets.                          *)
emit_checks(f) ==
    When(f.required /\ f.kind \in {"string", "enum"}, Required(f.name))
    \o When(f.min_length > 0 /\ (~f.required \/ f.min_length > 1), MinLength(f.name))
    \o When(f.const # "", Const(f.name, f.const))
    \o When(f.min_items > 0, MinItems(f.name))
    \o [i \in DOMAIN f.requires |-> Base(f.name, f.requires[i])]
    \o When(f.kind \in {"ref", "refs"}, Nested(f.name, f.of))
    \o When(f.kind = "object", Bag(f.name))

emit_validate(t) ==
    FlattenSeq([i \in DOMAIN t.exactly_one_of |->
                  <<ExactlyOne(t.exactly_one_of[i][1], t.exactly_one_of[i][2])>>])
    \o FlattenSeq([i \in DOMAIN t.fields |-> emit_checks(t.fields[i])])

(* The parameters of a type's constructor are positional, and a "type" is  *)
(* as good an Into<String> as an "id".                                     *)
emit_new(t) ==
    FlattenSeq([i \in DOMAIN t.fields |-> When(t.fields[i].required, t.fields[i].name)])

emit_type(t) ==
    Type(emit_new(t), {f.name : f \in {g \in ToSet(t.fields) : ~g.required}}, emit_validate(t))

emit_enum(values) == ToSet(values)

write_header(artifact) ==
    [AUTHZEN_PROFILE_V1 |-> artifact.profile,
     AUTHZEN_CONTRACT_SCHEMA_VERSION |-> artifact.contract_schema_version,
     AUTHZEN_PATH |-> artifact.path,
     AUTHZEN_PROFILE_HEADER |-> artifact.profile_header]

(* The generated file, or nothing where emit refuses the artifact.         *)
emit(artifact) ==
    IF /\ parse_surface(artifact)
       /\ DOMAIN Surface # {} /\ DOMAIN Enumerations # {}
       /\ artifact.artifact = "axonflow-authzen-surface"
       /\ artifact.artifact_version = 1
    THEN <<[header |-> write_header(artifact),
            enums |-> [e \in DOMAIN Enumerations |-> emit_enum(Enumerations[e])],
            types |-> [t \in DOMAIN Surface |-> emit_type(Surface[t])]]>>
    ELSE <<>>

(* What both the tool and the test of the committed file take.             *)
render == emit(Artifact)

(* types_gen.rs as it is committed.                                        *)
Committed ==
    [header |-> [AUTHZEN_PROFILE_V1 |-> AUTHZEN_PROFILE_V1,
                 AUTHZEN_CONTRACT_SCHEMA_VERSION |-> AUTHZEN_CONTRACT_SCHEMA_VERSION,
                 AUTHZEN_PATH |-> AUTHZEN_PATH,
                 AUTHZEN_PROFILE_HEADER |-> AUTHZEN_PROFILE_HEADER],
     enums |-> Enums,
     types |-> Types]

(* main, with --check.                                                     *)
check == render = <<Committed>>
=============================================================================
