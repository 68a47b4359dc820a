------------------------------ MODULE Authzen ------------------------------
(***************************************************************************)
(* The AuthZEN evaluation (src/src/authzen/mod.rs): an application fills   *)
(* the attribute bags of a request, the envelope is validated before it is *)
(* sent, and of an answer only a decision this build can read whole is one *)
(* it can act on.                                                          *)
(*                                                                         *)
(* The operation carries what is being built: form says which bag context  *)
(* is (the evaluation's, an entry's of a bulk one, or the shared one),     *)
(* properties are the subject's, and unread are the attributes the         *)
(* application said it could not read and has not replaced since.          *)
(***************************************************************************)
EXTENDS Exchange, AuthzenTypes

CONSTANTS
    MaxBuild,    \* bound: the attributes written on one request
    Verdicts     \* the documents in which a decision may arrive

Forms == {"single", "entry", "shared"}

(* What a request may be sent without: nothing, the subject's id, the      *)
(* action, or every entry of a bulk evaluation.                            *)
Lacks == {"none", "id", "action", "entries"}

Evaluation(form, lacks) ==
    [surface |-> "authzen", call |-> IF form = "single" THEN "evaluate" ELSE "evaluate_all",
     method |-> "POST", writes |-> FALSE, override |-> <<>>, form |-> form, lacks |-> lacks,
     context |-> EmptyMap, properties |-> EmptyMap, unread |-> {}, written |-> 0]

-----------------------------------------------------------------------------
(* Building a request *)

Build(o) ==
    /\ pc = "building" /\ op.surface = "authzen"
    /\ op.written < MaxBuild
    /\ op' = [o EXCEPT !.written = @ + 1]
    /\ UNCHANGED <<client, pc, wire, outcomes, tries, history>>

Unreading(o, path, attribute) ==
    IF attribute = Unknown THEN [o EXCEPT !.unread = @ \cup {path}] ELSE o

with_query(query) ==
    Build(Unreading([op EXCEPT !.context = record_nested(@, "args", "query", query)],
                    <<"args", "query">>, query))

with_correlation(key, value) ==
    Build(Unreading([op EXCEPT !.context = record_nested(@, "correlation", key, value)],
                    <<"correlation", key>>, value))

(* The application writes the bag itself, in place of what the key held.   *)
Insert(key, attribute) ==
    Build(Unreading([op EXCEPT !.context = insert(@, key, attribute),
                               !.unread = {path \in @ : Head(path) # key}],
                    <<key>>, attribute))

InsertProperty(attribute) ==
    Build(Unreading([op EXCEPT !.properties = insert(@, "role", attribute),
                               !.unread = @ \ {<<"role">>}],
                    <<"role">>, attribute))

-----------------------------------------------------------------------------
(* evaluate_envelope *)

Envelope(o) ==
    LET subject == [type |-> <<"user">>, id |-> <<IF o.lacks = "id" THEN "" ELSE "alice">>,
                    properties |-> <<o.properties>>]
        parts == [subject |-> <<subject>>,
                  action |-> IF o.lacks = "action" THEN <<>> ELSE <<[name |-> <<"read">>]>>,
                  resource |-> <<[type |-> <<"tool">>, id |-> <<"t">>]>>,
                  context |-> <<o.context>>]
        over(base, entries) ==
            With(base, "evaluations", IF o.lacks = "entries" THEN <<>> ELSE entries)
    IN CASE o.form = "single" -> [evaluation |-> <<parts>>]
         [] o.form = "entry" -> [evaluations |-> <<over(EmptyMap, <<parts>>)>>]
         [] o.form = "shared" ->
              [evaluations |-> <<over(parts, <<[context |-> <<EmptyMap>>]>>)>>]

local_refusal(code) ==
    IF code = "evaluation_unavailable" THEN Result("Unresolved", 0, code)
    ELSE Result("Refused", 0, code)

(* What validate lets through and the serialiser does not.                 *)
Unserialisable(o) == unreadable(o.context) \/ unreadable(o.properties)

AuthzenRefusal(o) ==
    LET code == validate("authzen_envelope", Envelope(o))
    IN CASE code # "valid" -> <<local_refusal(code)>>
         [] code = "valid" /\ Unserialisable(o) -> <<Result("UnusableRequest", 0, code)>>
         [] OTHER -> <<>>

Unusable(why) == Result("UnusableResponse", 0, why)

(* AuthZenDecision::allowed.                                               *)
allowed(v) == v.decision = <<TRUE>> /\ Head(v.context).state = <<"ALLOW">>

Mutant_from_response(v) ==
    CASE Member(v, "context") = <<>> -> Ok(IF v.decision = <<TRUE>> THEN "allowed" ELSE "denied")
      [] OTHER -> Unusable("invalid")

(* AuthZenDecision::from_response: an absent context is a blanked one, and *)
(* the boolean and the state are two renderings of one outcome.            *)
from_response(v) ==
    LET context == Head(v.context)
    IN CASE Member(v, "context") = <<>> -> Unusable("no context")
         [] Member(v, "context") # <<>> /\ context.profile # <<AUTHZEN_PROFILE_V1>> ->
              Result("UnreadableProfile", 0, "profile")
         [] OTHER ->
              IF validate("authzen_response", v) # "valid" THEN Unusable("invalid")
              ELSE IF (context.state = <<"ALLOW">>) # (v.decision = <<TRUE>>)
                   THEN Unusable("contradictory")
                   ELSE Ok(IF allowed(v) THEN "allowed" ELSE "denied")

Mutant_refused(a) == a.body \in authzen_error_code \cup {"gateway"}

(* A body that is a typed refusal is read as one when it is a client error *)
(* or its code is known; a gateway has codes of its own.                   *)
refused(a) ==
    \/ a.body \in authzen_error_code
    \/ a.body = "gateway" /\ a.status \in 400 .. 499

AuthzenRead(o, a) ==
    CASE ~is_success(a.status) /\ refused(a) -> Result("Refused", a.status, a.body)
      [] ~is_success(a.status) /\ ~refused(a) -> Result("ApiError", a.status, a.body)
      [] OTHER -> IF a.doc = <<>> \/ ~decodes("authzen_response", Head(a.doc))
                  THEN Unusable("undecodable")
                  ELSE from_response(Head(a.doc))

-----------------------------------------------------------------------------
(* The platform: its decisions, and what they become on an older or newer  *)
(* server or behind a proxy that drops or blanks parts of them: any        *)
(* document, as long as it is JSON with objects where this build looks for *)
(* them.                                                                   *)

Clausal(v) == IsObject(v) /\ \A who \in ToSet(Member(v, "eligible")) : IsObject(who)

Approves(v) == IsObject(v) /\ \A clause \in ToSet(Member(v, "all_of")) : Clausal(clause)

Contextual(c) ==
    /\ IsObject(c)
    /\ \A owed \in ToSet(Member(c, "obligations")) : IsObject(owed)
    /\ \A approval \in ToSet(Member(c, "approval")) : Approves(approval)

Documented(d) == IsObject(d) /\ \A c \in ToSet(Member(d, "context")) : Contextual(c)

ASSUME VerdictsAssumption == \A d \in Verdicts : Documented(d)

Decided(document) == [Plain(200, "decision", "final") EXCEPT !.doc = <<document>>]

AuthzenAnswers(o) ==
    {Decided(document) : document \in Verdicts} \cup
    {Plain(422, "unsupported_action", "final"), Plain(401, "unauthenticated", "final"),
     Plain(503, "evaluation_unavailable", "transient"), Plain(500, "fault", "transient")}

-----------------------------------------------------------------------------
(* Properties *)

(* A request with an attribute the application said it could not read is   *)
(* never decided upon, whatever it wrote to the request before and after,  *)
(* in whichever bag; it learns so in a way that asks for a new request and *)
(* not for the same one again.                                             *)
UnknownNeverWeighed ==
    op.surface = "authzen" /\ op.unread # {} =>
       /\ ~OnTheWire
       /\ pc = "done" => result.kind \in {"Unresolved", "Refused"} /\ ~is_retryable(result)

(* An application told it is allowed has been given everything that        *)
(* constrains the allow, and nothing this build cannot read: the profile   *)
(* it negotiated, a state that agrees, obligations with their type and     *)
(* policy, approvals with somebody eligible in every clause.               *)
AllowIsWhole ==
    pc = "done" /\ op.surface = "authzen" /\ result.value = <<"allowed">> =>
       LET document == Head(answer.doc)
           context == Head(document.context)
       IN /\ is_success(answer.status) /\ document.decision = <<TRUE>>
          /\ Member(document, "context") # <<>>
          /\ context.profile = <<AUTHZEN_PROFILE_V1>> /\ context.state = <<"ALLOW">>
          /\ \A m \in {"category", "decision_id", "schema_version"} : context[m] # <<"">>
          /\ "conditions" \notin DOMAIN context
          /\ \A owed \in ToSet(Member(context, "obligations")) :
                owed.type # <<"">> /\ owed.source_policy # <<"">> /\ Member(owed, "target") # <<"">>
          /\ \A approval \in ToSet(Member(context, "approval")) :
                /\ approval.all_of # <<>>
                /\ \A clause \in ToSet(approval.all_of) :
                      clause.eligible # <<>> /\ \A who \in ToSet(clause.eligible) : who.local # <<"">>
=============================================================================
