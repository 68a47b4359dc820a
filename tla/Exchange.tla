------------------------------ MODULE Exchange ------------------------------
(***************************************************************************)
(* One call of the client, from the application's request to its result:   *)
(* AxonFlowClient::dispatch, stamp_identity, redirect_policy and           *)
(* check_status (src/src/client.rs), with the error taxonomy of            *)
(* src/src/error.rs that tells the application whether to ask again.       *)
(*                                                                         *)
(* What an operation sends, refuses locally and makes of an answer is the  *)
(* matter of the surface it belongs to: Refusal, Answers and Read are      *)
(* parameters.  The platform, and whatever else answers on its origin, are *)
(* external.  The application repeats a call while its error is retryable, *)
(* as docs/ERROR_HANDLING.md tells it to.                                  *)
(***************************************************************************)
EXTENDS Naturals, Sequences

CONSTANTS
    Ops,              \* the operations: [surface, call, method, writes, override, ...]
    Tokens,           \* what an application may pass as a user token
    UnusableTokens,   \* the trimmed ones that are no HTTP header value
    trim(_),          \* str::trim on a token
    Handshakes,       \* the PEP declarations an application can construct
    Home,             \* the configured endpoint's URL: [scheme, host, port]
    Targets,          \* the URLs a redirect may name
    RedirectLimit,    \* the length of attempt.previous() that is too long
    MaxTries,         \* bound: how often the application makes one call
    Refusal(_),       \* what the operation refuses before it sends: <<>> or <<result>>
    Answers(_, _),    \* the answers of the platform's handler
    Strays,           \* the answers of what else answers at the endpoint
    Read(_, _),       \* the result the operation makes of an answer
    ReadsBody(_, _),  \* whether it reads that answer's body
    ReadsDeclaration(_)  \* whether it posts to a route that reads the PEP declaration

ASSUME BoundsAssumption == RedirectLimit \in Nat \ {0} /\ MaxTries \in Nat \ {0}

(* A trimmed token is itself.                                              *)
ASSUME TokenAssumption ==
    /\ trim("") = "" /\ \A t \in Tokens : trim(trim(t)) = trim(t)
    /\ \A o \in Ops : o.override = <<>> \/ Head(o.override) \in Tokens \cup {""}

(* Only the platform's handler performs an operation.                      *)
ASSUME AnswersAssumption == \A a \in Strays : ~a.performs

VARIABLES
    client,      \* [user_token, declares], the client called on; "" is no token,
                 \* declares is <<>> or <<handshake>>
    op,          \* the operation and its arguments
    pc,          \* where the call is
    wire,        \* the request on the wire
    answer,      \* the answer to it
    result,      \* what the application gets
    tries,       \* the attempts made
    performed,   \* how often the platform did what the operation asks for
    lost         \* an answer to this call was lost or could not be read whole

call == <<client, op>>
outcomes == <<answer, result>>
history == <<performed, lost>>
vars == <<client, op, pc, wire, answer, result, tries, performed, lost>>

Phases == {"idle", "building", "gate", "sent", "answered", "done"}

Nothing == [surface |-> "none", call |-> "none", method |-> "GET",
            writes |-> FALSE, override |-> <<>>]

NoWire == [at |-> Home, identity |-> "", declared |-> <<>>, hops |-> 0, whole |-> TRUE]

(* Every answer has these members; a surface may use doc for the document. *)
Plain(status, body, meant) ==
    [status |-> status, body |-> body, meant |-> meant,
     wait |-> "none", scope |-> <<>>, performs |-> FALSE, doc |-> <<>>]

NoAnswer == Plain(0, "none", "none")

Result(kind, status, reason) ==
    [kind |-> kind, status |-> status, reason |-> reason, wait |-> FALSE, value |-> <<>>]

NoResult == Result("none", 0, "none")

Ok(value) == [NoResult EXCEPT !.kind = "ok", !.value = <<value>>]

HttpError(reason) == Result("HttpError", 0, reason)

(* AuthZenErrorCode::retryable: a code this build does not know is not.    *)
retryable(code) == code = "evaluation_unavailable"

Mutant_is_retryable(r) ==
    \/ r.kind = "HttpError" /\ r.reason \in {"timeout", "connect"}
    \/ r.kind \in {"ApiError", "TypedPolicyRefusal"} /\ (r.status >= 500 \/ r.status = 429)
    \/ r.kind = "RateLimited"
    \/ r.kind = "TypedPolicyRefusal" /\ r.wait
    \/ r.kind = "Refused" /\ retryable(r.reason)

(* AxonFlowError::is_retryable, with AuthZenEvaluationError::retryable for *)
(* the kind "Refused".                                                     *)
is_retryable(r) ==
    \/ r.kind = "HttpError" /\ r.reason \in {"timeout", "connect"}
    \/ r.kind = "ApiError" /\ (r.status >= 500 \/ r.status = 429)
    \/ r.kind = "RateLimited"
    \/ /\ r.kind = "TypedPolicyRefusal"
       /\ r.wait \/ (r.status >= 500 /\ r.reason # "catalog_not_configured")
    \/ r.kind = "Refused" /\ retryable(r.reason)

Mutant_is_success(status) == status = 200

is_success(status) == status \in 200 .. 299

(* The calls that go through check_status: a non-2xx answer is ApiError.   *)
check_status(a, read) ==
    IF is_success(a.status) THEN read ELSE Result("ApiError", a.status, a.body)

Identities == {trim(t) : t \in Tokens} \cup {""}

Declarations == {<<>>} \cup [1 .. 1 -> Handshakes]

TypeOK ==
    /\ client \in [user_token : Tokens \cup Identities, declares : Declarations]
    /\ pc \in Phases
    /\ wire \in [at : Targets \cup {Home}, identity : Identities, declared : Declarations,
                 hops : 0 .. RedirectLimit, whole : BOOLEAN]
    /\ tries \in 0 .. MaxTries
    /\ performed \in 0 .. MaxTries
    /\ lost \in BOOLEAN

-----------------------------------------------------------------------------
(* The client the application calls on *)

(* derived: everything but the one member is the other client's.           *)
as_user(token) ==
    /\ pc = "idle"
    /\ client' = [client EXCEPT !.user_token = trim(token)]
    /\ UNCHANGED <<op, pc, wire, outcomes, tries, history>>

(* Another declaration takes the place of the client's own.                *)
with_pep_handshake(h) ==
    /\ pc = "idle"
    /\ client' = [client EXCEPT !.declares = <<h>>]
    /\ UNCHANGED <<op, pc, wire, outcomes, tries, history>>

Begin(o) ==
    /\ pc = "idle"
    /\ op' = o
    /\ pc' = "building"
    /\ UNCHANGED <<client, wire, outcomes, tries, history>>

(* The operation checks its arguments; only then it goes to dispatch.      *)
Call ==
    /\ pc = "building"
    /\ \/ Refusal(op) # <<>> /\ result' = Head(Refusal(op)) /\ pc' = "done"
       \/ Refusal(op) = <<>> /\ pc' = "gate" /\ UNCHANGED result
    /\ tries' = 1
    /\ UNCHANGED <<call, wire, answer, history>>

-----------------------------------------------------------------------------
(* dispatch *)

Port(url) ==
    IF url.port # 0 THEN url.port ELSE IF url.scheme = "https" THEN 443 ELSE 80

same_origin(a, b) ==
    /\ a.scheme = b.scheme
    /\ a.host = b.host
    /\ Port(a) = Port(b)

Mutant2_token(o, c) == IF o.override = <<>> THEN c.user_token ELSE Head(o.override)

Mutant_token(o, c) == trim(IF o.override \in {<<>>, <<"">>} THEN c.user_token ELSE Head(o.override))

(* The token of the call if it names one, blank or not, else the client's. *)
token(o, c) == trim(IF o.override = <<>> THEN c.user_token ELSE Head(o.override))

Mutant_pep_handshake_header(o, c) == c.declares

(* No declaration is no header; an empty one is a declaration.             *)
pep_handshake_header(o, c) == IF ReadsDeclaration(o) THEN c.declares ELSE <<>>

stamp_identity(req, t) ==
    IF t # "" /\ same_origin(req.at, Home) THEN [req EXCEPT !.identity = t] ELSE req

Mutant_Send ==
    /\ pc = "gate"
    /\ LET t == token(op, client)
           req == [NoWire EXCEPT !.declared = pep_handshake_header(op, client)]
       IN wire' = IF t \in UnusableTokens THEN req ELSE stamp_identity(req, t)
    /\ pc' = "sent"
    /\ answer' = NoAnswer
    /\ UNCHANGED <<call, result, tries, history>>

(* A token no header can carry stops the call instead of being left out.   *)
Send ==
    /\ pc = "gate"
    /\ LET t == token(op, client)
           req == [NoWire EXCEPT !.declared = pep_handshake_header(op, client)]
       IN \/ /\ t \in UnusableTokens
             /\ result' = Result("ConfigError", 0, "unusable_token")
             /\ pc' = "done"
             /\ UNCHANGED wire
          \/ /\ t \notin UnusableTokens
             /\ wire' = stamp_identity(req, t)
             /\ pc' = "sent"
             /\ UNCHANGED result
    /\ answer' = NoAnswer
    /\ UNCHANGED <<call, tries, history>>

TooManyRedirects ==
    /\ pc = "sent"
    /\ wire.hops + 1 >= RedirectLimit
    /\ result' = HttpError("redirect")
    /\ pc' = "done"
    /\ UNCHANGED <<call, wire, answer, tries, history>>

(* The HTTP library repeats a POST as a GET without its body when the      *)
(* redirect is a 301, 302 or 303, and keeps it for a 307 or 308.           *)
FollowRedirect ==
    /\ pc = "sent"
    /\ wire.hops + 1 < RedirectLimit
    /\ \E to \in Targets, rewrites \in BOOLEAN :
          /\ same_origin(to, Home)
          /\ wire' = [wire EXCEPT !.at = to, !.hops = @ + 1,
                                  !.whole = @ /\ ~(rewrites /\ op.method = "POST")]
    /\ UNCHANGED <<call, pc, outcomes, tries, history>>

(* A redirect that leaves the origin is not followed: the caller gets the  *)
(* 3xx itself.                                                             *)
StopRedirect ==
    /\ pc = "sent"
    /\ wire.hops + 1 < RedirectLimit
    /\ \E to \in Targets : ~same_origin(to, Home)
    /\ answer' = Plain(302, "redirect", "final")
    /\ pc' = "answered"
    /\ UNCHANGED <<call, wire, result, tries, history>>

(* The request is handled: by the operation's handler if it arrives there  *)
(* whole, or by anything else that answers at the endpoint.                *)
Handle ==
    /\ pc = "sent"
    /\ \E a \in Strays \cup (IF wire.whole THEN Answers(op, performed) ELSE {}) :
          /\ answer' = a
          /\ performed' = IF a.performs THEN performed + 1 ELSE performed
    /\ pc' = "answered"
    /\ UNCHANGED <<call, wire, result, tries, lost>>

(* A gateway gives up on the handler and answers in its place.             *)
GatewayAnswers ==
    /\ pc = "answered" /\ answer.performs
    /\ \E a \in Strays : a.meant = "transient" /\ answer' = a
    /\ lost' = TRUE
    /\ UNCHANGED <<call, pc, wire, result, tries, performed>>

(* No connection, or the client's timeout before anyone handled it.        *)
Unreachable ==
    /\ pc = "sent"
    /\ \E reason \in {"connect", "timeout"} : result' = HttpError(reason)
    /\ pc' = "done"
    /\ UNCHANGED <<call, wire, answer, tries, history>>

Arrive ==
    /\ pc = "answered"
    /\ result' = Read(op, answer)
    /\ pc' = "done"
    /\ UNCHANGED <<call, wire, answer, tries, history>>

(* The timeout strikes before the answer arrives, or the connection breaks *)
(* within a body the operation reads.                                      *)
Lose ==
    /\ pc = "answered"
    /\ \/ result' = HttpError("timeout")
       \/ ReadsBody(op, answer) /\ result' = HttpError("broken")
    /\ lost' = TRUE
    /\ answer' = NoAnswer
    /\ pc' = "done"
    /\ UNCHANGED <<call, wire, tries, performed>>

-----------------------------------------------------------------------------
Retry ==
    /\ pc = "done"
    /\ is_retryable(result)
    /\ tries < MaxTries
    /\ tries' = tries + 1
    /\ pc' = "gate"
    /\ result' = NoResult
    /\ UNCHANGED <<call, wire, answer, history>>

Finish ==
    /\ pc = "done"
    /\ op' = Nothing
    /\ pc' = "idle"
    /\ wire' = NoWire
    /\ answer' = NoAnswer
    /\ result' = NoResult
    /\ tries' = 0
    /\ performed' = 0
    /\ lost' = FALSE
    /\ UNCHANGED client

Init ==
    /\ client \in [user_token : Tokens \cup {""}, declares : {<<>>}]
    /\ op = Nothing
    /\ pc = "idle"
    /\ wire = NoWire
    /\ answer = NoAnswer
    /\ result = NoResult
    /\ tries = 0
    /\ performed = 0
    /\ lost = FALSE

Next ==
    \/ \E t \in Tokens : as_user(t)
    \/ \E h \in Handshakes : with_pep_handshake(h)
    \/ \E o \in Ops : Begin(o)
    \/ Call
    \/ Send
    \/ TooManyRedirects
    \/ FollowRedirect
    \/ StopRedirect
    \/ Handle
    \/ GatewayAnswers
    \/ Unreachable
    \/ Arrive
    \/ Lose
    \/ Retry
    \/ Finish

Spec == Init /\ [][Next]_vars

-----------------------------------------------------------------------------
(* Properties *)

OnTheWire == pc \in {"sent", "answered"}

(* A request speaks for exactly the person the application named for this  *)
(* call: the per-call token even when it is blank, else the token of the   *)
(* client it derived, whatever was redirected or repeated in between; and  *)
(* it is never addressed to another origin than the configured one.        *)
SpeaksForItsUser ==
    OnTheWire =>
       /\ <<wire.at.scheme, wire.at.host, Port(wire.at)>> = <<Home.scheme, Home.host, Port(Home)>>
       /\ \/ op.override = <<>> /\ wire.identity = trim(client.user_token)
          \/ op.override # <<>> /\ op.override = <<"">> /\ wire.identity = ""
          \/ op.override # <<>> /\ wire.identity = trim(Head(op.override))

(* A route that reads the PEP declaration gets the one of the client the   *)
(* call was made on, also after a redirect or a repetition, and never that *)
(* of the client it was derived from; no other route gets one, for that    *)
(* would be a claim nobody checks.                                         *)
DeclaredWhereRead ==
    OnTheWire =>
       /\ ReadsDeclaration(op) => wire.declared = client.declares
       /\ wire.declared # <<>> => ReadsDeclaration(op)

Answered == pc = "done" /\ answer # NoAnswer

(* What the platform meant as its last word is never asked for again by an *)
(* application that repeats a call while its error is retryable.           *)
FinalIsFinal == Answered /\ answer.meant = "final" => ~is_retryable(result)

(* A failure that will pass is reported as one, whoever answered in the    *)
(* platform's place - except that the two surfaces with refusals of their  *)
(* own take a 429 for the platform's word on a cap or on the request.      *)
TransientIsRetryable ==
    Answered /\ answer.meant = "transient" =>
       \/ is_retryable(result)
       \/ answer.status = 429 /\ result.kind \in {"TypedPolicyRefusal", "Refused"}

(* is_retryable tells the two apart.                                       *)
RetryAdviceIsTrue == FinalIsFinal /\ TransientIsRetryable

(* A success that comes with what was done - the identifier, the digest,   *)
(* the record - and not a bare success: true, which the client takes from  *)
(* anybody's document, or a false one, the default.                        *)
Reported(r) == r.kind = "ok" /\ r.value \notin {<<"claimed">>, <<"unsuccessful">>}

(* A change that is reported with its record was made, also when a login   *)
(* page or a gateway's document came back with a 200, whatever success it  *)
(* claims.  Only what does not read the body can be fooled.                *)
SuccessIsPerformed ==
    Answered /\ op.writes /\ Reported(result) => performed > 0 \/ ~ReadsBody(op, answer)

(* It is done twice, or done and not reported with its record, only after  *)
(* an answer was lost on the way.                                          *)
LossExplains ==
    pc = "done" /\ ~lost =>
       /\ performed <= 1
       /\ performed = 1 => Reported(result)

-----------------------------------------------------------------------------
(* What the call promises *)

(* The person named for the call itself, or the one the client acts for.   *)
NamedFor ==
    IF pc = "idle" THEN <<>>
    ELSE IF op.override = <<>> THEN <<trim(client.user_token)>> ELSE <<trim(Head(op.override))>>

SpeaksFor == IF OnTheWire THEN <<wire.identity>> ELSE <<>>

(* A 429 is a word on how much one may ask for, or how often.              *)
Meant ==
    IF answer.meant = "capped" \/ (answer.meant = "transient" /\ answer.status = 429)
    THEN "limited" ELSE answer.meant

(* What an application can tell of its own change by the document read:    *)
(* the change with its record, a bare success: true, or neither.           *)
Informed ==
    IF pc # "done" THEN "none"
    ELSE IF result.kind = "ok"
         THEN IF ~op.writes \/ ~ReadsBody(op, answer) THEN "ok"
              ELSE IF Reported(result) THEN "performed"
              ELSE IF result.value = <<"claimed">> THEN "claimed" ELSE "ok"
         ELSE IF is_retryable(result) THEN "again" ELSE "failed"

Telling == INSTANCE CallPromise WITH
    People <- Identities,
    named <- NamedFor,
    speaking <- SpeaksFor,
    acted <- performed,
    unheard <- lost,
    word <- Meant,
    told <- Informed

(* A call through the funnel, with its redirects, its losses and its       *)
(* repetitions, is one of CallPromise: it speaks for the person it was     *)
(* made for to the end, is repeated only while nothing was done or an      *)
(* answer was lost, and what the application is told of it agrees with     *)
(* what the platform did and meant.                                        *)
CallKeepsPromise == Telling!PromiseSpec
=============================================================================
