-------------------------- MODULE PlatformSession --------------------------
(***************************************************************************)
(* An application at work with the platform: calls of every surface of the *)
(* client, one after the other, through the one funnel of Exchange; the    *)
(* heartbeat pass that a call may have to wait for; and the paging through *)
(* the approval queue.                                                     *)
(***************************************************************************)
EXTENDS Handshake, Reads, TypedPolicies, Checked, Authzen, Generator, PingPass,
        HitlWalk, Adapters

CONSTANT PingCalls   \* bound: the calls on whose way a pass may be made

sessionVars == <<vars, pass, walking, adapters>>

(* The surface of an operation says what it refuses, what it makes of an   *)
(* answer and which answers its handler has.                               *)
SessionRefusal(o) ==
    CASE o.surface = "reads" -> ReadsRefusal(o)
      [] o.surface = "typed" -> <<>>
      [] o.surface = "checked" -> CheckedRefusal(o)
      [] o.surface = "authzen" -> AuthzenRefusal(o)

SessionRead(o, a) ==
    CASE o.surface = "reads" -> ReadsRead(o, a)
      [] o.surface = "typed" -> TypedRead(o, a)
      [] o.surface = "checked" -> CheckedRead(o, a)
      [] o.surface = "authzen" -> AuthzenRead(o, a)

SessionAnswers(o, done) ==
    CASE o.surface = "reads" -> ReadsAnswers(o)
      [] o.surface = "typed" -> TypedAnswers(o, done)
      [] o.surface = "checked" -> CheckedAnswers(o)
      [] o.surface = "authzen" -> AuthzenAnswers(o)

SessionReadsBody(o, a) == o.surface = "checked" => CheckedReadsBody(o, a)

SessionReadsDeclaration(o) ==
    o.surface = "authzen" \/ (o.surface = "checked" /\ Operation[o.call].declares)

(* Every operation belongs to a surface and is one of its calls.           *)
ASSUME OpsAssumption ==
    \A o \in Ops :
       \/ o.surface = "reads" /\ o.call \in {"explain", "list"} /\ ~o.writes
       \/ /\ o.surface = "typed" /\ o.call \in DOMAIN AnswerTypes \cup {"active"}
          /\ o.writes <=> o.call \in {"publish", "activate"}
       \/ /\ o.surface = "checked" /\ o.call \in DOMAIN Operation
          /\ o.writes <=> Operation[o.call].writes
       \/ \E form \in Forms, lacks \in Lacks : o = Evaluation(form, lacks)

(* What answers in the platform's place knows none of its documents, sets  *)
(* none of its headers, and says by its status whether to ask again.       *)
ASSUME StraysAssumption ==
    \A a \in Strays :
       /\ a = Plain(a.status, a.body, a.meant)
       /\ a.status \in 200 .. 599 /\ a.body \in DOMAIN StrayMembers
       /\ a.meant \in {"done", "final", "transient"}
       /\ a.meant = "final" => ~(a.status >= 500 \/ a.status = 429)
       /\ a.meant = "transient" => a.status >= 500 \/ a.status = 429

-----------------------------------------------------------------------------
(* A declaration that is refused is refused where it is constructed.       *)
Declare(draft) ==
    /\ new(draft).declares # <<>>
    /\ with_pep_handshake(Head(new(draft).declares))

Exchanging ==
    \/ \E t \in Tokens : as_user(t)
    \/ \E draft \in Drafts : Declare(draft)
    \/ \E o \in Ops : Begin(o)
    \/ Call
    \/ TooManyRedirects
    \/ FollowRedirect
    \/ StopRedirect
    \/ Handle
    \/ GatewayAnswers
    \/ Unreachable
    \/ Arrive
    \/ Lose
    \/ Retry
    \/ Finish

(* Bound: what a request is built of, what goes on in a pass on its way,   *)
(* and paging, is followed for a client that acts for nobody and declares  *)
(* nothing.                                                                *)
Bare == client.user_token = "" /\ client.declares = <<>>

(* An attribute known to be absent is written where nothing can be nested: *)
(* it is told from a known one only by what it is sent as.                 *)
Building ==
    \/ \E a \in {Known, Absent, Unknown} : with_query(a)
    \/ \E a \in {Known, Unknown} : with_correlation("trace", a)
    \/ \E key \in {"args", "correlation"}, a \in {Known, Unknown, KnownMap(EmptyMap)} : Insert(key, a)
    \/ \E a \in {Absent, Unknown} : InsertProperty(a)

(* dispatch awaits the pass the gate lets through, and then sends; bound:  *)
(* on the way of a first attempt.                                          *)
Pinging ==
    \/ Bare /\ pc = "gate" /\ op.call \in PingCalls /\ tries = 1 /\ BeginPass /\ UNCHANGED adapters
    \/ /\ step # "off" /\ step \notin Over
       /\ PassNext
       /\ IF payload' # payload THEN ReportAdapters ELSE UNCHANGED adapters
    \/ declared # {} /\ step \in Over /\ EndPass /\ ForgetPayload

(* Adapters declare themselves just before a payload is made or just after *)
(* it was delivered, and then the session is followed through its next     *)
(* passes only (bounds).                                                   *)
RegisteringAdapters ==
    /\ pc = "gate" /\ op.call \in PingCalls
    /\ step \in {"probed", "delivered"}
    /\ Bare
    /\ \E name \in Names : register_adapter(name)

Sending ==
    /\ step \in Over \cup {"off"}
    /\ declared = {}
    /\ Send
    /\ EndPass
    /\ ForgetPayload

SessionInit == Init /\ PassInit /\ WalkInit /\ AdaptersInit

(* Paging shares nothing with the other calls: a session in which requests *)
(* for approval arrive makes no other (a bound).                           *)
SessionNext ==
    \/ Exchanging /\ arrived = 0 /\ ~walk.on /\ UNCHANGED <<pass, walking, adapters>>
    \/ Bare /\ Building /\ UNCHANGED <<pass, walking, adapters>>
    \/ Pinging /\ UNCHANGED <<vars, walking>>
    \/ RegisteringAdapters /\ UNCHANGED <<vars, pass, walking>>
    \/ Sending /\ UNCHANGED walking
    \/ Bare /\ pc = "idle" /\ WalkNext /\ UNCHANGED <<vars, pass, adapters>>

SessionSpec == SessionInit /\ [][SessionNext]_sessionVars

-----------------------------------------------------------------------------
(* Properties *)

(* Every part of the session is of its type; in particular what is sent as *)
(* somebody's identity is a token as it is once trimmed.                   *)
SessionTypeOK == TypeOK /\ PassTypeOK /\ WalkTypeOK /\ AdaptersTypeOK

(* A declaration that goes out is one the platform's decoder takes, in the *)
(* one form of the set it declares: what was refused at construction would *)
(* have been a 400 on the first governed call.                             *)
DeclarationIsCanonical ==
    pc = "sent" /\ wire.declared # <<>> => Readable(Head(wire.declared))

(* An application learns of a read scope exactly when one stands between   *)
(* it and the decisions it asked for.                                      *)
ScopeIsTold == EmptyPageIsTrue /\ ScopeRefusalIsTrue

(* The types an evaluation is validated with before it is sent and after   *)
(* it is decoded are those of the artifact: the members and wire values,   *)
(* and, in the artifact's order, the constructors' parameters and the      *)
(* checks.                                                                 *)
GeneratedIsCurrent == op.surface = "authzen" => check
=============================================================================
