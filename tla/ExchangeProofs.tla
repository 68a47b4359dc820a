--------------------------- MODULE ExchangeProofs ---------------------------
(***************************************************************************)
(* Proofs about Exchange for every set of operations, tokens, redirect     *)
(* targets, answers and strays, and every bound on redirects and attempts. *)
(*                                                                         *)
(* The lemmas about steps hold for an operation that is still being filled *)
(* in after it was begun (Revised), as the requests of AuthZEN are.        *)
(***************************************************************************)
EXTENDS Exchange, TLAPS

(* The same operation as far as the funnel looks at it.                    *)
SameCall(o, b) ==
    /\ o.surface = b.surface
    /\ o.call = b.call
    /\ o.method = b.method
    /\ o.writes = b.writes
    /\ o.override = b.override

Called(o) == \E b \in Ops : SameCall(o, b)

OpTyped == pc # "idle" => Called(op)

OpListed == pc # "idle" => op \in Ops

(* Before it is checked and sent, an operation may get other arguments.    *)
Revised ==
    /\ pc = "building"
    /\ SameCall(op', op)
    /\ UNCHANGED <<client, pc, wire, outcomes, tries, history>>

Step == Next \/ Revised

(* Each attempt at most once.                                              *)
Counted ==
    /\ pc \in {"idle", "building"} => performed = 0
    /\ pc \in {"gate", "sent"} => performed < tries
    /\ pc \in {"answered", "done"} => performed <= tries

(* What is on the wire is the request of this call: where it is addressed, *)
(* for whom it speaks and what it declares were settled by Send.           *)
WireIsCall ==
    OnTheWire =>
       /\ same_origin(wire.at, Home)
       /\ wire.identity = token(op, client)
       /\ wire.declared = pep_handshake_header(op, client)

(* A surface that reads the answer of a performed operation so.            *)
ReadsSuccess(o) ==
    \A done \in 0 .. MaxTries :
       \A a \in Answers(o, done) : a.performs => Reported(Read(o, a))

(* Until an answer is lost the platform acts at most once, and from then   *)
(* on the answer that says so is on its way or has been read.              *)
ActsOnce ==
    ~lost =>
       /\ performed \in {0, 1}
       /\ performed = 1 =>
             \/ pc = "answered" /\ Reported(Read(op, answer))
             \/ pc = "done" /\ Reported(result)

-----------------------------------------------------------------------------
(* Operators *)

(* A token as sent is an identity.                                         *)
LEMMA TokenIsIdentity ==
    ASSUME TypeOK, NEW o, Called(o)
    PROVE  token(o, client) \in Identities
<1>1. client.user_token \in Tokens \cup Identities
  BY DEF TypeOK
<1>2. \A t \in Tokens \cup Identities : trim(t) \in Identities
  BY TokenAssumption DEF Identities
<1>3. o.override = <<>> \/ Head(o.override) \in Tokens \cup {""}
  BY TokenAssumption DEF Called, SameCall
<1>4. CASE o.override = <<>>
  BY <1>1, <1>2, <1>4 DEF token
<1>5. CASE o.override # <<>>
  BY <1>2, <1>3, <1>5 DEF token, Identities
<1> QED
  BY <1>4, <1>5

(* What a request declares is a declaration, or none.                      *)
LEMMA NoneIsDeclaration == <<>> \in Declarations
BY DEF Declarations

LEMMA HandshakeIsDeclaration ==
    ASSUME NEW h \in Handshakes
    PROVE  <<h>> \in Declarations
<1>1. <<h>> \in [1 .. 1 -> Handshakes]
  OBVIOUS
<1> QED
  BY <1>1 DEF Declarations

LEMMA DeclarationIsTyped ==
    ASSUME TypeOK, NEW o
    PROVE  pep_handshake_header(o, client) \in Declarations
BY NoneIsDeclaration DEF TypeOK, pep_handshake_header

(* Stamping sets the identity to the token, or leaves it out if there is   *)
(* none, on a request to the endpoint itself.                              *)
LEMMA StampedWith ==
    ASSUME NEW t \in Identities, NEW d
    PROVE  stamp_identity([NoWire EXCEPT !.declared = d], t)
              \in [at : {Home}, identity : {t}, declared : {d}, hops : {0}, whole : {TRUE}]
<1> DEFINE req == [NoWire EXCEPT !.declared = d]
<1>1. req \in [at : {Home}, identity : {""}, declared : {d}, hops : {0}, whole : {TRUE}]
  BY DEF NoWire
<1>2. same_origin(req.at, Home)
  BY <1>1 DEF same_origin
<1> HIDE DEF req
<1>3. stamp_identity(req, t) \in
         [at : {Home}, identity : {t}, declared : {d}, hops : {0}, whole : {TRUE}]
  BY <1>1, <1>2 DEF stamp_identity
<1> QED
  BY <1>3 DEF req

(* What Send puts on the wire.                                             *)
LEMMA Stamped ==
    ASSUME TypeOK, OpTyped, Send, pc' = "sent"
    PROVE  /\ wire' \in [at : {Home}, identity : {token(op, client)},
                         declared : {pep_handshake_header(op, client)}, hops : {0}, whole : {TRUE}]
           /\ wire' \in [at : Targets \cup {Home}, identity : Identities, declared : Declarations,
                         hops : 0 .. RedirectLimit, whole : BOOLEAN]
<1>1. Called(op)
  BY DEF Send, OpTyped
<1>2. token(op, client) \in Identities /\ pep_handshake_header(op, client) \in Declarations
  BY <1>1, TokenIsIdentity, DeclarationIsTyped
<1>3. wire' = stamp_identity([NoWire EXCEPT !.declared = pep_handshake_header(op, client)],
                             token(op, client))
  BY DEF Send
<1>4. wire' \in [at : {Home}, identity : {token(op, client)},
                declared : {pep_handshake_header(op, client)}, hops : {0}, whole : {TRUE}]
  BY <1>2, <1>3, StampedWith
<1>5. 0 \in 0 .. RedirectLimit
  BY BoundsAssumption
<1> QED
  BY <1>2, <1>4, <1>5

-----------------------------------------------------------------------------
(* Types *)

LEMMA NoWireTyped ==
    NoWire \in [at : Targets \cup {Home}, identity : Identities, declared : Declarations,
                hops : 0 .. RedirectLimit, whole : BOOLEAN]
<1>1. 0 \in 0 .. RedirectLimit
  BY BoundsAssumption
<1>2. "" \in Identities /\ Home \in Targets \cup {Home}
  BY DEF Identities
<1> QED
  BY <1>1, <1>2, NoneIsDeclaration DEF NoWire

(* The initial state has the declared types.                               *)
LEMMA ExchangeTypeInit == Init => TypeOK /\ OpTyped /\ Counted
<1> SUFFICES ASSUME Init
             PROVE  TypeOK /\ OpTyped /\ Counted
  OBVIOUS
<1>1. 0 \in 0 .. MaxTries
  BY BoundsAssumption
<1>2. client \in [user_token : Tokens \cup Identities, declares : Declarations]
  BY NoneIsDeclaration DEF Init, Identities
<1> QED
  BY <1>1, <1>2, NoWireTyped DEF Init, TypeOK, OpTyped, Counted, Phases

(* The same operation twice over.                                          *)
LEMMA StillCalled ==
    ASSUME NEW o, NEW b, SameCall(o, b), Called(b)
    PROVE  Called(o)
BY DEF Called, SameCall

(* An operation on the way is one of Ops, and only Begin and Finish take   *)
(* another.                                                                *)
LEMMA OpNext == OpTyped /\ [Step]_vars => OpTyped'
<1> SUFFICES ASSUME OpTyped, [Step]_vars
             PROVE  OpTyped'
  OBVIOUS
<1>1. CASE Revised
  BY <1>1, StillCalled DEF Revised, OpTyped
<1>2. ASSUME NEW o \in Ops, Begin(o)
      PROVE  OpTyped'
  BY <1>2 DEF Begin, OpTyped, Called, SameCall
<1>3. CASE UNCHANGED <<op, pc>> \/ pc' = "idle" \/ (UNCHANGED op /\ pc # "idle")
  BY <1>3 DEF OpTyped
<1> QED
  BY <1>1, <1>2, <1>3 DEF Step, Next, vars, as_user, with_pep_handshake, Call, Send,
     TooManyRedirects, FollowRedirect, StopRedirect, Handle, GatewayAnswers, Unreachable,
     Arrive, Lose, Retry, Finish, call

LEMMA ListedNext == OpListed /\ [Next]_vars => OpListed'
BY DEF OpListed, Next, vars, as_user, with_pep_handshake, Begin, Call, Send, TooManyRedirects,
       FollowRedirect, StopRedirect, Handle, GatewayAnswers, Unreachable, Arrive, Lose, Retry,
       Finish, call, outcomes, history

(* An attempt performs the operation at most once.                         *)
LEMMA CountedNext == TypeOK /\ Counted /\ [Step]_vars => Counted'
<1> USE BoundsAssumption
<1> SUFFICES ASSUME TypeOK, Counted, [Step]_vars
             PROVE  Counted'
  OBVIOUS
<1>1. CASE \/ \E t \in Tokens : as_user(t)
           \/ \E h \in Handshakes : with_pep_handshake(h)
           \/ \E o \in Ops : Begin(o)
  BY <1>1 DEF as_user, with_pep_handshake, Begin, Counted, history
<1>2. CASE Call \/ Finish
  BY <1>2 DEF Call, Finish, Counted, history
<1>3. CASE Send
  BY <1>3 DEF Send, Counted, TypeOK, history, call
<1>8. CASE TooManyRedirects \/ FollowRedirect \/ StopRedirect
  <2>1. /\ pc = "sent" /\ pc' \in {"sent", "answered", "done"}
        /\ performed' = performed /\ tries' = tries
    BY <1>8 DEF TooManyRedirects, FollowRedirect, StopRedirect, history
  <2>2. performed \in Nat /\ tries \in Nat
    BY DEF TypeOK
  <2> QED
    BY <2>1, <2>2 DEF Counted
<1>4. CASE Handle \/ GatewayAnswers
  BY <1>4 DEF Handle, GatewayAnswers, Counted, TypeOK
<1>5. CASE Unreachable \/ Arrive \/ Lose
  BY <1>5 DEF Unreachable, Arrive, Lose, Counted, TypeOK, history
<1>6. CASE Retry
  BY <1>6 DEF Retry, Counted, TypeOK, history
<1>7. CASE Revised \/ UNCHANGED vars
  BY <1>7 DEF Revised, vars, Counted, history
<1> QED
  BY <1>1, <1>2, <1>3, <1>8, <1>4, <1>5, <1>6, <1>7 DEF Step, Next

(* Every step keeps the declared types.                                    *)
LEMMA ExchangeTypeNext ==
    ASSUME TypeOK, OpTyped, Counted, Counted', [Step]_vars
    PROVE  TypeOK'
<1>1. ASSUME NEW t \in Tokens, as_user(t)
      PROVE  TypeOK'
  BY <1>1 DEF as_user, TypeOK, Identities, history
<1>2. ASSUME NEW h \in Handshakes, with_pep_handshake(h)
      PROVE  TypeOK'
  BY <1>2, HandshakeIsDeclaration DEF with_pep_handshake, TypeOK, history
<1>3. ASSUME NEW o \in Ops, Begin(o)
      PROVE  TypeOK'
  BY <1>3 DEF Begin, TypeOK, Phases, history
<1>4. CASE Call
  <2>1. 1 \in 0 .. MaxTries
    BY BoundsAssumption
  <2> QED
    BY <1>4, <2>1 DEF Call, TypeOK, Phases, history, call
<1>5. CASE Send
  BY <1>5, Stamped DEF Send, TypeOK, Phases, history, call
<1>6. CASE TooManyRedirects
  BY <1>6 DEF TooManyRedirects, TypeOK, Phases, history, call
<1>7. CASE FollowRedirect
  <2>1. wire.hops + 1 \in 0 .. RedirectLimit
    BY <1>7, BoundsAssumption DEF FollowRedirect, TypeOK
  <2>2. \A b \in BOOLEAN : (wire.whole /\ ~(b /\ op.method = "POST")) \in BOOLEAN
    BY DEF TypeOK
  <2> QED
    BY <1>7, <2>1, <2>2 DEF FollowRedirect, TypeOK, Phases, history, call
<1>8. CASE StopRedirect
  BY <1>8 DEF StopRedirect, TypeOK, Phases, history, call
<1>9. CASE Handle
  <2>1. performed' \in 0 .. MaxTries
    BY <1>9, BoundsAssumption DEF Handle, TypeOK, Counted, call
  <2> QED
    BY <1>9, <2>1 DEF Handle, TypeOK, Phases, call
<1>10. CASE GatewayAnswers
  BY <1>10 DEF GatewayAnswers, TypeOK, call
<1>11. CASE Unreachable
  BY <1>11 DEF Unreachable, TypeOK, Phases, history, call
<1>12. CASE Arrive
  BY <1>12 DEF Arrive, TypeOK, Phases, history, call
<1>13. CASE Lose
  BY <1>13 DEF Lose, TypeOK, Phases, call
<1>14. CASE Retry
  <2>1. tries + 1 \in 0 .. MaxTries
    BY <1>14, BoundsAssumption DEF Retry, TypeOK
  <2> QED
    BY <1>14, <2>1 DEF Retry, TypeOK, Phases, history, call
<1>15. CASE Finish
  <2>1. 0 \in 0 .. MaxTries
    BY BoundsAssumption
  <2> QED
    BY <1>15, <2>1, NoWireTyped DEF Finish, TypeOK, Phases
<1>16. CASE Revised \/ UNCHANGED vars
  BY <1>16 DEF Revised, vars, TypeOK, outcomes, history
<1> QED
  BY <1>1, <1>2, <1>3, <1>4, <1>5, <1>6, <1>7, <1>8, <1>9, <1>10, <1>11, <1>12, <1>13,
     <1>14, <1>15, <1>16 DEF Step, Next

(* Every part of the exchange is of its type; in particular what is sent   *)
(* as somebody's identity is a token as it is once trimmed, also from a    *)
(* client that was derived with a token that was trimmed already.          *)
THEOREM ExchangeTypes == Spec => [](TypeOK /\ OpTyped /\ Counted)
<1>1. Next => Step
  BY DEF Step
<1> QED
  BY <1>1, ExchangeTypeInit, OpNext, CountedNext, ExchangeTypeNext, PTL DEF Spec

-----------------------------------------------------------------------------
(* The wire *)

(* Every step keeps the request that of the call.                          *)
LEMMA WireNext ==
    ASSUME TypeOK, OpTyped, WireIsCall, [Step]_vars
    PROVE  WireIsCall'
<1>1. CASE Send
  BY <1>1, Stamped DEF Send, WireIsCall, OnTheWire, same_origin, history, call
<1>2. CASE FollowRedirect
  BY <1>2 DEF FollowRedirect, WireIsCall, OnTheWire, TypeOK, token, pep_handshake_header,
              history, call
<1>3. CASE StopRedirect \/ Handle \/ GatewayAnswers
  BY <1>3 DEF StopRedirect, Handle, GatewayAnswers, WireIsCall, OnTheWire, token,
              pep_handshake_header, history, call
<1>4. CASE \/ \E t \in Tokens : as_user(t)
           \/ \E h \in Handshakes : with_pep_handshake(h)
           \/ \E o \in Ops : Begin(o)
           \/ Call \/ TooManyRedirects \/ Unreachable \/ Arrive \/ Lose \/ Retry \/ Finish
           \/ Revised
  <2>1. ~OnTheWire'
    BY <1>4 DEF Revised, as_user, with_pep_handshake, Begin, Call, TooManyRedirects, Unreachable,
                Arrive, Lose, Retry, Finish, OnTheWire
  <2> QED
    BY <2>1 DEF WireIsCall
<1>5. CASE UNCHANGED vars
  BY <1>5 DEF vars, WireIsCall, OnTheWire, token, pep_handshake_header
<1> QED
  BY <1>1, <1>2, <1>3, <1>4, <1>5 DEF Step, Next

LEMMA WireInit == Init => WireIsCall
BY DEF Init, WireIsCall, OnTheWire

(* The request on the wire is always that of the call.                     *)
LEMMA WireInvariant == Spec => []WireIsCall
<1>1. Next => Step
  BY DEF Step
<1> QED
  BY <1>1, WireInit, ExchangeTypes, WireNext, PTL DEF Spec

LEMMA WireSpeaks == WireIsCall => SpeaksForItsUser
BY DEF WireIsCall, SpeaksForItsUser, same_origin, token

LEMMA WireDeclares == WireIsCall => DeclaredWhereRead
BY DEF WireIsCall, DeclaredWhereRead, pep_handshake_header

(* Through every redirect and repetition a request speaks for exactly the  *)
(* person its call named, and only to the configured origin.               *)
THEOREM OneUser == Spec => []SpeaksForItsUser
BY WireSpeaks, WireInvariant, PTL

(* No request makes a claim the route does not check, or leaves out one it *)
(* reads.                                                                  *)
THEOREM DeclaredToReaders == Spec => []DeclaredWhereRead
BY WireDeclares, WireInvariant, PTL

-----------------------------------------------------------------------------
(* Losses *)

(* An application never repeats a call that was done and reported so.      *)
LEMMA OkIsNotRetried ==
    ASSUME NEW r, r.kind = "ok"
    PROVE  ~is_retryable(r)
BY DEF is_retryable, retryable

(* Every step keeps it.                                                    *)
LEMMA ActsOnceNext ==
    ASSUME pc = "sent" => ReadsSuccess(op), TypeOK, ActsOnce, [Step]_vars
    PROVE  ActsOnce'
<1>1. CASE Handle
  <2>1. ReadsSuccess(op) /\ performed \in 0 .. MaxTries
    BY <1>1 DEF Handle, TypeOK
  <2>2. PICK a \in Strays \cup Answers(op, performed) :
           answer' = a /\ performed' = IF a.performs THEN performed + 1 ELSE performed
    BY <1>1 DEF Handle
  <2>3. a.performs => Reported(Read(op, a))
    BY <2>1, <2>2, AnswersAssumption DEF ReadsSuccess
  <2>4. ~lost => performed = 0
    BY <1>1 DEF Handle, ActsOnce
  <2> QED
    BY <1>1, <2>2, <2>3, <2>4 DEF Handle, ActsOnce, call
<1>2. CASE GatewayAnswers \/ Lose
  BY <1>2 DEF GatewayAnswers, Lose, ActsOnce
<1>3. CASE Arrive
  BY <1>3 DEF Arrive, ActsOnce, history, call
<1>4. CASE Retry
  BY <1>4, OkIsNotRetried DEF Retry, ActsOnce, Reported, history, call
<1>5. CASE Call
  BY <1>5 DEF Call, ActsOnce, history, call
<1>6. CASE Finish
  BY <1>6 DEF Finish, ActsOnce
<1>7. CASE \/ \E t \in Tokens : as_user(t)
           \/ \E h \in Handshakes : with_pep_handshake(h)
           \/ \E o \in Ops : Begin(o)
  BY <1>7 DEF as_user, with_pep_handshake, Begin, ActsOnce, history
<1>8. CASE Send \/ TooManyRedirects \/ FollowRedirect \/ StopRedirect \/ Unreachable
  BY <1>8 DEF Send, TooManyRedirects, FollowRedirect, StopRedirect, Unreachable, ActsOnce,
              history, call
<1>9. CASE Revised \/ UNCHANGED vars
  BY <1>9 DEF Revised, vars, ActsOnce, outcomes, history
<1> QED
  BY <1>1, <1>2, <1>3, <1>4, <1>5, <1>6, <1>7, <1>8, <1>9 DEF Step, Next

LEMMA ActsOnceInit == Init => ActsOnce
<1>1. Init => performed = 0
  BY DEF Init
<1> QED
  BY <1>1 DEF ActsOnce

LEMMA ActsOnceExplains == ActsOnce => LossExplains
BY DEF ActsOnce, LossExplains

(* Whatever an operation changes is done twice, or done and not reported   *)
(* with its record, only after an answer was lost on the way: on every     *)
(* surface whose reading of the answer that does it is so reported.        *)
THEOREM OnlyLossRepeats ==
    ASSUME \A o \in Ops : ReadsSuccess(o)
    PROVE  Spec => []LossExplains
<1>1. Next => Step
  BY DEF Step
<1>2. Init => OpListed
  BY DEF Init, OpListed
<1>3. OpListed => (pc = "sent" => ReadsSuccess(op))
  BY DEF OpListed
<1> QED
  BY <1>1, <1>2, <1>3, ListedNext, ExchangeTypes, ActsOnceInit, ActsOnceNext, ActsOnceExplains,
     PTL DEF Spec
=============================================================================
