-------------------------------- MODULE Pep --------------------------------
(***************************************************************************)
(* The enforcement-point contract of src/src/pep.rs: decide, fulfill every *)
(* redact_pii obligation through the engine, forward.                      *)
(*                                                                         *)
(* Content is abstracted to the PII items it still carries.  The platform  *)
(* is external: its decision comes from Decisions, and its redaction       *)
(* engine, whose policy an administrator may change between any two steps, *)
(* masks the items it detects when the request reaches it.                 *)
(***************************************************************************)
EXTENDS Naturals, Sequences

CONSTANTS
    Pii,
    statement,    \* the items in the query of the request
    Decisions,    \* what /decide may answer: [verdict, obligations]
    Breaks,       \* how a round trip may fail
    Off           \* the engine's policy when redaction is disabled

Phases == {"request", "response", "none"}

(* phase "none" is an obligation without a fulfillment block.              *)
Obligations ==
    [type : {"redact_pii", "other"},
     phase : Phases,
     content_types : {"absent", "empty", "text", "other"},
     endpoint : {"path", "url", "foreign", "blank"}]

Verdicts == {"allow", "deny", "needs_approval"}

ASSUME PepAssumption ==
    /\ statement \subseteq Pii
    /\ Decisions \subseteq [verdict : Verdicts, obligations : Seq(Obligations)]
    /\ \A detected \in SUBSET Pii : Off # detected
    /\ Breaks \subseteq {"transport", "status", "body", "decode", "contradiction", "drop"}

VARIABLES
    path,       \* "one_call": decide_and_fulfill; "branching": the caller
                \* asks has_request_redaction before fulfill_request
    pc,         \* where the enforcement point is suspended
    decision,   \* the answer of /decide
    i,          \* the obligation of the loop's current turn
    content,    \* the loop's variable redacted
    did_redact,
    outcome,    \* what the enforcement point does with the request
    policy,     \* the items the engine detects; Off when redaction is disabled
    reply,      \* the engine's answer on its way
    ran         \* the policy under which the engine evaluated each obligation

call == <<path, decision, i, content, did_redact, outcome>>
vars == <<pc, call, policy, reply, ran>>

Steps == {"start", "deciding", "fulfilling", "asked", "done"}

Outcomes == {"none", "forward", "block", "not_fulfillable", "error", "dropped"}

Policies == {Off} \cup SUBSET Pii

NoDecision == [verdict |-> "deny", obligations |-> <<>>]

NoReply == [evaluated |-> FALSE, redacted |-> FALSE, masked |-> {}, given |-> FALSE]

Replies == [evaluated : BOOLEAN, redacted : BOOLEAN, masked : SUBSET Pii, given : BOOLEAN]

TypeOK ==
    /\ path \in {"one_call", "branching"}
    /\ pc \in Steps
    /\ decision \in Decisions \cup {NoDecision}
    /\ i \in 1 .. Len(decision.obligations) + 1
    /\ content \in SUBSET Pii
    /\ did_redact \in BOOLEAN
    /\ outcome \in Outcomes
    /\ policy \in Policies
    /\ reply \in Replies
    /\ ran \in [1 .. Len(decision.obligations) -> Policies]

-----------------------------------------------------------------------------
(* Obligations *)

endpoint_path_matches(endpoint) == endpoint \in {"path", "url"}

IsRedaction(ob) == ob.type = "redact_pii"

has_request_redaction(obs) ==
    \E n \in 1 .. Len(obs) : IsRedaction(obs[n]) /\ obs[n].phase = "request"

(* The three checks before the engine is called.                           *)
Fulfillable(ob) ==
    /\ ob.phase = "request"
    /\ ob.content_types \in {"absent", "empty", "text"}
    /\ endpoint_path_matches(ob.endpoint)

-----------------------------------------------------------------------------
(* The enforcement point *)

Settle(o) == outcome' = o /\ pc' = "done"

(* POST /api/v1/decide                                                     *)
Ask ==
    /\ pc = "start"
    /\ pc' = "deciding"
    /\ UNCHANGED <<call, policy, reply, ran>>

DecideFails ==
    /\ Breaks \cap {"transport", "status", "body", "decode"} # {}
    /\ pc = "deciding"
    /\ Settle("error")
    /\ UNCHANGED <<path, decision, i, content, did_redact, policy, reply, ran>>

(* Whether the caller hands an allow over to fulfill_request.              *)
Fulfills(d) == path = "one_call" \/ has_request_redaction(d.obligations)

(* The decision arrives.  Only an allow goes on to the obligations; the    *)
(* branching caller skips them when has_request_redaction says so.         *)
Decided ==
    /\ pc = "deciding"
    /\ decision' \in Decisions
    /\ ran' = [n \in 1 .. Len(decision'.obligations) |-> Off]
    /\ \/ /\ decision'.verdict # "allow"
          /\ Settle("block")
       \/ /\ decision'.verdict = "allow"
          /\ ~Fulfills(decision')
          /\ Settle("forward")
       \/ /\ decision'.verdict = "allow"
          /\ Fulfills(decision')
          /\ pc' = "fulfilling"
          /\ UNCHANGED outcome
    /\ i' = 1
    /\ UNCHANGED <<path, content, did_redact, policy, reply>>

Current == decision.obligations[i]

HasCurrent == pc = "fulfilling" /\ i <= Len(decision.obligations)

Mutant_Skip ==
    /\ HasCurrent
    /\ ~IsRedaction(Current)
    /\ i' = i + 2
    /\ UNCHANGED <<path, pc, decision, content, did_redact, outcome, policy, reply, ran>>

Mutant2_Skip ==
    /\ HasCurrent
    /\ ~IsRedaction(Current)
    /\ UNCHANGED <<path, pc, decision, i, content, did_redact, outcome, policy, reply, ran>>

Skip ==
    /\ HasCurrent
    /\ ~IsRedaction(Current)
    /\ i' = i + 1
    /\ UNCHANGED <<path, pc, decision, content, did_redact, outcome, policy, reply, ran>>

Refuse ==
    /\ HasCurrent
    /\ IsRedaction(Current)
    /\ ~Fulfillable(Current)
    /\ Settle("not_fulfillable")
    /\ UNCHANGED <<path, decision, i, content, did_redact, policy, reply, ran>>

(* fulfill_via_check_input posts what the previous turn left.              *)
Submit ==
    /\ HasCurrent
    /\ IsRedaction(Current)
    /\ Fulfillable(Current)
    /\ reply' = NoReply
    /\ pc' = "asked"
    /\ UNCHANGED <<call, policy, ran>>

Finish ==
    /\ pc = "fulfilling"
    /\ i > Len(decision.obligations)
    /\ Settle("forward")
    /\ UNCHANGED <<path, decision, i, content, did_redact, policy, reply, ran>>

-----------------------------------------------------------------------------
(* The engine *)

Submitted == content

(* The engine masks what its policy detects at this moment.                *)
Evaluate ==
    /\ pc = "asked"
    /\ ~reply.given
    /\ \/ /\ policy = Off
          /\ reply' = [NoReply EXCEPT !.given = TRUE]
          /\ UNCHANGED ran
       \/ /\ policy # Off
          /\ reply' = [evaluated |-> TRUE,
                       redacted |-> Submitted \cap policy # {},
                       masked |-> Submitted \ policy,
                       given |-> TRUE]
          /\ ran' = [ran EXCEPT ![i] = policy]
    /\ UNCHANGED <<pc, call, policy>>

Reconfigure ==
    /\ policy' \in Policies
    /\ UNCHANGED <<pc, call, reply, ran>>

-----------------------------------------------------------------------------
(* The engine's answer *)

Mutant_Forwardable == reply.given

Forwardable == reply.given /\ reply.evaluated

Mutant_Adopt ==
    content' = IF reply.redacted THEN reply.masked ELSE statement

(* redacted with a masked statement: that; not redacted: unchanged.        *)
Adopt == content' = IF reply.redacted THEN reply.masked ELSE content

(* The redactor ran: the loop goes on with what it returned.               *)
Fulfilled ==
    /\ pc = "asked"
    /\ Forwardable
    /\ Adopt
    /\ did_redact' = (did_redact \/ content' # statement)
    /\ i' = i + 1
    /\ pc' = "fulfilling"
    /\ UNCHANGED <<path, decision, outcome, policy, reply, ran>>

(* The call failed or was answered with a status other than 2xx, the body  *)
(* is no response, the redactor did not run, or the response contradicts   *)
(* itself (redacted, and nothing masked in it).                            *)
NotFulfilled ==
    /\ pc = "asked"
    /\ \/ Breaks \cap {"transport", "status"} # {}
       \/ reply.given /\ "decode" \in Breaks
       \/ reply.given /\ ~reply.evaluated
       \/ reply.given /\ "contradiction" \in Breaks
    /\ Settle("not_fulfillable")
    /\ UNCHANGED <<path, decision, i, content, did_redact, policy, reply, ran>>

(* resp.text() fails: HttpError.                                           *)
BodyLost ==
    /\ "body" \in Breaks
    /\ pc = "asked"
    /\ reply.given
    /\ Settle("error")
    /\ UNCHANGED <<path, decision, i, content, did_redact, policy, reply, ran>>

Drop ==
    /\ "drop" \in Breaks
    /\ pc \in {"deciding", "asked"}
    /\ Settle("dropped")
    /\ UNCHANGED <<path, decision, i, content, did_redact, policy, reply, ran>>

-----------------------------------------------------------------------------
Init ==
    /\ path \in {"one_call", "branching"}
    /\ pc = "start"
    /\ decision = NoDecision
    /\ ran = <<>>
    /\ i = 1
    /\ content = statement
    /\ did_redact = FALSE
    /\ outcome = "none"
    /\ policy \in Policies
    /\ reply = NoReply

Proceed ==
    \/ Ask
    \/ DecideFails
    \/ Decided
    \/ Skip
    \/ Refuse
    \/ Submit
    \/ Finish
    \/ Fulfilled
    \/ NotFulfilled
    \/ BodyLost

Next == Proceed \/ Evaluate \/ Reconfigure \/ Drop

Spec == Init /\ [][Next]_vars

(* The client's timeout ends every round trip.                             *)
FairSpec == Spec /\ WF_vars(Proceed)

-----------------------------------------------------------------------------
(* Properties *)

Redactions ==
    {n \in 1 .. Len(decision.obligations) : IsRedaction(decision.obligations[n])}

(* Nothing any redact_pii obligation's evaluation detected is in the       *)
(* content, and each of them was evaluated.                                *)
Scrubbed == \A n \in Redactions : ran[n] # Off /\ content \cap ran[n] = {}

(* "There is NO code path in which this method redacts locally": content   *)
(* fulfill_request hands out was evaluated by the engine for every         *)
(* redact_pii obligation and is clean of all that any of the evaluations   *)
(* detected, even when the policy changed between them.                    *)
ForwardsScrubbed == outcome = "forward" /\ Fulfills(decision) => Scrubbed

(* did_redact tells the caller whether the engine changed the content.     *)
TellsRedaction == outcome = "forward" => (did_redact <=> content # statement)

(* Every enforcement ends, forwarded, blocked or failed.                   *)
Ends == pc # "start" ~> pc = "done"

(* has_request_redaction is there "so a PEP can branch [...] before calling*)
(* fulfill_request", and an obligation without a fulfillable endpoint must *)
(* not be forwarded: a caller that branches forwards scrubbed content too. *)
BranchingScrubs == outcome = "forward" => Scrubbed
=============================================================================
