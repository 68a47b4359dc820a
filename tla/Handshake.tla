----------------------------- MODULE Handshake -----------------------------
(***************************************************************************)
(* PEPHandshake::new (src/src/pep_handshake.rs): a declaration of the      *)
(* obligations an enforcement point can discharge is checked, brought into *)
(* canonical form and encoded once, when it is constructed.                *)
(*                                                                         *)
(* Of a name only [bytes, first, tail] counts: its length, the class of its*)
(* first byte and the set of classes of the others.  A capability is       *)
(* <<type, version>>.                                                      *)
(***************************************************************************)
EXTENDS AuthzenTypes, Ordering

CONSTANTS
    Drafts,          \* what applications declare: [pep_id, audience, capabilities]
    MAX_IDENTIFIER_BYTES,
    MAX_PEP_HANDSHAKE_CAPABILITIES,
    MAX_PEP_HANDSHAKE_BYTES,
    Spelling(_),     \* a name's [bytes, first, tail]
    Rank(_)          \* the byte order of the types, as a number

(* What applications write as a declaration: types are strings of an order *)
(* in which no two are alike.                                              *)
ASSUME DraftsAssumption ==
    /\ Drafts \subseteq [pep_id : STRING, audience : STRING, capabilities : Seq(STRING \X Nat)]
    /\ \A draft \in Drafts : \A c, d \in ToSet(draft.capabilities) :
          Rank(c[1]) \in Nat /\ (Rank(c[1]) = Rank(d[1]) => c[1] = d[1])

ASSUME LimitsAssumption == MAX_PEP_HANDSHAKE_CAPABILITIES \in Nat

(* The classes of bytes a name may begin with, and those it may go on with;*)
(* "mark" is one of . _ - and "uri" one of : /                             *)
is_identifier_start == {"lower", "digit"}
is_identifier_byte == is_identifier_start \cup {"mark"}
is_audience_start == {"lower", "upper", "digit"}
is_audience_byte == is_audience_start \cup {"mark", "uri"}

well_formed(name, start, rest) ==
    /\ Spelling(name).bytes \in 1 .. MAX_IDENTIFIER_BYTES
    /\ Spelling(name).first \in start
    /\ Spelling(name).tail \subseteq rest

PEPHandshake ==
    [pep_id : STRING, audience : STRING, capabilities : Seq(obligation_type \X Nat)]

-----------------------------------------------------------------------------
(* The order a capability derives: by type, then by version.               *)
Before(c, d) ==
    \/ Rank(c[1]) < Rank(d[1])
    \/ c[1] = d[1] /\ c[2] < d[2]

(* sort: of two alike, the first stays the first.                          *)
SortedBefore(capabilities) ==
    {p \in (DOMAIN capabilities) \X (DOMAIN capabilities) :
       \/ Before(capabilities[p[1]], capabilities[p[2]])
       \/ capabilities[p[1]] = capabilities[p[2]] /\ p[1] < p[2]}

Sorted(capabilities) ==
    LET places == InOrder(DOMAIN capabilities, SortedBefore(capabilities))
    IN [n \in DOMAIN capabilities |-> capabilities[places[n]]]

Unmatchable(c) == c[1] \notin obligation_type \/ c[2] = 0

(* Sorted, a repeat is next to its first occurrence.                       *)
Repeated(capabilities) ==
    \E i \in DOMAIN capabilities : i > 1 /\ capabilities[i - 1] = capabilities[i]

Mutant_canonical_capabilities(capabilities) ==
    IF \/ Len(capabilities) > MAX_PEP_HANDSHAKE_CAPABILITIES
       \/ Repeated(capabilities)
       \/ \E c \in ToSet(capabilities) : Unmatchable(c)
    THEN <<>> ELSE <<Sorted(capabilities)>>

(* <<>>, or the canonical form.                                            *)
canonical_capabilities(capabilities) ==
    LET sorted == Sorted(capabilities)
    IN IF \/ Len(capabilities) > MAX_PEP_HANDSHAKE_CAPABILITIES
          \/ Repeated(sorted)
          \/ \E c \in ToSet(sorted) : Unmatchable(c)
       THEN <<>> ELSE <<sorted>>

(* encode: the length of the compact JSON document in unpadded base64, four*)
(* bytes for three.  Versions are of one digit here (a bound).             *)
Punctuation == Len("{'profile_version':1,'pep_id':'','audience':'','capabilities':[]}")
PerCapability == Len("{'type':'','version':1},")

encode(pep_id, audience, capabilities) ==
    LET commas == IF capabilities = <<>> THEN 0 ELSE 1
        listed == FoldSeq(LAMBDA c, bytes : bytes + PerCapability + Len(c[1]), 0, capabilities)
        json == Punctuation + Spelling(pep_id).bytes + Spelling(audience).bytes + listed - commas
    IN ((4 * json) + 2) \div 3

PEPHandshakeError(pointer) == [pointer |-> <<pointer>>, declares |-> <<>>]

(* The member the platform would refuse first, or the declaration.         *)
new(draft) ==
    LET canonical == canonical_capabilities(draft.capabilities)
        declared == [draft EXCEPT !.capabilities = Head(canonical)]
    IN IF ~well_formed(draft.pep_id, is_identifier_start, is_identifier_byte)
       THEN PEPHandshakeError("/pep_id")
       ELSE IF ~well_formed(draft.audience, is_audience_start, is_audience_byte)
       THEN PEPHandshakeError("/audience")
       ELSE IF canonical = <<>>
       THEN PEPHandshakeError("/capabilities")
       ELSE IF encode(draft.pep_id, draft.audience, Head(canonical)) <= MAX_PEP_HANDSHAKE_BYTES
       THEN [pointer |-> <<>>, declares |-> <<declared>>]
       ELSE PEPHandshakeError("")

-----------------------------------------------------------------------------
(* What the platform's decoder takes, by its own rules: every capability   *)
(* one it can match, in its order, none twice, the whole of a header's     *)
(* length, under names it can prefix and bind.                             *)
Readable(h) ==
    /\ \A i, j \in DOMAIN h.capabilities : i < j => Before(h.capabilities[i], h.capabilities[j])
    /\ \A c \in ToSet(h.capabilities) : c[1] \in obligation_type /\ c[2] > 0
    /\ Len(h.capabilities) <= MAX_PEP_HANDSHAKE_CAPABILITIES
    /\ encode(h.pep_id, h.audience, h.capabilities) <= MAX_PEP_HANDSHAKE_BYTES
    /\ Spelling(h.pep_id).first \in {"lower", "digit"} /\ "uri" \notin Spelling(h.pep_id).tail
    /\ {Spelling(h.pep_id).bytes, Spelling(h.audience).bytes} \subseteq 1 .. MAX_IDENTIFIER_BYTES
=============================================================================
