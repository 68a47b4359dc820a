------------------------------ MODULE Adapters ------------------------------
(***************************************************************************)
(* The framework adapters a heartbeat reports: register_adapter and the    *)
(* features of the payload (src/src/heartbeat.rs).                         *)
(*                                                                         *)
(* Adapters are declared by whoever wraps the client, at any time and as   *)
(* often as it likes; each ping reports those declared before its payload  *)
(* is made.                                                                *)
(***************************************************************************)
EXTENDS Sequences, SequencesExt, Ordering

CONSTANTS
    Names,                 \* bound: the names adapters are declared under
    normalized(_),         \* a name trimmed and in lower case
    size(_),               \* of a name, in bytes
    Earlier(_, _),          \* the order of normalized names
    MAX_RELAYED_VALUE_LEN, MAX_FEATURES, MAX_FEATURE_BYTES,
    PrefixBytes            \* of FEATURE_ADAPTER_PREFIX

Declarable(name) == size(name) \in 1 .. MAX_RELAYED_VALUE_LEN

(* The names that can be declared are in a total order, and each of them   *)
(* fits: a name has 64 bytes and the prefix 8, of 128.                     *)
ASSUME AdaptersAssumption ==
    /\ MAX_RELAYED_VALUE_LEN \in Nat /\ MAX_FEATURES \in Nat /\ MAX_FEATURE_BYTES \in Nat
    /\ PrefixBytes \in Nat /\ PrefixBytes + MAX_RELAYED_VALUE_LEN <= MAX_FEATURE_BYTES
    /\ LET declarable == {a \in {normalized(n) : n \in Names} : Declarable(a)}
       IN \A a, b, c \in declarable :
             /\ ~Earlier(a, a)
             /\ a = b \/ Earlier(a, b) \/ Earlier(b, a)
             /\ Earlier(a, b) /\ Earlier(b, c) => Earlier(a, c)

VARIABLES
    registry,    \* the adapters declared
    features,    \* those of the ping under way, once its payload is made
    declared     \* history: the names that were declared

adapters == <<registry, features, declared>>

AdaptersTypeOK ==
    /\ declared \subseteq Names
    /\ registry \subseteq {normalized(n) : n \in declared}
    /\ features \in Seq(Seq(registry)) /\ Len(features) <= 1

Mutant_register_adapter(name) ==
    /\ registry' = IF Declarable(name) THEN registry \cup {name} ELSE registry
    /\ declared' = declared \cup {name}
    /\ UNCHANGED features

(* What cannot be a name is refused without a word.                        *)
register_adapter(name) ==
    /\ registry' = IF Declarable(normalized(name)) THEN registry \cup {normalized(name)}
                   ELSE registry
    /\ declared' = declared \cup {name}
    /\ UNCHANGED features

(* The entries that fit, in the order of the registry.                     *)
bound_features(entries) ==
    LET fitting == {n \in entries : PrefixBytes + size(n) <= MAX_FEATURE_BYTES}
        before == {p \in fitting \X fitting : Earlier(p[1], p[2])}
        taken == IF Cardinality(fitting) < MAX_FEATURES THEN Cardinality(fitting)
                 ELSE MAX_FEATURES
    IN SubSeq(InOrder(fitting, before), 1, taken)

registered_features == bound_features(registry)

(* The registry is read when the payload is made, not when the pass began. *)
ReportAdapters ==
    /\ features' = <<registered_features>>
    /\ UNCHANGED <<registry, declared>>

ForgetPayload == features' = <<>> /\ UNCHANGED <<registry, declared>>

AdaptersInit == registry = {} /\ features = <<>> /\ declared = {}

-----------------------------------------------------------------------------
(* Properties *)

(* A list of adapters that tells everything it could: each one declared, in*)
(* whatever spelling, once, or as many as fit that come before the others. *)
Tells(list, names) ==
    LET told == {a \in {normalized(n) : n \in names} : Declarable(a)}
    IN /\ ToSet(list) \subseteq told
       /\ \A i, j \in DOMAIN list : i < j => Earlier(list[i], list[j])
       /\ \A a \in told \ ToSet(list) :
             Len(list) = MAX_FEATURES /\ \A b \in ToSet(list) : Earlier(b, a)

(* A ping reports the adapters that were declared until its payload was    *)
(* made - also those that declared themselves while it was under way, and  *)
(* those declared before an earlier ping - and none twice, so that the 32  *)
(* entries the receiver takes are not used up by one adapter that declares *)
(* itself per request.                                                     *)
AdaptersAreReported ==
    [][features' # <<>> /\ features = <<>> => Tells(Head(features'), declared)]_adapters
=============================================================================
