------------------------ MODULE PlatformSessionProofs ------------------------
(***************************************************************************)
(* Proofs about the application's session with the platform: what is       *)
(* proved of the funnel (ExchangeProofs), the heartbeat pass               *)
(* (PingPassProofs) and the paging (HitlWalkProofs) holds in a session of  *)
(* every surface, and what each surface promises holds of the session, for *)
(* every client, operation, redirect target and stray answer.              *)
(***************************************************************************)
EXTENDS PlatformSession, ExchangeProofs, PingPassProofs, HitlWalkProofs, WellFoundedInduction

-----------------------------------------------------------------------------
(* Sets and sequences *)

LEMMA SequenceOf ==
    ASSUME NEW S, NEW T, NEW s \in Seq(S), \A i \in DOMAIN s : s[i] \in T
    PROVE  s \in Seq(T)
<1>1. Len(s) \in Nat /\ s \in [1 .. Len(s) -> T]
  OBVIOUS
<1> QED
  BY <1>1

LEMMA MembersOf ==
    ASSUME NEW S, NEW s \in Seq(S)
    PROVE  ToSet(s) \subseteq S
<1>1. \A i \in DOMAIN s : s[i] \in S
  OBVIOUS
<1> QED
  BY <1>1 DEF ToSet

LEMMA IntervalFromOne ==
    ASSUME NEW n \in Nat
    PROVE  IsFiniteSet(1 .. n) /\ Cardinality(1 .. n) = n
<1>1. /\ IsFiniteSet(1 .. n)
      /\ Cardinality(1 .. n) = IF 1 > n THEN 0 ELSE n - 1 + 1
  BY FS_Interval
<1> QED
  BY <1>1

StrictOrder(S, R) ==
    /\ \A a \in S : <<a, a>> \notin R
    /\ \A a, b \in S : a = b \/ <<a, b>> \in R \/ <<b, a>> \in R
    /\ \A a, b, c \in S : <<a, b>> \in R /\ <<b, c>> \in R => <<a, c>> \in R

(* What precedes an element does not fill the set, and is less than what   *)
(* precedes a later one.                                                   *)
LEMMA PrecedingCounts ==
    ASSUME NEW S, IsFiniteSet(S), NEW R, StrictOrder(S, R), NEW a \in S
    PROVE  /\ IsFiniteSet(Preceding(S, R, a))
           /\ Cardinality(S) \in Nat
           /\ Cardinality(Preceding(S, R, a)) \in Nat
           /\ Cardinality(Preceding(S, R, a)) + 1 \in 1 .. Cardinality(S)
<1>1. Preceding(S, R, a) \in SUBSET S /\ a \notin Preceding(S, R, a)
  BY DEF Preceding, StrictOrder
<1>2. /\ IsFiniteSet(Preceding(S, R, a))
      /\ Cardinality(Preceding(S, R, a)) <= Cardinality(S)
      /\ Cardinality(Preceding(S, R, a)) # Cardinality(S)
  BY <1>1, FS_Subset
<1>3. Cardinality(S) \in Nat /\ Cardinality(Preceding(S, R, a)) \in Nat
  BY <1>2, FS_CardinalityType
<1> QED
  BY <1>2, <1>3

LEMMA PrecedingGrows ==
    ASSUME NEW S, IsFiniteSet(S), NEW R, StrictOrder(S, R),
           NEW a \in S, NEW b \in S, <<a, b>> \in R
    PROVE  Cardinality(Preceding(S, R, a)) < Cardinality(Preceding(S, R, b))
<1>1. /\ Preceding(S, R, a) \in SUBSET Preceding(S, R, b)
      /\ a \in Preceding(S, R, b) /\ a \notin Preceding(S, R, a)
  BY DEF Preceding, StrictOrder
<1>2. /\ Cardinality(Preceding(S, R, a)) <= Cardinality(Preceding(S, R, b))
      /\ Cardinality(Preceding(S, R, a)) # Cardinality(Preceding(S, R, b))
  BY <1>1, PrecedingCounts, FS_Subset
<1>3. Cardinality(Preceding(S, R, a)) \in Nat /\ Cardinality(Preceding(S, R, b)) \in Nat
  BY PrecedingCounts
<1> QED
  BY <1>2, <1>3

(* No two elements are preceded by as many, so for every number there is   *)
(* one that is preceded by that many less one.                             *)
LEMMA PlacesAreTaken ==
    ASSUME NEW S, IsFiniteSet(S), NEW R, StrictOrder(S, R)
    PROVE  \A n \in 1 .. Cardinality(S) :
              \E a \in S : Cardinality(Preceding(S, R, a)) = n - 1
<1> DEFINE T == 1 .. Cardinality(S)
           f == [a \in S |-> Cardinality(Preceding(S, R, a)) + 1]
<1>1. Cardinality(S) \in Nat
  BY FS_CardinalityType
<1>2. IsFiniteSet(T) /\ Cardinality(T) = Cardinality(S)
  BY <1>1, IntervalFromOne
<1>3. f \in [S -> T]
  BY PrecedingCounts
<1>4. ASSUME NEW a \in S, NEW b \in S, a # b
      PROVE  f[a] # f[b]
  <2>1. <<a, b>> \in R \/ <<b, a>> \in R
    BY <1>4 DEF StrictOrder
  <2>2. \/ Cardinality(Preceding(S, R, a)) < Cardinality(Preceding(S, R, b))
        \/ Cardinality(Preceding(S, R, b)) < Cardinality(Preceding(S, R, a))
    BY <2>1, PrecedingGrows
  <2>3. Cardinality(Preceding(S, R, a)) \in Nat /\ Cardinality(Preceding(S, R, b)) \in Nat
    BY PrecedingCounts
  <2> QED
    BY <2>2, <2>3
<1>5. \A a \in S : f[a] = Cardinality(Preceding(S, R, a)) + 1
  OBVIOUS
<1>6. \A a \in S : Cardinality(Preceding(S, R, a)) \in Nat
  BY PrecedingCounts
<1>7. \A n \in T : n \in Int
  OBVIOUS
<1> HIDE DEF f, T
<1>8. f \in Injection(S, T)
  BY <1>3, <1>4 DEF Injection, IsInjective
<1>9. f \in Surjection(S, T)
  BY <1>2, <1>8, FS_Injection
<1>10. \A n \in T : \E a \in S : f[a] = n
  BY <1>9 DEF Surjection
<1>11. \A n \in T : \E a \in S : Cardinality(Preceding(S, R, a)) = n - 1
  BY <1>5, <1>6, <1>7, <1>10
<1> QED
  BY <1>11 DEF T

(* What listing a set in order does.                                       *)
LEMMA InOrderLists ==
    ASSUME NEW S, IsFiniteSet(S), NEW R, StrictOrder(S, R)
    PROVE  /\ Cardinality(S) \in Nat
           /\ InOrder(S, R) \in [1 .. Cardinality(S) -> S]
           /\ \A n, m \in 1 .. Cardinality(S) :
                 n < m => <<InOrder(S, R)[n], InOrder(S, R)[m]>> \in R
           /\ \A a \in S : \E n \in 1 .. Cardinality(S) : InOrder(S, R)[n] = a
<1> DEFINE at(n) == CHOOSE a \in S : Cardinality(Preceding(S, R, a)) = n - 1
<1>1. Cardinality(S) \in Nat
  BY FS_CardinalityType
<1>2. \A n \in 1 .. Cardinality(S) : at(n) \in S /\ Cardinality(Preceding(S, R, at(n))) = n - 1
  BY PlacesAreTaken
<1>3. InOrder(S, R) = [n \in 1 .. Cardinality(S) |-> at(n)]
  BY DEF InOrder
<1> HIDE DEF at
<1>4. ASSUME NEW n \in 1 .. Cardinality(S), NEW m \in 1 .. Cardinality(S), n < m
      PROVE  <<at(n), at(m)>> \in R
  <2>1. n \in Int /\ m \in Int /\ at(n) \in S /\ at(m) \in S
    BY <1>2
  <2>2. at(n) # at(m)
    BY <1>2, <1>4, <2>1
  <2>3. <<at(m), at(n)>> \notin R
    BY <1>2, <1>4, <2>1, PrecedingGrows
  <2> QED
    BY <2>1, <2>2, <2>3 DEF StrictOrder
<1>5. ASSUME NEW a \in S
      PROVE  \E n \in 1 .. Cardinality(S) : at(n) = a
  <2> DEFINE n == Cardinality(Preceding(S, R, a)) + 1
  <2>1. n \in 1 .. Cardinality(S) /\ n - 1 = Cardinality(Preceding(S, R, a))
    BY PrecedingCounts
  <2>2. at(n) \in S /\ Cardinality(Preceding(S, R, at(n))) = Cardinality(Preceding(S, R, a))
    BY <1>2, <2>1
  <2>3. <<at(n), a>> \notin R /\ <<a, at(n)>> \notin R
    BY <2>2, PrecedingGrows, PrecedingCounts
  <2>4. at(n) = a
    BY <2>2, <2>3 DEF StrictOrder
  <2> QED
    BY <2>1, <2>4
<1> QED
  BY <1>1, <1>2, <1>3, <1>4, <1>5

-----------------------------------------------------------------------------
(* Declarations *)

(* The capabilities an application writes, in an order of their types.     *)
Ranked(s) ==
    /\ s \in Seq(STRING \X Nat)
    /\ \A c, d \in ToSet(s) :
          Rank(c[1]) \in Nat /\ (Rank(c[1]) = Rank(d[1]) => c[1] = d[1])

LEMMA ElementsOf ==
    ASSUME NEW s \in Seq(STRING \X Nat), NEW i \in DOMAIN s
    PROVE  /\ i \in Nat /\ s[i] \in STRING \X Nat /\ s[i] \in ToSet(s)
           /\ s[i] = <<s[i][1], s[i][2]>> /\ s[i][2] \in Nat
BY DEF ToSet

(* Any two of them are told apart by their order.                          *)
LEMMA BeforeIsTotal ==
    ASSUME NEW s, Ranked(s), NEW i \in DOMAIN s, NEW j \in DOMAIN s
    PROVE  /\ ~Before(s[i], s[i])
           /\ Before(s[i], s[j]) \/ Before(s[j], s[i]) \/ s[i] = s[j]
           /\ Before(s[i], s[j]) => ~Before(s[j], s[i])
<1>1. /\ s[i] = <<s[i][1], s[i][2]>> /\ s[i][2] \in Nat /\ s[i] \in ToSet(s)
      /\ s[j] = <<s[j][1], s[j][2]>> /\ s[j][2] \in Nat /\ s[j] \in ToSet(s)
  BY ElementsOf DEF Ranked
<1>2. /\ Rank(s[i][1]) \in Nat /\ Rank(s[j][1]) \in Nat
      /\ Rank(s[i][1]) = Rank(s[j][1]) => s[i][1] = s[j][1]
  BY <1>1 DEF Ranked
<1> QED
  BY <1>1, <1>2 DEF Before

LEMMA BeforeIsTransitive ==
    ASSUME NEW s, Ranked(s), NEW i \in DOMAIN s, NEW j \in DOMAIN s, NEW k \in DOMAIN s,
           Before(s[i], s[j]), Before(s[j], s[k])
    PROVE  Before(s[i], s[k])
<1>1. /\ s[i][2] \in Nat /\ s[i] \in ToSet(s)
      /\ s[j][2] \in Nat /\ s[j] \in ToSet(s)
      /\ s[k][2] \in Nat /\ s[k] \in ToSet(s)
  BY ElementsOf DEF Ranked
<1>2. Rank(s[i][1]) \in Nat /\ Rank(s[j][1]) \in Nat /\ Rank(s[k][1]) \in Nat
  BY <1>1 DEF Ranked
<1> QED
  BY <1>1, <1>2 DEF Before

(* The places are in a strict order, that of their capabilities first.     *)
LEMMA PlacesAreOrdered ==
    ASSUME NEW s, Ranked(s)
    PROVE  StrictOrder(DOMAIN s, SortedBefore(s))
<1>1. \A i \in DOMAIN s : i \in Nat
  BY ElementsOf DEF Ranked
<1>2. \A i, j \in DOMAIN s :
         <<i, j>> \in SortedBefore(s) <=> Before(s[i], s[j]) \/ (s[i] = s[j] /\ i < j)
  BY DEF SortedBefore
<1>3. \A i \in DOMAIN s : <<i, i>> \notin SortedBefore(s)
  BY <1>1, <1>2, BeforeIsTotal
<1>4. ASSUME NEW i \in DOMAIN s, NEW j \in DOMAIN s
      PROVE  i = j \/ <<i, j>> \in SortedBefore(s) \/ <<j, i>> \in SortedBefore(s)
  <2>1. i < j \/ j < i \/ i = j
    BY <1>1
  <2>2. Before(s[i], s[j]) \/ Before(s[j], s[i]) \/ s[i] = s[j]
    BY BeforeIsTotal
  <2> QED
    BY <1>2, <2>1, <2>2
<1>5. ASSUME NEW i \in DOMAIN s, NEW j \in DOMAIN s, NEW k \in DOMAIN s,
             <<i, j>> \in SortedBefore(s), <<j, k>> \in SortedBefore(s)
      PROVE  <<i, k>> \in SortedBefore(s)
  <2>1. Before(s[i], s[k]) \/ (s[i] = s[k] /\ i < k)
    BY <1>1, <1>2, <1>5, BeforeIsTransitive
  <2> QED
    BY <1>2, <2>1
<1> QED
  BY <1>3, <1>4, <1>5 DEF StrictOrder

(* What sort does: the same capabilities, each before the next or equal.   *)
LEMMA SortedSorts ==
    ASSUME NEW s, Ranked(s)
    PROVE  /\ Sorted(s) \in Seq(STRING \X Nat)
           /\ DOMAIN Sorted(s) = DOMAIN s
           /\ Len(Sorted(s)) = Len(s)
           /\ ToSet(Sorted(s)) \subseteq ToSet(s)
           /\ \A n, m \in DOMAIN s :
                 n < m => Before(Sorted(s)[n], Sorted(s)[m]) \/ Sorted(s)[n] = Sorted(s)[m]
<1> DEFINE places == InOrder(DOMAIN s, SortedBefore(s))
<1>1. Len(s) \in Nat /\ DOMAIN s = 1 .. Len(s)
  BY DEF Ranked
<1>2. IsFiniteSet(DOMAIN s) /\ Cardinality(DOMAIN s) = Len(s)
  <2>1. IsFiniteSet(1 .. Len(s)) /\ Cardinality(1 .. Len(s)) = Len(s)
    BY <1>1, IntervalFromOne
  <2> QED
    BY <1>1, <2>1
<1>3. /\ places \in [DOMAIN s -> DOMAIN s]
      /\ \A n, m \in DOMAIN s : n < m => <<places[n], places[m]>> \in SortedBefore(s)
  BY <1>1, <1>2, PlacesAreOrdered, InOrderLists
<1>4. Sorted(s) = [n \in DOMAIN s |-> s[places[n]]]
  BY DEF Sorted
<1> HIDE DEF places
<1>5. \A n \in DOMAIN s : s[places[n]] \in STRING \X Nat
  BY <1>3 DEF Ranked
<1>6. Sorted(s) \in [1 .. Len(s) -> STRING \X Nat]
  BY <1>1, <1>4, <1>5
<1>7. Sorted(s) \in Seq(STRING \X Nat) /\ Len(Sorted(s)) = Len(s)
  BY <1>1, <1>6
<1>8. ASSUME NEW n \in DOMAIN s, NEW m \in DOMAIN s, n < m
      PROVE  Before(s[places[n]], s[places[m]]) \/ s[places[n]] = s[places[m]]
  BY <1>3, <1>8 DEF SortedBefore
<1>9. ToSet(Sorted(s)) \subseteq ToSet(s)
  BY <1>3, <1>4 DEF ToSet
<1> QED
  BY <1>4, <1>6, <1>7, <1>8, <1>9

(* What is sorted and has no repeats next to each other has none.          *)
LEMMA CanonicalIsStrict ==
    ASSUME NEW s, Ranked(s), ~Repeated(Sorted(s)),
           NEW n \in DOMAIN s, NEW m \in DOMAIN s, n < m
    PROVE  Before(Sorted(s)[n], Sorted(s)[m])
<1> DEFINE t == Sorted(s)
<1>1. Len(s) \in Nat /\ DOMAIN s = 1 .. Len(s)
  BY DEF Ranked
<1>2. Ranked(t) /\ DOMAIN t = DOMAIN s
  BY SortedSorts DEF Ranked
<1>3. \A i, j \in DOMAIN t : i < j => Before(t[i], t[j]) \/ t[i] = t[j]
  BY <1>2, SortedSorts
<1>4. n \in Nat /\ m \in Nat /\ n + 1 \in DOMAIN t /\ n + 1 > 1 /\ (n + 1) - 1 = n
  BY <1>1, <1>2
<1>5. t[n] # t[n + 1]
  BY <1>4 DEF Repeated
<1> HIDE DEF t
<1>6. Before(t[n], t[n + 1])
  BY <1>2, <1>3, <1>4, <1>5
<1>7. CASE m = n + 1
  BY <1>6, <1>7 DEF t
<1>8. CASE n + 1 < m
  <2>1. Before(t[n + 1], t[m]) \/ t[n + 1] = t[m]
    BY <1>2, <1>3, <1>4, <1>8
  <2>2. Before(t[n], t[m])
    BY <1>2, <1>4, <1>6, <2>1, BeforeIsTransitive
  <2> QED
    BY <2>2 DEF t
<1> QED
  BY <1>1, <1>4, <1>7, <1>8

(* What is constructed is a declaration the platform's decoder takes.      *)
LEMMA ConstructedIsReadable ==
    ASSUME NEW draft \in Drafts, new(draft).declares # <<>>
    PROVE  /\ Head(new(draft).declares) \in PEPHandshake
           /\ Readable(Head(new(draft).declares))
<1> DEFINE s == draft.capabilities
           h == [draft EXCEPT !.capabilities = Sorted(s)]
<1>1. draft \in [pep_id : STRING, audience : STRING, capabilities : Seq(STRING \X Nat)]
      /\ Ranked(s)
  BY DraftsAssumption DEF Ranked
<1>2. /\ well_formed(draft.pep_id, is_identifier_start, is_identifier_byte)
      /\ well_formed(draft.audience, is_audience_start, is_audience_byte)
      /\ canonical_capabilities(s) # <<>>
      /\ encode(draft.pep_id, draft.audience, Head(canonical_capabilities(s)))
            <= MAX_PEP_HANDSHAKE_BYTES
      /\ new(draft).declares = <<[draft EXCEPT !.capabilities = Head(canonical_capabilities(s))]>>
  BY DEF new, PEPHandshakeError
<1>3. /\ canonical_capabilities(s) = <<Sorted(s)>>
      /\ ~(Len(s) > MAX_PEP_HANDSHAKE_CAPABILITIES)
      /\ ~Repeated(Sorted(s))
      /\ \A c \in ToSet(Sorted(s)) : ~Unmatchable(c)
  BY <1>2 DEF canonical_capabilities
<1>4. Head(new(draft).declares) = h
  BY <1>2, <1>3
<1>5. /\ h.pep_id = draft.pep_id /\ h.audience = draft.audience /\ h.capabilities = Sorted(s)
      /\ h = [pep_id |-> draft.pep_id, audience |-> draft.audience, capabilities |-> Sorted(s)]
  BY <1>1
<1>6. /\ DOMAIN Sorted(s) = DOMAIN s /\ Len(Sorted(s)) = Len(s)
      /\ Sorted(s) \in Seq(STRING \X Nat)
  BY <1>1, SortedSorts
<1>7. \A c \in ToSet(Sorted(s)) :
         c = <<c[1], c[2]>> /\ c[1] \in obligation_type /\ c[2] \in Nat /\ c[2] > 0
  <2>1. \A c \in ToSet(Sorted(s)) : c \in STRING \X Nat
    BY <1>6 DEF ToSet
  <2> QED
    BY <1>3, <2>1 DEF Unmatchable
<1>8. Sorted(s) \in Seq(obligation_type \X Nat)
  <2>1. \A i \in DOMAIN Sorted(s) : Sorted(s)[i] \in obligation_type \X Nat
    BY <1>7 DEF ToSet
  <2> QED
    BY <1>6, <2>1, SequenceOf
<1>9. Readable(h)
  <2>1. \A i, j \in DOMAIN h.capabilities : i < j => Before(h.capabilities[i], h.capabilities[j])
    BY <1>1, <1>3, <1>5, <1>6, CanonicalIsStrict
  <2>2. \A c \in ToSet(h.capabilities) : c[1] \in obligation_type /\ c[2] > 0
    BY <1>5, <1>7
  <2>3. Len(h.capabilities) <= MAX_PEP_HANDSHAKE_CAPABILITIES
    BY <1>1, <1>3, <1>5, <1>6, LimitsAssumption DEF Ranked
  <2>4. encode(h.pep_id, h.audience, h.capabilities) <= MAX_PEP_HANDSHAKE_BYTES
    BY <1>2, <1>3, <1>5
  <2>5. /\ Spelling(h.pep_id).first \in {"lower", "digit"}
        /\ "uri" \notin Spelling(h.pep_id).tail
        /\ {Spelling(h.pep_id).bytes, Spelling(h.audience).bytes} \subseteq
              1 .. MAX_IDENTIFIER_BYTES
    BY <1>2, <1>5 DEF well_formed, is_identifier_start, is_identifier_byte
  <2> QED
    BY <2>1, <2>2, <2>3, <2>4, <2>5 DEF Readable
<1> QED
  BY <1>1, <1>4, <1>5, <1>8, <1>9 DEF PEPHandshake

-----------------------------------------------------------------------------
(* Adapters *)

Told(names) == {a \in {normalized(n) : n \in names} : Declarable(a)}

(* The registry holds what was declared and can be, each once.             *)
RegistryIsDeclared ==
    /\ declared \subseteq Names
    /\ registry = Told(declared)
    /\ IsFiniteSet(registry)
    /\ features \in Seq(Seq(registry)) /\ Len(features) <= 1

(* The features of a payload are those declared, in their order, as many   *)
(* as there is room for.                                                   *)
LEMMA FeaturesTell ==
    ASSUME RegistryIsDeclared
    PROVE  /\ registered_features \in Seq(registry)
           /\ Tells(registered_features, declared)
<1> DEFINE before == {p \in registry \X registry : Earlier(p[1], p[2])}
           list == InOrder(registry, before)
           count == Cardinality(registry)
           taken == IF count < MAX_FEATURES THEN count ELSE MAX_FEATURES
           kept == SubSeq(list, 1, taken)
<1>1. /\ registry \subseteq Told(Names) /\ Told(declared) = registry
      /\ IsFiniteSet(registry) /\ count \in Nat
  BY FS_CardinalityType DEF RegistryIsDeclared, Told
<1>2. {n \in registry : PrefixBytes + size(n) <= MAX_FEATURE_BYTES} = registry
  <2>1. ASSUME NEW n \in registry
        PROVE  PrefixBytes + size(n) <= MAX_FEATURE_BYTES
    <3>1. size(n) \in 1 .. MAX_RELAYED_VALUE_LEN
      BY <1>1 DEF Told, Declarable
    <3>2. /\ MAX_RELAYED_VALUE_LEN \in Nat /\ MAX_FEATURE_BYTES \in Nat /\ PrefixBytes \in Nat
          /\ PrefixBytes + MAX_RELAYED_VALUE_LEN <= MAX_FEATURE_BYTES
      BY AdaptersAssumption
    <3> QED
      BY <3>1, <3>2
  <2> QED
    BY <2>1
<1>3. registered_features = kept
  <2> HIDE DEF kept
  <2>1. registered_features = bound_features(registry)
    BY DEF registered_features
  <2> QED
    BY <1>2, <2>1 DEF bound_features, kept
<1>4. StrictOrder(registry, before)
  <2>1. \A a, b, c \in Told(Names) :
           /\ ~Earlier(a, a)
           /\ a = b \/ Earlier(a, b) \/ Earlier(b, a)
           /\ Earlier(a, b) /\ Earlier(b, c) => Earlier(a, c)
    BY AdaptersAssumption DEF Told
  <2>2. \A a, b \in registry : <<a, b>> \in before <=> Earlier(a, b)
    OBVIOUS
  <2> HIDE DEF before
  <2> QED
    BY <1>1, <2>1, <2>2 DEF StrictOrder
<1>5. \A a, b : <<a, b>> \in before => Earlier(a, b)
  OBVIOUS
<1>6. taken \in 0 .. count /\ (taken < count => taken = MAX_FEATURES)
  BY <1>1, AdaptersAssumption
<1> HIDE DEF before, taken, count, list
<1>7. /\ list \in [1 .. count -> registry]
      /\ \A n, m \in 1 .. count : n < m => <<list[n], list[m]>> \in before
      /\ \A a \in registry : \E n \in 1 .. count : list[n] = a
  BY <1>1, <1>4, InOrderLists DEF list, count
<1>8. /\ list \in Seq(registry) /\ Len(list) = count
  BY <1>1, <1>7
<1>9. /\ kept \in Seq(registry) /\ Len(kept) = taken /\ DOMAIN kept = 1 .. taken
      /\ \A i \in 1 .. taken : kept[i] = list[i]
  BY <1>1, <1>6, <1>8, SubSeqProperties
<1> HIDE DEF kept
<1>10. ToSet(kept) = {list[i] : i \in 1 .. taken}
  BY <1>9 DEF ToSet
<1>11. 1 .. taken \subseteq 1 .. count
  BY <1>1, <1>6
<1>12. \A i, j \in DOMAIN kept : i < j => Earlier(kept[i], kept[j])
  BY <1>5, <1>7, <1>9, <1>11
<1>13. ASSUME NEW a \in registry \ ToSet(kept)
       PROVE  Len(kept) = MAX_FEATURES /\ \A b \in ToSet(kept) : Earlier(b, a)
  <2>1. PICK k \in 1 .. count : list[k] = a
    BY <1>7
  <2>2. k \notin 1 .. taken
    BY <1>10, <2>1
  <2>3. taken < k /\ taken < count
    BY <1>1, <1>6, <2>2
  <2>4. \A i \in 1 .. taken : i < k
    BY <1>6, <2>3
  <2>5. \A i \in 1 .. taken : Earlier(list[i], a)
    BY <1>5, <1>7, <1>11, <2>1, <2>4
  <2> QED
    BY <1>6, <1>9, <1>10, <2>3, <2>5
<1>14. ToSet(kept) \subseteq registry
  BY <1>7, <1>10, <1>11
<1> QED
  BY <1>1, <1>3, <1>9, <1>12, <1>13, <1>14 DEF Tells, Told

-----------------------------------------------------------------------------
(* Steps of the session are steps of its parts *)

(* The funnel's parameters are what the surfaces make of them.             *)
Surfaces ==
    /\ Handshakes = PEPHandshake
    /\ \A o : Refusal(o) = SessionRefusal(o)
    /\ \A o, done : Answers(o, done) = SessionAnswers(o, done)
    /\ \A o, a : Read(o, a) = SessionRead(o, a)
    /\ \A o, a : ReadsBody(o, a) <=> SessionReadsBody(o, a)
    /\ \A o : ReadsDeclaration(o) <=> SessionReadsDeclaration(o)

(* An evaluation, whatever its bags hold.                                  *)
IsEvaluation(o) ==
    /\ DOMAIN o = {"surface", "call", "method", "writes", "override", "form", "lacks",
                   "context", "properties", "unread", "written"}
    /\ o.surface = "authzen" /\ o.method = "POST" /\ o.writes = FALSE /\ o.override = <<>>
    /\ o.form \in Forms /\ o.lacks \in Lacks

EvaluationsAreWhole ==
    /\ pc = "idle" => op = Nothing
    /\ op.surface = "authzen" => IsEvaluation(op)

(* The evaluation o, with that in its bags.                                *)
Fills(f, o, context, properties, unread) ==
    /\ IsEvaluation(f) /\ SameCall(f, o)
    /\ f.form = o.form /\ f.lacks = o.lacks
    /\ f.context = context /\ f.properties = properties /\ f.unread = unread

LEMMA FilledWith ==
    ASSUME NEW o, IsEvaluation(o), NEW c, NEW p, NEW u
    PROVE  /\ Fills([o EXCEPT !.context = c], o, c, o.properties, o.unread)
           /\ Fills([o EXCEPT !.context = c, !.unread = u], o, c, o.properties, u)
           /\ Fills([o EXCEPT !.properties = p, !.unread = u], o, o.context, p, u)
<1>1. Fills([o EXCEPT !.context = c], o, c, o.properties, o.unread)
  BY DEF Fills, IsEvaluation, SameCall
<1>2. Fills([o EXCEPT !.context = c, !.unread = u], o, c, o.properties, u)
  BY DEF Fills, IsEvaluation, SameCall
<1>3. Fills([o EXCEPT !.properties = p, !.unread = u], o, o.context, p, u)
  BY DEF Fills, IsEvaluation, SameCall
<1> QED
  BY <1>1, <1>2, <1>3

Adding(unread, path, a) == IF a = Unknown THEN unread \cup {path} ELSE unread

LEMMA Built ==
    ASSUME NEW o, NEW c, NEW p, NEW u, Fills(o, op, c, p, u),
           NEW path, NEW a, Build(Unreading(o, path, a))
    PROVE  Fills(op', op, c, p, Adding(u, path, a))
<1>1. Fills(Unreading(o, path, a), op, c, p, Adding(u, path, a))
  BY DEF Unreading, Adding, Fills, IsEvaluation, SameCall
<1>2. op' = [Unreading(o, path, a) EXCEPT !.written = Unreading(o, path, a).written + 1]
  BY DEF Build
<1> QED
  BY <1>1, <1>2 DEF Fills, IsEvaluation, SameCall

(* What building does to the operation.                                    *)
NestedFilled(key, inner, a) ==
    Fills(op', op, record_nested(op.context, key, inner, a), op.properties,
          Adding(op.unread, <<key, inner>>, a))

InsertFilled(key, a) ==
    Fills(op', op, insert(op.context, key, a), op.properties,
          Adding({path \in op.unread : Head(path) # key}, <<key>>, a))

PropertyFilled(a) ==
    Fills(op', op, op.context, insert(op.properties, "role", a),
          Adding(op.unread \ {<<"role">>}, <<"role">>, a))

LEMMA BuildingFills ==
    ASSUME IsEvaluation(op), Building
    PROVE  \/ \E key \in {"args", "correlation"}, inner \in {"query", "trace"},
                a \in {Known, Absent, Unknown} : NestedFilled(key, inner, a)
           \/ \E key \in {"args", "correlation"}, a \in {Known, Unknown, KnownMap(EmptyMap)} :
                InsertFilled(key, a)
           \/ \E a \in {Absent, Unknown} : PropertyFilled(a)
<1>1. ASSUME NEW a, with_query(a)
      PROVE  NestedFilled("args", "query", a)
  BY <1>1, FilledWith, Built DEF with_query, NestedFilled
<1>2. ASSUME NEW key, NEW a, with_correlation(key, a)
      PROVE  NestedFilled("correlation", key, a)
  BY <1>2, FilledWith, Built DEF with_correlation, NestedFilled
<1>3. ASSUME NEW key, NEW a, Insert(key, a)
      PROVE  InsertFilled(key, a)
  BY <1>3, FilledWith, Built DEF Insert, InsertFilled
<1>4. ASSUME NEW a, InsertProperty(a)
      PROVE  PropertyFilled(a)
  BY <1>4, FilledWith, Built DEF InsertProperty, PropertyFilled
<1>5. CASE \E a \in {Known, Absent, Unknown} : with_query(a)
  BY <1>1, <1>5
<1>6. CASE \E a \in {Known, Unknown} : with_correlation("trace", a)
  BY <1>2, <1>6
<1>7. CASE \E key \in {"args", "correlation"}, a \in {Known, Unknown, KnownMap(EmptyMap)} :
              Insert(key, a)
  BY <1>3, <1>7
<1>8. CASE \E a \in {Absent, Unknown} : InsertProperty(a)
  BY <1>4, <1>8
<1> QED
  BY <1>5, <1>6, <1>7, <1>8 DEF Building

LEMMA BuildingRevises ==
    ASSUME EvaluationsAreWhole, Building
    PROVE  /\ Revised
           /\ IsEvaluation(op) /\ IsEvaluation(op') /\ op'.surface = "authzen"
<1>1. /\ IsEvaluation(op) /\ pc = "building"
      /\ UNCHANGED <<client, pc, wire, outcomes, tries, history>>
  BY DEF Building, Build, with_query, with_correlation, Insert, InsertProperty,
         EvaluationsAreWhole
<1>2. IsEvaluation(op') /\ SameCall(op', op)
  BY <1>1, BuildingFills DEF NestedFilled, InsertFilled, PropertyFilled, Fills
<1> QED
  BY <1>1, <1>2 DEF Revised, IsEvaluation

LEMMA SessionSteps ==
    ASSUME Surfaces, EvaluationsAreWhole, [SessionNext]_sessionVars
    PROVE  [Step]_vars
<1>1. CASE Exchanging
  <2>1. ASSUME NEW draft \in Drafts, Declare(draft)
        PROVE  \E h \in Handshakes : with_pep_handshake(h)
    BY <2>1, ConstructedIsReadable DEF Declare, Surfaces
  <2> QED
    BY <1>1, <2>1 DEF Exchanging, Step, Next
<1>2. CASE Building
  BY <1>2, BuildingRevises DEF Step
<1>3. CASE Sending
  BY <1>3 DEF Sending, Step, Next
<1>4. CASE UNCHANGED vars
  BY <1>4
<1> QED
  BY <1>1, <1>2, <1>3, <1>4 DEF SessionNext, sessionVars

LEMMA WholeNext ==
    ASSUME EvaluationsAreWhole, [SessionNext]_sessionVars
    PROVE  EvaluationsAreWhole'
<1>1. CASE Building
  BY <1>1, BuildingRevises DEF Revised, EvaluationsAreWhole
<1>2. ASSUME NEW o \in Ops, Begin(o)
      PROVE  EvaluationsAreWhole'
  <2>1. o.surface = "authzen" => IsEvaluation(o)
    BY OpsAssumption DEF Evaluation, IsEvaluation
  <2> QED
    BY <1>2, <2>1 DEF Begin, EvaluationsAreWhole
<1>3. CASE Finish
  BY <1>3 DEF Finish, EvaluationsAreWhole, Nothing
<1>4. CASE UNCHANGED op /\ (pc' = "idle" => pc = "idle")
  BY <1>4 DEF EvaluationsAreWhole
<1> QED
  BY <1>1, <1>2, <1>3, <1>4 DEF SessionNext, sessionVars, vars, Exchanging, Declare, as_user,
     with_pep_handshake, Call, TooManyRedirects, FollowRedirect, StopRedirect, Handle,
     GatewayAnswers, Unreachable, Arrive, Lose, Retry, Sending, Send, call

-----------------------------------------------------------------------------
(* The funnel in a session *)

LEMMA FunnelInit == SessionInit => EvaluationsAreWhole /\ TypeOK /\ OpTyped /\ Counted /\ WireIsCall
<1>1. Init => EvaluationsAreWhole
  <2>1. Nothing.surface = "none"
    BY DEF Nothing
  <2> QED
    BY <2>1 DEF Init, EvaluationsAreWhole
<1> QED
  BY <1>1, ExchangeTypeInit, WireInit DEF SessionInit

(* Whatever is called, the funnel keeps its promises.                      *)
LEMMA Funnel ==
    ASSUME Surfaces
    PROVE  SessionSpec => [](EvaluationsAreWhole /\ TypeOK /\ OpTyped /\ Counted /\ WireIsCall)
<1>1. EvaluationsAreWhole /\ [SessionNext]_sessionVars => [Step]_vars
  BY SessionSteps
<1> QED
  BY <1>1, FunnelInit, WholeNext, OpNext, CountedNext, ExchangeTypeNext, WireNext,
     PTL DEF SessionSpec

(* A session of every surface never lets a request speak for anybody but   *)
(* the person its call named, nor to another origin than the endpoint's.   *)
THEOREM SessionSpeaksForItsUser ==
    ASSUME Surfaces
    PROVE  SessionSpec => []SpeaksForItsUser
BY Funnel, WireSpeaks, PTL

(* In a session too no route gets a declaration it does not read, or is    *)
(* left without the client's own where it does.                            *)
THEOREM SessionDeclaresWhereRead ==
    ASSUME Surfaces
    PROVE  SessionSpec => []DeclaredWhereRead
BY Funnel, WireDeclares, PTL

-----------------------------------------------------------------------------
(* The heartbeat pass in a session *)

(* Between two passes nothing is left of the first.                        *)
OffIsNew == step = "off" => PassInit

LEMMA OffIsNewNext == OffIsNew /\ [PassNext]_pass => OffIsNew'
<1> SUFFICES ASSUME OffIsNew, [PassNext]_pass
             PROVE  OffIsNew'
  OBVIOUS
<1>1. CASE EndPass
  BY <1>1 DEF EndPass, OffIsNew, PassInit
<1>2. CASE BeginPass \/ ClientFails \/ Probe \/ Healthy \/ Unhealthy \/ PostPayload \/ Accept
           \/ Delivered \/ Refused \/ PostFails \/ Tick \/ Stall
  <2>1. step' # "off"
    BY <1>2 DEF BeginPass, ClientFails, Probe, Healthy, Unhealthy, PostPayload, Accept,
       Delivered, Refused, PostFails, Tick, Stall, Over
  <2> QED
    BY <2>1 DEF OffIsNew
<1>3. CASE UNCHANGED pass
  BY <1>3 DEF pass, clock, sent, OffIsNew, PassInit
<1> QED
  BY <1>1, <1>2, <1>3 DEF PassNext

(* In a session a pass does what a pass does.                              *)
LEMMA SessionPasses == OffIsNew /\ [SessionNext]_sessionVars => [PassNext]_pass
<1> SUFFICES ASSUME OffIsNew, [SessionNext]_sessionVars
             PROVE  [PassNext]_pass
  OBVIOUS
<1>1. CASE Pinging
  BY <1>1 DEF Pinging, PassNext
<1>2. CASE Sending
  <2>1. CASE step \in Over
    BY <1>2, <2>1 DEF Sending, PassNext
  <2>2. CASE step = "off"
    BY <1>2, <2>2 DEF Sending, OffIsNew, PassInit, EndPass, pass, clock, sent
  <2> QED
    BY <1>2, <2>1, <2>2 DEF Sending
<1>3. CASE UNCHANGED pass
  BY <1>3
<1> QED
  BY <1>1, <1>2, <1>3 DEF SessionNext, sessionVars

LEMMA SessionPass ==
    SessionSpec => [](OffIsNew /\ PassTypeOK /\ OnSchedule /\ PostedIsMade)
<1>1. SessionInit => OffIsNew /\ PassTypeOK /\ OnSchedule /\ PostedIsMade
  BY PassTypeInit DEF SessionInit, OffIsNew, PassInit, OnSchedule, PostedIsMade, Over
<1> QED
  BY <1>1, OffIsNewNext, SessionPasses, PassTypeNext, OnScheduleNext, PostedIsMadeNext,
     PTL DEF SessionSpec

(* A call on whose way a pass is made waits no longer for it than the      *)
(* scheduler makes it, and the ping is never skipped for a slow platform.  *)
THEOREM SessionPostHasRoom == SessionSpec => []RoomForThePost
BY SessionPass, OnScheduleMakesRoom, PTL

(* Whatever the application does meanwhile, what counts as delivered was   *)
(* taken by the checkpoint service.                                        *)
THEOREM SessionDeliveryIsPosted == SessionSpec => []DeliveredMeansPosted
<1>1. PostedIsMade => DeliveredMeansPosted
  BY DEF PostedIsMade, DeliveredMeansPosted
<1> QED
  BY <1>1, SessionPass, PTL

-----------------------------------------------------------------------------
(* The paging in a session *)

LEMMA SessionWalk == SessionSpec => []WalkInv
<1>1. [SessionNext]_sessionVars => [WalkNext]_walking
  BY DEF SessionNext, sessionVars
<1>2. SessionInit => WalkInv
  BY WalkInvInit DEF SessionInit
<1> QED
  BY <1>1, <1>2, WalkInvNext, PTL DEF SessionSpec

LEMMA WalkIsTyped == WalkInv => WalkTypeOK
<1> SUFFICES ASSUME WalkInv
             PROVE  WalkTypeOK
  OBVIOUS
<1>1. queue \in Seq(1 .. Requests) /\ arrived \in 0 .. Requests
  BY DEF WalkInv, QueueOK
<1>2. ToSet(queue) \subseteq 1 .. Requests
  BY <1>1, MembersOf
<1>3. walk.seen \subseteq 1 .. arrived
  BY DEF WalkInv, WalkOK
<1> QED
  BY <1>1, <1>2, <1>3 DEF WalkTypeOK

(* An application that pages between its other calls, up to a page that    *)
(* knows of requests and says there are no more, has seen all that were    *)
(* pending when it began and that nobody took, but for one per request     *)
(* that was taken, whatever foreign document was among its pages.          *)
THEOREM SessionWalkMissesOnlyTaken == SessionSpec => []WalkComplete
<1>1. WalkInv => WalkComplete
  BY MissedWasSkipped DEF WalkComplete, SeenToTheEnd, Missed, WalkInv
<1> QED
  BY <1>1, SessionWalk, PTL

-----------------------------------------------------------------------------
(* The adapters in a session *)

LEMMA MoreIsTold ==
    ASSUME NEW names, NEW name, names \subseteq Names, name \in Names
    PROVE  Told(names \cup {name}) = Told(names) \cup (IF Declarable(normalized(name))
                                                        THEN {normalized(name)} ELSE {})
BY DEF Told

LEMMA RegistryNext == RegistryIsDeclared /\ [SessionNext]_sessionVars => RegistryIsDeclared'
<1> SUFFICES ASSUME RegistryIsDeclared, [SessionNext]_sessionVars
             PROVE  RegistryIsDeclared'
  OBVIOUS
<1>1. ASSUME NEW name \in Names, register_adapter(name)
      PROVE  RegistryIsDeclared'
  <2>1. declared' \subseteq Names /\ declared' = declared \cup {name}
    BY <1>1 DEF register_adapter, RegistryIsDeclared
  <2>2. registry' = Told(declared')
    <3>1. /\ registry = Told(declared)
          /\ registry' = IF Declarable(normalized(name)) THEN registry \cup {normalized(name)}
                         ELSE registry
      BY <1>1 DEF register_adapter, RegistryIsDeclared
    <3>2. Told(declared \cup {name}) =
             Told(declared) \cup (IF Declarable(normalized(name)) THEN {normalized(name)} ELSE {})
      BY MoreIsTold DEF RegistryIsDeclared
    <3> QED
      BY <2>1, <3>1, <3>2
  <2>3. IsFiniteSet(registry')
    BY <1>1, FS_AddElement DEF register_adapter, RegistryIsDeclared
  <2>4. registry \subseteq registry' /\ features' = features
    BY <1>1 DEF register_adapter
  <2>5. Seq(registry) \subseteq Seq(registry')
    BY <2>4
  <2>6. features' \in Seq(Seq(registry')) /\ Len(features') <= 1
    BY <2>4, <2>5 DEF RegistryIsDeclared
  <2> QED
    BY <2>1, <2>2, <2>3, <2>6 DEF RegistryIsDeclared, Told
<1>2. CASE ReportAdapters
  <2>1. registered_features \in Seq(registry)
    BY FeaturesTell
  <2>2. features' \in Seq(Seq(registry)) /\ Len(features') <= 1
    BY <1>2, <2>1 DEF ReportAdapters
  <2> QED
    BY <1>2, <2>2 DEF ReportAdapters, RegistryIsDeclared, Told
<1>3. CASE ForgetPayload
  <2>1. features' \in Seq(Seq(registry)) /\ Len(features') <= 1
    BY <1>3 DEF ForgetPayload
  <2> QED
    BY <1>3, <2>1 DEF ForgetPayload, RegistryIsDeclared, Told
<1>4. CASE UNCHANGED adapters
  BY <1>4 DEF adapters, RegistryIsDeclared, Told
<1> QED
  BY <1>1, <1>2, <1>3, <1>4 DEF SessionNext, sessionVars, Pinging, Sending, RegisteringAdapters

LEMMA SessionRegistry == SessionSpec => []RegistryIsDeclared
<1>1. SessionInit => RegistryIsDeclared
  BY FS_EmptySet DEF SessionInit, AdaptersInit, RegistryIsDeclared, Told
<1> QED
  BY <1>1, RegistryNext, PTL DEF SessionSpec

LEMMA RegistryIsTyped == RegistryIsDeclared => AdaptersTypeOK
BY DEF RegistryIsDeclared, AdaptersTypeOK, Told

(* A step that makes a payload makes it of what was declared by then.      *)
LEMMA ReportsTell ==
    ASSUME RegistryIsDeclared, [SessionNext]_sessionVars, features = <<>>, features' # <<>>
    PROVE  Tells(Head(features'), declared)
<1>1. ReportAdapters
  BY DEF SessionNext, sessionVars, Pinging, Sending, RegisteringAdapters, register_adapter,
     ForgetPayload, adapters
<1>2. Head(features') = registered_features
  BY <1>1 DEF ReportAdapters
<1> QED
  BY <1>2, FeaturesTell

(* Each ping reports every adapter declared until its payload was made,    *)
(* once, in whatever spelling, or as many as there is room for: for every  *)
(* set of names, order of them and number of entries.                      *)
THEOREM SessionReportsAdapters == SessionSpec => AdaptersAreReported
<1>1. RegistryIsDeclared /\ [SessionNext]_sessionVars =>
         [features' # <<>> /\ features = <<>> => Tells(Head(features'), declared)]_adapters
  BY ReportsTell
<1> QED
  BY <1>1, SessionRegistry, PTL DEF SessionSpec, AdaptersAreReported

-----------------------------------------------------------------------------
(* Every part of the session is of its type, whatever the others do.       *)
THEOREM SessionTypes ==
    ASSUME Surfaces
    PROVE  SessionSpec => []SessionTypeOK
<1>1. /\ TypeOK /\ PassTypeOK /\ WalkInv /\ RegistryIsDeclared => SessionTypeOK
  BY WalkIsTyped, RegistryIsTyped DEF SessionTypeOK
<1> QED
  BY <1>1, Funnel, SessionPass, SessionWalk, SessionRegistry, PTL

-----------------------------------------------------------------------------
(* Answers and results *)

(* What answers a call: the platform's handler of it, whatever else        *)
(* answers, or a redirect that is not followed.                            *)
Redirected == Plain(302, "redirect", "final")

Possible(o, a) ==
    \/ a \in Strays
    \/ a = Redirected
    \/ \E done \in 0 .. MaxTries : a \in Answers(o, done)

(* A result that no answer gave.                                           *)
Unanswered == answer = NoAnswer /\ result.value = <<>> /\ result.kind # "ReadScope"

(* The answer is one to this call, the result what the operation makes of  *)
(* it, and an answer that says so was given by one who did it.             *)
AnswerIsRead ==
    /\ pc \in {"idle", "building", "sent"} => answer = NoAnswer
    /\ pc = "answered" => Possible(op, answer)
    /\ pc = "done" => \/ Unanswered
                      \/ Possible(op, answer) /\ result = Read(op, answer)
    /\ answer.performs => performed > 0

(* What is refused before it is sent is no answer.                         *)
RefusesItself(o) ==
    Refusal(o) # <<>> => Head(Refusal(o)).value = <<>> /\ Head(Refusal(o)).kind # "ReadScope"

LEMMA NoAnswerSaysNothing ==
    /\ NoAnswer.performs = FALSE /\ Redirected.performs = FALSE
    /\ \A kind, status, reason : Result(kind, status, reason).value = <<>>
    /\ \A kind, status, reason : Result(kind, status, reason).kind = kind
BY DEF NoAnswer, Redirected, Plain, Result

LEMMA AnswerNext ==
    ASSUME TypeOK, AnswerIsRead, pc = "building" => RefusesItself(op), [Step]_vars
    PROVE  AnswerIsRead'
<1> USE NoAnswerSaysNothing
<1>1. CASE \/ \E t \in Tokens : as_user(t)
           \/ \E h \in Handshakes : with_pep_handshake(h)
           \/ \E o \in Ops : Begin(o)
           \/ Revised
  BY <1>1 DEF as_user, with_pep_handshake, Begin, Revised, AnswerIsRead, outcomes, history
<1>2. CASE Call
  <2>1. pc = "building" /\ answer' = answer /\ answer = NoAnswer /\ UNCHANGED history
    BY <1>2 DEF Call, AnswerIsRead
  <2>2. CASE pc' = "done"
    BY <1>2, <2>1, <2>2 DEF Call, RefusesItself, AnswerIsRead, Unanswered, history
  <2>3. CASE pc' = "gate"
    BY <1>2, <2>1, <2>3 DEF Call, AnswerIsRead, history
  <2> QED
    BY <1>2, <2>2, <2>3 DEF Call
<1>3. CASE Send
  BY <1>3 DEF Send, AnswerIsRead, Unanswered, call
<1>4. CASE TooManyRedirects \/ Unreachable
  BY <1>4 DEF TooManyRedirects, Unreachable, HttpError, AnswerIsRead, Unanswered, history
<1>5. CASE FollowRedirect
  BY <1>5 DEF FollowRedirect, AnswerIsRead, outcomes, history, call
<1>6. CASE StopRedirect
  BY <1>6 DEF StopRedirect, Redirected, AnswerIsRead, Possible, call
<1>7. CASE Handle
  <2>1. PICK a \in Strays \cup Answers(op, performed) :
           answer' = a /\ performed' = IF a.performs THEN performed + 1 ELSE performed
    BY <1>7 DEF Handle
  <2>2. performed \in 0 .. MaxTries
    BY DEF TypeOK
  <2>3. Possible(op, a)
    BY <2>1, <2>2 DEF Possible
  <2>4. answer'.performs => performed' > 0
    BY <2>1, <2>2
  <2>5. pc' = "answered" /\ op' = op
    BY <1>7 DEF Handle, call
  <2> QED
    BY <2>1, <2>3, <2>4, <2>5 DEF AnswerIsRead, Possible
<1>8. CASE GatewayAnswers
  BY <1>8, AnswersAssumption DEF GatewayAnswers, AnswerIsRead, Possible, call
<1>9. CASE Arrive
  BY <1>9 DEF Arrive, AnswerIsRead, Possible, call, history
<1>10. CASE Lose
  BY <1>10 DEF Lose, HttpError, AnswerIsRead, Unanswered
<1>11. CASE Retry
  BY <1>11 DEF Retry, AnswerIsRead, history
<1>12. CASE Finish
  BY <1>12 DEF Finish, AnswerIsRead
<1>13. CASE UNCHANGED vars
  BY <1>13 DEF vars, AnswerIsRead, Possible, Unanswered
<1> QED
  BY <1>1, <1>2, <1>3, <1>4, <1>5, <1>6, <1>7, <1>8, <1>9, <1>10, <1>11, <1>12, <1>13
     DEF Step, Next

-----------------------------------------------------------------------------
(* The answers there are *)

LEMMA PlainSays ==
    ASSUME NEW status, NEW body, NEW meant, NEW a, a = Plain(status, body, meant)
    PROVE  /\ a.status = status /\ a.body = body /\ a.meant = meant
           /\ a.wait = "none" /\ a.scope = <<>> /\ ~a.performs /\ a.doc = <<>>
BY DEF Plain

Says(a, status, body, meant) ==
    a.status = status /\ a.body = body /\ a.meant = meant /\ ~a.performs

(* The last word and the failure that will pass are told by the status.    *)
ByStatus(a) ==
    /\ a.status \in Nat
    /\ a.meant = "final" => ~(a.status >= 500 \/ a.status = 429)
    /\ a.meant = "transient" => a.status >= 500 \/ a.status = 429

(* An answer of something else, or a redirect.                             *)
Foreign(a) ==
    /\ a.wait = "none" /\ a.scope = <<>> /\ ~a.performs /\ a.doc = <<>>
    /\ ByStatus(a)
    /\ \/ a.body \in {"page_html", "object", "gateway", "acknowledgement"}
       \/ a.body = "redirect" /\ a.status = 302

LEMMA OthersAreForeign ==
    ASSUME NEW a \in Strays \cup {Redirected}
    PROVE  Foreign(a)
<1>1. CASE a \in Strays
  <2>1. /\ a = Plain(a.status, a.body, a.meant)
        /\ a.status \in 200 .. 599 /\ a.body \in DOMAIN StrayMembers
        /\ a.meant = "final" => ~(a.status >= 500 \/ a.status = 429)
        /\ a.meant = "transient" => a.status >= 500 \/ a.status = 429
    BY <1>1, StraysAssumption
  <2>2. a.wait = "none" /\ a.scope = <<>> /\ ~a.performs /\ a.doc = <<>>
    BY <2>1, PlainSays
  <2>3. DOMAIN StrayMembers = {"page_html", "object", "gateway", "acknowledgement"}
    BY DEF StrayMembers
  <2>4. ByStatus(a)
    BY <2>1 DEF ByStatus
  <2> QED
    BY <2>1, <2>2, <2>3, <2>4 DEF Foreign
<1>2. CASE a = Redirected
  <2>1. /\ a.status = 302 /\ a.body = "redirect" /\ a.meant = "final"
        /\ a.wait = "none" /\ a.scope = <<>> /\ ~a.performs /\ a.doc = <<>>
    BY <1>2, PlainSays DEF Redirected
  <2> QED
    BY <2>1 DEF Foreign, ByStatus
<1> QED
  BY <1>1, <1>2

(* The handlers of the reads: what they say, whatever scope rides on it.   *)
ReadsSaid(o, a) ==
    \/ Says(a, 404, "miss", "final")
    \/ Says(a, 500, "fault", "transient")
    \/ List(o) /\ Says(a, 200, "page", "done") /\ a.doc \in {<<0>>, <<2>>}
    \/ ~List(o) /\ Says(a, 200, "explanation", "done")
    \/ List(o) /\ Says(a, 429, "envelope", "capped")
    \/ Says(a, 401, "unauthenticated", "final")

LEMMA ScopedSays ==
    ASSUME NEW b, "scope" \in DOMAIN b, NEW word, NEW a \in Scoped(b, word)
    PROVE  /\ a.status = b.status /\ a.body = b.body /\ a.meant = b.meant /\ a.doc = b.doc
           /\ a.performs <=> b.performs
           /\ a.scope # <<>> /\ Head(a.scope).word = word
<1>1. PICK h \in Headers(word) : a = [b EXCEPT !.scope = h]
  BY DEF Scoped
<1>2. h # <<>> /\ Head(h).word = word
  BY DEF Headers, Header
<1> QED
  BY <1>1, <1>2

LEMMA RowsSay ==
    ASSUME NEW n, NEW a, a = Rows(n)
    PROVE  Says(a, 200, "page", "done") /\ a.doc = <<n>> /\ "scope" \in DOMAIN a
BY DEF Rows, Plain, Says

(* What a handler may answer, before the scope is put on it.               *)
ReadsBase(o, b) ==
    \/ b = Plain(404, "miss", "final")
    \/ b = Plain(500, "fault", "transient")
    \/ List(o) /\ b \in {Rows(0), Rows(2)}
    \/ ~List(o) /\ b = Plain(200, "explanation", "done")

LEMMA ReadsBaseSays ==
    ASSUME NEW o, NEW b, ReadsBase(o, b)
    PROVE  ReadsSaid(o, b) /\ "scope" \in DOMAIN b
<1>1. CASE List(o) /\ b \in {Rows(0), Rows(2)}
  <2>1. PICK n \in {0, 2} : b = Rows(n)
    BY <1>1
  <2>2. Says(b, 200, "page", "done") /\ b.doc = <<n>> /\ "scope" \in DOMAIN b
    BY <2>1, RowsSay
  <2> QED
    BY <1>1, <2>2 DEF ReadsSaid
<1>2. CASE b = Plain(404, "miss", "final")
  BY <1>2 DEF Plain, Says, ReadsSaid
<1>3. CASE b = Plain(500, "fault", "transient")
  BY <1>3 DEF Plain, Says, ReadsSaid
<1>4. CASE ~List(o) /\ b = Plain(200, "explanation", "done")
  BY <1>4 DEF Plain, Says, ReadsSaid
<1> QED
  BY <1>1, <1>2, <1>3, <1>4 DEF ReadsBase

LEMMA ReadsSay ==
    ASSUME NEW o, NEW a \in ReadsAnswers(o)
    PROVE  ReadsSaid(o, a)
<1>1. CASE \E b, word : ReadsBase(o, b) /\ a \in Scoped(b, word)
  <2>1. PICK b, word : ReadsBase(o, b) /\ a \in Scoped(b, word)
    BY <1>1
  <2>2. ReadsSaid(o, b)
    BY <2>1, ReadsBaseSays
  <2>3. /\ a.status = b.status /\ a.body = b.body /\ a.meant = b.meant /\ a.doc = b.doc
        /\ a.performs <=> b.performs
    BY <2>1, ReadsBaseSays, ScopedSays
  <2> QED
    BY <2>2, <2>3 DEF ReadsSaid, Says
<1>2. CASE \/ List(o) /\ a = Plain(429, "envelope", "capped")
           \/ a = Plain(401, "unauthenticated", "final")
  BY <1>2, PlainSays DEF Says, ReadsSaid
<1> DEFINE unscoped == {Plain(404, "miss", "final"), Plain(500, "fault", "transient")}
                          \cup (IF List(o) THEN {Rows(0)} ELSE {})
           full == IF List(o) THEN Rows(2) ELSE Plain(200, "explanation", "done")
           empty == UNION {Scoped(b, word) : b \in unscoped, word \in Narrowings}
           told == UNION {Scoped(full, word) : word \in Narrowings \ {"none"}}
           capped == IF List(o) THEN {Plain(429, "envelope", "capped")} ELSE {}
           denied == {Plain(401, "unauthenticated", "final")}
<1>3. /\ \A b \in unscoped : ReadsBase(o, b)
      /\ ReadsBase(o, full)
  BY DEF ReadsBase
<1>4. a \in capped \cup denied => \/ List(o) /\ a = Plain(429, "envelope", "capped")
                                 \/ a = Plain(401, "unauthenticated", "final")
  OBVIOUS
<1>5. ReadsAnswers(o) = ((empty \cup told) \cup capped) \cup denied
  BY DEF ReadsAnswers
<1> HIDE DEF unscoped, full, capped, denied
<1>6. a \in empty => \E b \in unscoped, word \in Narrowings : a \in Scoped(b, word)
  OBVIOUS
<1>7. a \in told => \E word \in Narrowings : a \in Scoped(full, word)
  OBVIOUS
<1> HIDE DEF empty, told
<1>8. a \in empty \/ a \in told \/ a \in capped \cup denied
  BY <1>5
<1> QED
  BY <1>1, <1>2, <1>3, <1>4, <1>6, <1>7, <1>8

(* The rows of the checked operations: what a document that reports a      *)
(* change requires, no document of somebody else has.                      *)
IsRow(row) ==
    /\ row.answers \in {200, 201}
    /\ row.writes \in BOOLEAN /\ row.reads \in BOOLEAN
    /\ row.type \notin {"page_html", "object", "gateway", "acknowledgement", "redirect"}
    /\ row.writes /\ row.reads => row.required = {} \/ "request_id" \in row.required

LEMMA RowsAreRows ==
    ASSUME NEW name \in DOMAIN Operation
    PROVE  IsRow(Operation[name])
<1>1. /\ IsRow(list_connectors) /\ IsRow(get_connector) /\ IsRow(get_connector_health)
      /\ IsRow(get_plan_status) /\ IsRow(cancel_plan) /\ IsRow(audit_llm_call)
  BY DEF list_connectors, get_connector, get_connector_health, get_plan_status, cancel_plan,
     audit_llm_call, Get, Post, Row, IsRow, CancelPlanResponse, AuditResult
<1>2. IsRow(install_connector)
  BY DEF install_connector, StatusOnly, Post, Row, IsRow
<1>3. IsRow(get_hitl_request) /\ IsRow(get_hitl_stats)
  BY DEF get_hitl_request, get_hitl_stats, Needing, Get, Row, IsRow
<1>4. IsRow(create_hitl_request)
  <2>1. "request_id" \in Enveloped(HITLApprovalRequest)
    BY DEF Enveloped, HITLApprovalRequest
  <2> QED
    BY <2>1 DEF create_hitl_request, Needing, Post, Row, IsRow
<1>5. IsRow(review_hitl_request)
  BY DEF review_hitl_request, Needing, StatusOnly, Post, Row, IsRow
<1>6. IsRow(checked_post_json_declaring) /\ IsRow(check_input)
  BY DEF checked_post_json_declaring, check_input, Declaring, Post, Row, IsRow
<1> HIDE DEF IsRow
<1> QED
  BY <1>1, <1>2, <1>3, <1>4, <1>5, <1>6 DEF Operation

LEMMA CheckedSay ==
    ASSUME NEW o, o.call \in DOMAIN Operation, NEW a \in CheckedAnswers(o)
    PROVE  /\ ByStatus(a)
           /\ a.performs => /\ Operation[o.call].writes /\ is_success(a.status)
                            /\ a.body = Operation[o.call].type
           /\ is_success(a.status) /\ Operation[o.call].writes => a.performs
<1> DEFINE row == Operation[o.call]
<1>1. row.answers \in {200, 201} /\ row.writes \in BOOLEAN
  BY RowsAreRows DEF IsRow
<1> HIDE DEF row
<1>2. CASE a = [Plain(row.answers, row.type, "done") EXCEPT !.performs = row.writes]
  BY <1>1, <1>2 DEF Plain, ByStatus, is_success, row
<1>3. CASE a \in {Plain(400, "refused", "final"), Plain(404, "refused", "final"),
                  Plain(500, "fault", "transient")}
  <2>1. \/ Says(a, 400, "refused", "final")
        \/ Says(a, 404, "refused", "final")
        \/ Says(a, 500, "fault", "transient")
    BY <1>3, PlainSays DEF Says
  <2> QED
    BY <2>1 DEF Says, ByStatus, is_success
<1> QED
  BY <1>2, <1>3 DEF CheckedAnswers, row

(* The routes of typed policies, of which some say 429 or 503 and mean it. *)
TypedSaid(o, a) ==
    \/ Says(a, 401, "unauthenticated", "final") /\ a.wait = "none"
    \/ Says(a, 503, "catalog_not_configured", "final") /\ a.wait = "none"
    \/ Says(a, 503, "store_unavailable", "transient") /\ a.wait = "none"
    \/ /\ o.call \in {"publish", "activate"} /\ a.performs
       /\ a.status = 200 /\ a.body = o.call /\ a.meant = "done"
    \/ /\ o.call = "publish"
       /\ \/ Says(a, 422, "publication_refused", "final") /\ a.wait = "none"
          \/ Says(a, 402, "tier_limit", "final") /\ a.wait = "none"
          \/ Says(a, 402, "tier_limit", "transient") /\ a.wait = "seconds"
          \/ Says(a, 429, "artifact_cap", "final") /\ a.wait = "none"
    \/ o.call = "activate" /\ Says(a, 409, "activation_refused", "final") /\ a.wait = "none"
    \/ o.call = "active" /\ Says(a, 200, "document", "done")
    \/ o.call = "active" /\ Says(a, 404, "nothing_active", "done")
    \/ o.call \notin {"publish", "activate", "active"} /\ Says(a, 200, o.call, "done")

LEMMA TypedSay ==
    ASSUME NEW o, NEW done, NEW a \in TypedAnswers(o, done)
    PROVE  TypedSaid(o, a)
<1>1. CASE a \in {Plain(401, "unauthenticated", "final"),
                  Plain(503, "catalog_not_configured", "final"),
                  Plain(503, "store_unavailable", "transient")}
  BY <1>1, PlainSays DEF Says, TypedSaid
<1>2. CASE o.call = "publish" /\ a \in Publications
  <2>1. CASE a = [Plain(200, "publish", "done") EXCEPT !.performs = TRUE]
    BY <1>2, <2>1 DEF Plain, TypedSaid
  <2>2. CASE a \in {Plain(422, "publication_refused", "final"), Plain(402, "tier_limit", "final"),
                    Plain(429, "artifact_cap", "final")}
    BY <1>2, <2>2, PlainSays DEF Says, TypedSaid
  <2>3. CASE a = Asking(Plain(402, "tier_limit", "final"), "seconds")
    BY <1>2, <2>3 DEF Plain, Asking, Says, TypedSaid
  <2> QED
    BY <1>2, <2>1, <2>2, <2>3 DEF Publications
<1>3. CASE o.call = "activate" /\ a \in Activations(done)
  <2>1. CASE a = [Plain(200, "activate", "done") EXCEPT !.performs = TRUE]
    BY <1>3, <2>1 DEF Plain, TypedSaid
  <2>2. CASE a = Plain(409, "activation_refused", "final")
    BY <1>3, <2>2, PlainSays DEF Says, TypedSaid
  <2> QED
    BY <1>3, <2>1, <2>2 DEF Activations
<1>4. CASE o.call = "active" /\ a \in {Plain(200, "document", "done"),
                                       Plain(404, "nothing_active", "done")}
  BY <1>4, PlainSays DEF Says, TypedSaid
<1>5. CASE o.call \notin {"publish", "activate", "active"} /\ a = Plain(200, o.call, "done")
  BY <1>5, PlainSays DEF Says, TypedSaid
<1> QED
  BY <1>1, <1>2, <1>3, <1>4, <1>5 DEF TypedAnswers

(* An evaluation's answers: a decision, or a refusal or a failure by name. *)
AuthzenSaid(a) ==
    \/ a.status = 200 /\ a.body = "decision" /\ a.meant = "final" /\ ~a.performs
    \/ Says(a, 422, "unsupported_action", "final")
    \/ Says(a, 401, "unauthenticated", "final")
    \/ Says(a, 503, "evaluation_unavailable", "transient")
    \/ Says(a, 500, "fault", "transient")

LEMMA AuthzenSay ==
    ASSUME NEW o, NEW a \in AuthzenAnswers(o)
    PROVE  AuthzenSaid(a)
<1>1. CASE a \in {Plain(422, "unsupported_action", "final"), Plain(401, "unauthenticated", "final"),
                  Plain(503, "evaluation_unavailable", "transient"),
                  Plain(500, "fault", "transient")}
  BY <1>1, PlainSays DEF Says, AuthzenSaid
<1>2. ASSUME NEW document \in Verdicts, a = Decided(document)
      PROVE  AuthzenSaid(a)
  BY <1>2 DEF Decided, Plain, AuthzenSaid
<1> QED
  BY <1>1, <1>2 DEF AuthzenAnswers

-----------------------------------------------------------------------------
(* Advice *)

(* What the result of an answer tells an application to do next.           *)
Advises(r, a) ==
    /\ a.meant = "final" => ~is_retryable(r)
    /\ a.meant = "transient" =>
          is_retryable(r) \/ (a.status = 429 /\ r.kind \in {"TypedPolicyRefusal", "Refused"})

LEMMA ResultIs ==
    ASSUME NEW kind, NEW status, NEW reason, NEW r, r = Result(kind, status, reason)
    PROVE  r.kind = kind /\ r.status = status /\ r.reason = reason /\ r.value = <<>> /\ ~r.wait
BY DEF Result

LEMMA OkIs ==
    ASSUME NEW value, NEW r, r = Ok(value)
    PROVE  r.kind = "ok" /\ r.value = <<value>>
BY DEF Ok, NoResult, Result

LEMMA SettledIsNotRetried ==
    ASSUME NEW r, r.kind \notin {"HttpError", "ApiError", "RateLimited", "TypedPolicyRefusal",
                                 "Refused"}
    PROVE  ~is_retryable(r)
BY DEF is_retryable

(* Whatever check_status lets through or reports, the status decides.      *)
LEMMA CheckStatusAdvises ==
    ASSUME NEW a, ByStatus(a), NEW read, ~is_retryable(read)
    PROVE  Advises(check_status(a, read), a)
<1>1. CASE is_success(a.status)
  BY <1>1 DEF check_status, is_success, ByStatus, Advises
<1>2. CASE ~is_success(a.status)
  <2>1. check_status(a, read) = Result("ApiError", a.status, a.body)
    BY <1>2 DEF check_status
  <2> DEFINE r == check_status(a, read)
  <2>2. r.kind = "ApiError" /\ r.status = a.status
    BY <2>1, ResultIs
  <2> HIDE DEF r
  <2>3. is_retryable(r) <=> a.status >= 500 \/ a.status = 429
    BY <2>2 DEF is_retryable
  <2> QED
    BY <2>3 DEF ByStatus, Advises, r
<1> QED
  BY <1>1, <1>2

LEMMA ReadsAreByStatus ==
    ASSUME NEW o, NEW a, ReadsSaid(o, a)
    PROVE  ByStatus(a)
BY DEF ReadsSaid, Says, ByStatus

(* The refusals in place of a read.                                        *)
LEMMA ScopeRefuses ==
    ASSUME NEW scope, NEW status, read_scope_refusal(scope, status) # <<>>
    PROVE  /\ scope \in {"None", "OwnRows"}
           /\ Head(read_scope_refusal(scope, status)) = Result("ReadScope", status, scope)
BY DEF read_scope_refusal, ReadScopeRefusal

LEMMA VacuousRefuses ==
    ASSUME NEW scope, NEW status, NEW rows,
           refuse_vacuous_scoped_page(scope, status, rows) # <<>>
    PROVE  /\ scope = "None" /\ ~(rows > 0)
           /\ Head(refuse_vacuous_scoped_page(scope, status, rows)) =
                 Result("ReadScope", status, scope)
BY DEF refuse_vacuous_scoped_page, ReadScopeRefusal

LEMMA ExplainAdvises ==
    ASSUME NEW a, ByStatus(a)
    PROVE  Advises(explain_decision_as(a), a)
<1> DEFINE refusing == read_scope_refusal(parse(a.scope), a.status)
<1>1. ~is_retryable(decode_explanation(a))
  BY OkIs, ResultIs, SettledIsNotRetried DEF decode_explanation
<1>2. CASE a.status = 404 /\ refusing # <<>>
  <2>1. Head(refusing).kind = "ReadScope"
    BY <1>2, ScopeRefuses DEF Result
  <2>2. ~is_retryable(Head(refusing))
    BY <2>1, SettledIsNotRetried
  <2> QED
    BY <1>2, <2>2 DEF explain_decision_as, Advises, ByStatus
<1>3. CASE ~(a.status = 404 /\ refusing # <<>>)
  BY <1>1, <1>3, CheckStatusAdvises DEF explain_decision_as
<1> QED
  BY <1>2, <1>3

LEMMA ListAdvises ==
    ASSUME NEW a, ByStatus(a)
    PROVE  Advises(list_decisions_as(a), a)
<1> DEFINE rows == ListResponse(a)
           refusing == refuse_vacuous_scoped_page(parse(a.scope), a.status, Head(rows))
           read == CASE rows = <<>> -> Result("SerdeError", 0, a.body)
                     [] rows # <<>> /\ refusing # <<>> -> Head(refusing)
                     [] OTHER -> Ok(Head(rows))
<1>1. ~is_retryable(read)
  <2>1. CASE rows = <<>>
    BY <2>1, ResultIs, SettledIsNotRetried
  <2>2. CASE rows # <<>> /\ refusing # <<>>
    <3>1. Head(refusing).kind = "ReadScope"
      BY <2>2, VacuousRefuses DEF Result
    <3> QED
      BY <2>2, <3>1, SettledIsNotRetried
  <2>3. CASE rows # <<>> /\ ~(refusing # <<>>)
    BY <2>3, OkIs, SettledIsNotRetried
  <2> QED
    BY <2>1, <2>2, <2>3
<1>2. CASE a.status = 429 /\ Decodes("envelope", RateLimitEnvelope, a.body)
  <2>1. list_decisions_as(a) = Result("RateLimited", 429, "tier")
    BY <1>2 DEF list_decisions_as
  <2>2. is_retryable(list_decisions_as(a))
    BY <2>1, ResultIs DEF is_retryable
  <2> QED
    BY <1>2, <2>2 DEF ByStatus, Advises
<1>3. CASE ~(a.status = 429 /\ Decodes("envelope", RateLimitEnvelope, a.body))
  <2>1. list_decisions_as(a) = check_status(a, read)
    BY <1>3 DEF list_decisions_as
  <2> QED
    BY <1>1, <2>1, CheckStatusAdvises
<1> QED
  BY <1>2, <1>3

LEMMA CheckedAdvises ==
    ASSUME NEW o, NEW a, ByStatus(a)
    PROVE  Advises(CheckedRead(o, a), a)
<1> DEFINE row == Operation[o.call]
<1>1. ~is_retryable(decoded(row, a))
  <2> HIDE DEF row
  <2>1. \/ \E value : decoded(row, a) = Ok(value)
        \/ \E reason : decoded(row, a) = Result("ApiError", 200, reason)
        \/ decoded(row, a) = Result("SerdeError", 0, a.body)
    BY DEF decoded, Undecodable
  <2>2. ASSUME NEW value, decoded(row, a) = Ok(value)
        PROVE  ~is_retryable(decoded(row, a))
    BY <2>2, OkIs, SettledIsNotRetried
  <2>3. ASSUME NEW reason, decoded(row, a) = Result("ApiError", 200, reason)
        PROVE  ~is_retryable(decoded(row, a))
    <3>1. decoded(row, a).kind = "ApiError" /\ decoded(row, a).status = 200
      BY <2>3 DEF Result
    <3> QED
      BY <3>1 DEF is_retryable
  <2>4. CASE decoded(row, a) = Result("SerdeError", 0, a.body)
    BY <2>4, ResultIs, SettledIsNotRetried
  <2> QED
    BY <2>1, <2>2, <2>3, <2>4
<1> QED
  BY <1>1, CheckStatusAdvises DEF CheckedRead

(* A refusal of a typed policy route, as a result.                         *)
LEMMA TypedRefusalRetries ==
    ASSUME NEW a, a.status \in Nat
    PROVE  LET r == refusal(a)
           IN /\ is_retryable(r) <=>
                    /\ a.status # 401
                    /\ a.wait = "seconds" \/ (a.status >= 500 /\ a.body # "catalog_not_configured")
              /\ a.status # 401 => r.kind = "TypedPolicyRefusal"
              /\ r.kind # "ok" /\ r.value = <<>>
<1> DEFINE reason == IF a.body \in Reasons THEN a.body ELSE "none"
           r == refusal(a)
<1>1. reason # "catalog_not_configured" <=> a.body # "catalog_not_configured"
  BY DEF Reasons
<1> HIDE DEF reason
<1>2. CASE a.status = 401
  <2>1. r = Result("ApiError", 401, a.body)
    BY <1>2 DEF refusal
  <2>2. r.kind = "ApiError" /\ r.status = 401 /\ r.value = <<>>
    BY <2>1 DEF Result
  <2> HIDE DEF r
  <2>3. ~is_retryable(r)
    BY <2>2 DEF is_retryable
  <2> QED
    BY <1>2, <2>2, <2>3 DEF r
<1>3. CASE a.status # 401
  <2>1. r = [Result("TypedPolicyRefusal", a.status, reason) EXCEPT !.wait = retry_after(a)]
    BY <1>3 DEF refusal, reason
  <2>2. /\ r.kind = "TypedPolicyRefusal" /\ r.status = a.status /\ r.reason = reason
        /\ r.value = <<>>
    BY <2>1 DEF Result
  <2>3. r.wait <=> a.wait = "seconds"
    BY <2>1 DEF Result, retry_after
  <2> HIDE DEF r
  <2>4. is_retryable(r) <=>
           \/ a.wait = "seconds"
           \/ a.status >= 500 /\ a.body # "catalog_not_configured"
    BY <1>1, <2>2, <2>3 DEF is_retryable
  <2> QED
    BY <1>3, <2>2, <2>4 DEF r
<1> QED
  BY <1>2, <1>3

(* What a success is read as.                                              *)
LEMMA TypedSuccess ==
    ASSUME NEW o, NEW a, is_success(a.status)
    PROVE  /\ ~is_retryable(TypedRead(o, a))
           /\ TypedRead(o, a).kind = "ok" =>
                \/ TypedRead(o, a).value \in {<<"claimed">>, <<"unsuccessful">>}
                \/ o.call = "active" /\ TypedRead(o, a).value = <<"document">>
                \/ /\ Decodes(o.call, AnswerTypes[o.call], a.body)
                   /\ a.body = o.call \/ AnswerTypes[o.call] # {}
                   /\ TypedRead(o, a).value = <<"done">>
           /\ o.call # "active" /\ a.body = o.call /\ a.body \notin NoObject =>
                 Reported(TypedRead(o, a))
<1> DEFINE r == TypedRead(o, a)
<1>1. a.status # 404
  BY DEF is_success
<1>2. CASE a.body \in NoObject
  <2>1. \E reason : r = Result("ApiError", a.status, reason)
    BY <1>1, <1>2 DEF TypedRead, active, object, not_an_object
  <2>2. r.kind = "ApiError" /\ r.status = a.status
    BY <2>1 DEF Result
  <2> HIDE DEF r
  <2>3. ~is_retryable(r)
    BY <2>2 DEF is_retryable, is_success
  <2> QED
    BY <1>2, <2>2, <2>3 DEF r
<1>3. CASE a.body \notin NoObject /\ o.call = "active"
  <2>1. r = Ok("document")
    BY <1>1, <1>3 DEF TypedRead, active, object
  <2>2. r.kind = "ok" /\ r.value = <<"document">>
    BY <2>1, OkIs
  <2> HIDE DEF r
  <2> QED
    BY <1>3, <2>2, SettledIsNotRetried DEF r
<1>4. CASE a.body \notin NoObject /\ o.call # "active"
  <2>1. r = decode(o, a)
    BY <1>4 DEF TypedRead, object
  <2> DEFINE required == AnswerTypes[o.call]
  <2>2. CASE Decodes(o.call, required, a.body)
    <3> DEFINE value == Found(o.call, required, a.body)
    <3>1. r = Ok(value)
      BY <2>1, <2>2 DEF decode
    <3>2. r.kind = "ok" /\ r.value = <<value>>
      BY <3>1, OkIs
    <3>3. \/ value \in {"claimed", "unsuccessful"} /\ a.body # o.call
          \/ value = "done" /\ (a.body = o.call \/ required # {})
      BY DEF Found
    <3>4. ~is_retryable(r)
      <4> HIDE DEF r
      <4> QED
        BY <3>2, SettledIsNotRetried
    <3>5. a.body = o.call => Reported(r)
      BY <3>2, <3>3 DEF Reported
    <3> QED
      BY <2>2, <3>2, <3>3, <3>4, <3>5
  <2>3. CASE ~Decodes(o.call, required, a.body)
    <3>1. r = Result("SerdeError", 0, a.body)
      BY <2>1, <2>3 DEF decode
    <3>2. r.kind = "SerdeError" /\ a.body # o.call
      BY <2>3, <3>1, ResultIs DEF Decodes
    <3> HIDE DEF r
    <3> QED
      BY <3>2, SettledIsNotRetried DEF r
  <2> QED
    BY <2>2, <2>3
<1> QED
  BY <1>2, <1>3, <1>4

(* What a failure is read as.                                              *)
LEMMA TypedFailure ==
    ASSUME NEW o, NEW a, ~is_success(a.status)
    PROVE  \/ TypedRead(o, a) = refusal(a)
           \/ /\ o.call = "active" /\ a.status = 404 /\ a.body = "nothing_active"
              /\ TypedRead(o, a) = Ok("nothing")
BY DEF TypedRead, active, object

LEMMA TypedAdvises ==
    ASSUME NEW o, NEW a, Foreign(a) \/ TypedSaid(o, a)
    PROVE  Advises(TypedRead(o, a), a)
<1>1. a.status \in Nat /\ (a.meant = "transient" => a.status \in {402, 429} \/ a.status >= 500)
  BY DEF Foreign, ByStatus, TypedSaid, Says
<1>2. CASE is_success(a.status)
  BY <1>1, <1>2, TypedSuccess DEF Advises, is_success
<1>3. CASE /\ o.call = "active" /\ a.status = 404 /\ a.body = "nothing_active"
           /\ TypedRead(o, a) = Ok("nothing")
  <2>1. ~is_retryable(TypedRead(o, a))
    BY <1>3, OkIs, SettledIsNotRetried
  <2> QED
    BY <1>1, <1>3, <2>1 DEF Advises
<1>4. CASE ~is_success(a.status) /\ TypedRead(o, a) = refusal(a)
  <2> DEFINE r == TypedRead(o, a)
  <2>1. /\ is_retryable(r) <=>
              /\ a.status # 401
              /\ a.wait = "seconds" \/ (a.status >= 500 /\ a.body # "catalog_not_configured")
        /\ a.status # 401 => r.kind = "TypedPolicyRefusal"
    BY <1>1, <1>4, TypedRefusalRetries
  <2> HIDE DEF r
  <2>2. ASSUME Foreign(a)
        PROVE  Advises(r, a)
    BY <2>1, <2>2 DEF Foreign, ByStatus, Advises
  <2>3. ASSUME TypedSaid(o, a)
        PROVE  Advises(r, a)
    BY <1>4, <2>1, <2>3 DEF TypedSaid, Says, is_success, Advises
  <2> QED
    BY <2>2, <2>3 DEF r
<1> QED
  BY <1>2, <1>3, <1>4, TypedFailure

LEMMA AuthzenAdvises ==
    ASSUME NEW o, NEW a, Foreign(a) \/ AuthzenSaid(a)
    PROVE  Advises(AuthzenRead(o, a), a)
<1> DEFINE r == AuthzenRead(o, a)
<1>1. ByStatus(a)
  BY DEF Foreign, AuthzenSaid, Says, ByStatus
<1>2. CASE is_success(a.status)
  <2>1. \/ \E why : r = Unusable(why)
        \/ \E reason : r = Result("UnreadableProfile", 0, reason)
        \/ \E value : r = Ok(value)
    BY <1>2 DEF AuthzenRead, from_response
  <2>2. r.kind \in {"UnusableResponse", "UnreadableProfile", "ok"}
    BY <2>1, ResultIs, OkIs DEF Unusable
  <2> HIDE DEF r
  <2>3. ~is_retryable(r)
    BY <2>2, SettledIsNotRetried
  <2> QED
    BY <1>1, <1>2, <2>3 DEF Advises, ByStatus, is_success, r
<1>3. CASE ~is_success(a.status) /\ refused(a)
  <2>1. r = Result("Refused", a.status, a.body)
    BY <1>3 DEF AuthzenRead
  <2>2. r.kind = "Refused" /\ r.reason = a.body
    BY <2>1, ResultIs
  <2> HIDE DEF r
  <2>3. is_retryable(r) <=> a.body = "evaluation_unavailable"
    BY <2>2 DEF is_retryable, retryable
  <2>4. CASE Foreign(a)
    <3>1. a.body = "gateway" /\ a.status \in 400 .. 499
      BY <1>3, <2>4 DEF Foreign, refused, authzen_error_code
    <3> QED
      BY <1>1, <2>2, <2>3, <3>1 DEF Advises, ByStatus, r
  <2>5. CASE AuthzenSaid(a)
    <3>1. /\ a.meant = "final" => a.body # "evaluation_unavailable"
          /\ a.meant = "transient" => a.body = "evaluation_unavailable"
      BY <1>3, <2>5 DEF AuthzenSaid, Says, refused, authzen_error_code
    <3> QED
      BY <2>3, <3>1 DEF Advises, r
  <2> QED
    BY <2>4, <2>5
<1>4. CASE ~is_success(a.status) /\ ~refused(a)
  <2>1. r = Result("ApiError", a.status, a.body)
    BY <1>4 DEF AuthzenRead
  <2>2. r.kind = "ApiError" /\ r.status = a.status
    BY <2>1, ResultIs
  <2> HIDE DEF r
  <2>3. is_retryable(r) <=> a.status >= 500 \/ a.status = 429
    BY <2>2 DEF is_retryable
  <2> QED
    BY <1>1, <2>3 DEF Advises, ByStatus, r
<1> QED
  BY <1>2, <1>3, <1>4

-----------------------------------------------------------------------------
(* Calls of every surface *)

IsOperation(o) ==
    \/ o.surface = "reads" /\ o.call \in {"explain", "list"} /\ ~o.writes
    \/ /\ o.surface = "typed" /\ o.call \in (DOMAIN AnswerTypes) \cup {"active"}
       /\ o.writes <=> o.call \in {"publish", "activate"}
    \/ /\ o.surface = "checked" /\ o.call \in DOMAIN Operation
       /\ o.writes <=> Operation[o.call].writes
    \/ o.surface = "authzen" /\ ~o.writes

LEMMA CalledIsOperation ==
    ASSUME NEW o, Called(o)
    PROVE  IsOperation(o)
<1>1. PICK b \in Ops : SameCall(o, b)
  BY DEF Called
<1>2. IsOperation(b)
  <2>1. CASE \E form \in Forms, lacks \in Lacks : b = Evaluation(form, lacks)
    <3>1. b.surface = "authzen" /\ ~b.writes
      BY <2>1 DEF Evaluation
    <3> QED
      BY <3>1 DEF IsOperation
  <2> QED
    BY <2>1, OpsAssumption DEF IsOperation
<1> QED
  BY <1>1, <1>2 DEF SameCall, IsOperation

(* The answers a call may get, by its surface.                             *)
Answering(o, a) ==
    \/ Foreign(a)
    \/ o.surface = "reads" /\ ReadsSaid(o, a)
    \/ o.surface = "typed" /\ TypedSaid(o, a)
    \/ o.surface = "checked" /\ a \in CheckedAnswers(o)
    \/ o.surface = "authzen" /\ AuthzenSaid(a)

LEMMA HandlersAnswer ==
    ASSUME Surfaces, NEW o, IsOperation(o), NEW done, NEW a \in Answers(o, done)
    PROVE  Answering(o, a)
<1>1. a \in SessionAnswers(o, done)
  BY DEF Surfaces
<1>2. CASE o.surface = "reads"
  BY <1>1, <1>2, ReadsSay DEF SessionAnswers, Answering
<1>3. CASE o.surface = "typed"
  BY <1>1, <1>3, TypedSay DEF SessionAnswers, Answering
<1>4. CASE o.surface = "checked"
  BY <1>1, <1>4 DEF SessionAnswers, Answering
<1>5. CASE o.surface = "authzen"
  BY <1>1, <1>5, AuthzenSay DEF SessionAnswers, Answering
<1> QED
  BY <1>2, <1>3, <1>4, <1>5 DEF IsOperation

LEMMA PossibleAnswers ==
    ASSUME Surfaces, NEW o, IsOperation(o), NEW a, Possible(o, a)
    PROVE  Answering(o, a)
<1>1. CASE a \in Strays \cup {Redirected}
  BY <1>1, OthersAreForeign DEF Answering
<1>2. CASE \E done \in 0 .. MaxTries : a \in Answers(o, done)
  BY <1>2, HandlersAnswer
<1> QED
  BY <1>1, <1>2 DEF Possible

(* What a surface makes of an answer tells what to do next.                *)
LEMMA OperationAdvises ==
    ASSUME Surfaces, NEW o, IsOperation(o), NEW a, Answering(o, a)
    PROVE  Advises(Read(o, a), a)
<1>1. Read(o, a) = SessionRead(o, a)
  BY DEF Surfaces
<1>2. CASE o.surface = "reads"
  <2>1. ByStatus(a)
    BY <1>2, ReadsAreByStatus DEF Answering, Foreign
  <2>2. Read(o, a) \in {explain_decision_as(a), list_decisions_as(a)}
    BY <1>1, <1>2 DEF SessionRead, ReadsRead
  <2> QED
    BY <2>1, <2>2, ExplainAdvises, ListAdvises
<1>3. CASE o.surface = "typed"
  <2>1. Read(o, a) = TypedRead(o, a)
    BY <1>1, <1>3 DEF SessionRead
  <2>2. Foreign(a) \/ TypedSaid(o, a)
    BY <1>3 DEF Answering
  <2> QED
    BY <2>1, <2>2, TypedAdvises
<1>4. CASE o.surface = "checked"
  <2>1. Read(o, a) = CheckedRead(o, a)
    BY <1>1, <1>4 DEF SessionRead
  <2>2. ByStatus(a)
    BY <1>4, CheckedSay DEF Answering, Foreign, IsOperation
  <2> QED
    BY <2>1, <2>2, CheckedAdvises
<1>5. CASE o.surface = "authzen"
  <2>1. Read(o, a) = AuthzenRead(o, a)
    BY <1>1, <1>5 DEF SessionRead
  <2>2. Foreign(a) \/ AuthzenSaid(a)
    BY <1>5 DEF Answering
  <2> QED
    BY <2>1, <2>2, AuthzenAdvises
<1> QED
  BY <1>2, <1>3, <1>4, <1>5 DEF IsOperation

(* What the platform did is reported as done.                              *)
LEMMA CheckedSucceeds ==
    ASSUME NEW o, NEW a, is_success(a.status), a.body = Operation[o.call].type
    PROVE  Reported(CheckedRead(o, a))
<1> DEFINE row == Operation[o.call]
<1>1. CheckedRead(o, a) = decoded(row, a)
  BY DEF CheckedRead, check_status
<1> HIDE DEF row
<1>2. decoded(row, a) = Ok("done")
  BY DEF decoded, Decodes, Found, row
<1> QED
  BY <1>1, <1>2, OkIs DEF Reported

LEMMA OperationSucceeds ==
    ASSUME Surfaces, NEW o, IsOperation(o)
    PROVE  ReadsSuccess(o)
<1> SUFFICES ASSUME NEW done \in 0 .. MaxTries, NEW a \in Answers(o, done), a.performs
             PROVE  Reported(Read(o, a))
  BY DEF ReadsSuccess
<1>1. Answering(o, a) /\ ~Foreign(a)
  BY HandlersAnswer DEF Foreign
<1>2. Read(o, a) = SessionRead(o, a)
  BY DEF Surfaces
<1>3. CASE o.surface = "typed" /\ TypedSaid(o, a)
  <2>1. /\ o.call \in {"publish", "activate"} /\ a.status = 200 /\ a.body = o.call
    BY <1>3 DEF TypedSaid, Says
  <2>2. is_success(a.status) /\ o.call # "active" /\ a.body \notin NoObject
    BY <2>1 DEF is_success, NoObject
  <2>3. Reported(TypedRead(o, a))
    BY <2>1, <2>2, TypedSuccess
  <2> QED
    BY <1>2, <1>3, <2>3 DEF SessionRead
<1>4. CASE o.surface = "checked" /\ a \in CheckedAnswers(o)
  <2>1. is_success(a.status) /\ a.body = Operation[o.call].type
    BY <1>4, CheckedSay DEF IsOperation
  <2>2. Reported(CheckedRead(o, a))
    BY <2>1, CheckedSucceeds
  <2> QED
    BY <1>2, <1>4, <2>2 DEF SessionRead
<1> QED
  BY <1>1, <1>3, <1>4 DEF Answering, ReadsSaid, AuthzenSaid, Says

(* Nothing else makes a change look done and recorded, but for a reading   *)
(* of the status alone.                                                    *)
LEMMA CheckedIsPerformed ==
    ASSUME NEW o, o.call \in DOMAIN Operation, Operation[o.call].writes,
           NEW a, Foreign(a) \/ a \in CheckedAnswers(o), Reported(CheckedRead(o, a))
    PROVE  a.performs \/ ~CheckedReadsBody(o, a)
<1> DEFINE row == Operation[o.call]
<1>1. IsRow(row)
  BY RowsAreRows
<1>2. is_success(a.status)
  <2>1. ASSUME ~is_success(a.status)
        PROVE  FALSE
    <3>1. CheckedRead(o, a) = Result("ApiError", a.status, a.body)
      BY <2>1 DEF CheckedRead, check_status
    <3>2. CheckedRead(o, a).kind = "ApiError"
      BY <3>1, ResultIs
    <3> QED
      BY <3>2 DEF Reported
  <2> QED
    BY <2>1
<1>3. CASE a \in CheckedAnswers(o)
  BY <1>2, <1>3, CheckedSay
<1>4. CASE Foreign(a) /\ ~row.reads
  BY <1>2, <1>4 DEF CheckedReadsBody
<1>5. CASE Foreign(a) /\ row.reads
  <2>1. CheckedRead(o, a) = decoded(row, a)
    BY <1>2 DEF CheckedRead, check_status
  <2>2. a.body \in {"page_html", "object", "gateway", "acknowledgement"}
    <3>1. a.status # 302
      BY <1>2 DEF is_success
    <3> QED
      BY <1>5, <3>1 DEF Foreign
  <2> HIDE DEF row
  <2>3. a.body # row.type
    BY <1>1, <2>2 DEF IsRow
  <2>4. Decodes(row.type, row.required, a.body) => "request_id" \notin row.required
    BY <2>2, <2>3 DEF Decodes, StrayMembers
  <2>5. ~Decodes(row.type, row.required, a.body) => decoded(row, a).kind # "ok"
    <3>1. ASSUME ~Decodes(row.type, row.required, a.body)
          PROVE  \E kind \in {"ApiError", "SerdeError"} : \E status, reason :
                    decoded(row, a) = Result(kind, status, reason)
      BY <1>5, <3>1 DEF decoded, Undecodable
    <3> QED
      BY <3>1, ResultIs
  <2>6. Decodes(row.type, row.required, a.body) /\ row.required = {} =>
           decoded(row, a) = Ok("claimed") \/ decoded(row, a) = Ok("unsuccessful")
    BY <1>5, <2>3 DEF decoded, Found
  <2>7. row.required = {} \/ "request_id" \in row.required
    BY <1>1, <1>5 DEF IsRow, row
  <2> QED
    BY <2>1, <2>4, <2>5, <2>6, <2>7, OkIs DEF Reported
<1> QED
  BY <1>3, <1>4, <1>5

LEMMA TypedIsPerformed ==
    ASSUME NEW o, o.call \in {"publish", "activate"},
           NEW a, Foreign(a) \/ TypedSaid(o, a), Reported(TypedRead(o, a))
    PROVE  a.performs
<1>0. TypedRead(o, a).kind = "ok"
  BY DEF Reported
<1>1. a.status \in Nat
  BY DEF Foreign, ByStatus, TypedSaid, Says
<1>2. is_success(a.status)
  BY <1>0, <1>1, TypedFailure, TypedRefusalRetries
<1>3. CASE TypedSaid(o, a)
  BY <1>2, <1>3 DEF TypedSaid, Says, is_success
<1>4. CASE Foreign(a)
  <2>1. a.body # o.call
    BY <1>4 DEF Foreign
  <2>2. a.body \in {"page_html", "object", "gateway", "acknowledgement"}
    <3>1. a.status # 302
      BY <1>2 DEF is_success
    <3> QED
      BY <1>4, <3>1 DEF Foreign
  <2>3. Decodes(o.call, AnswerTypes[o.call], a.body) => "digest" \notin AnswerTypes[o.call]
    BY <2>1, <2>2 DEF Decodes, StrayMembers
  <2>4. AnswerTypes[o.call] = {} \/ "digest" \in AnswerTypes[o.call]
    BY DEF AnswerTypes
  <2>5. \/ TypedRead(o, a).value \in {<<"claimed">>, <<"unsuccessful">>}
        \/ /\ Decodes(o.call, AnswerTypes[o.call], a.body)
           /\ AnswerTypes[o.call] # {}
    BY <1>0, <1>2, <2>1, TypedSuccess
  <2> QED
    BY <2>3, <2>4, <2>5 DEF Reported
<1> QED
  BY <1>3, <1>4

LEMMA OperationIsPerformed ==
    ASSUME Surfaces, NEW o, IsOperation(o), o.writes,
           NEW a, Answering(o, a), Reported(Read(o, a))
    PROVE  a.performs \/ ~ReadsBody(o, a)
<1>1. Read(o, a) = SessionRead(o, a) /\ (ReadsBody(o, a) <=> SessionReadsBody(o, a))
  BY DEF Surfaces
<1>2. CASE o.surface = "typed"
  <2>1. Read(o, a) = TypedRead(o, a)
    BY <1>1, <1>2 DEF SessionRead
  <2> QED
    BY <1>2, <2>1, TypedIsPerformed DEF IsOperation, Answering
<1>3. CASE o.surface = "checked"
  <2>1. Read(o, a) = CheckedRead(o, a) /\ (ReadsBody(o, a) <=> CheckedReadsBody(o, a))
    BY <1>1, <1>3 DEF SessionRead, SessionReadsBody
  <2> QED
    BY <1>3, <2>1, CheckedIsPerformed DEF IsOperation, Answering
<1> QED
  BY <1>2, <1>3 DEF IsOperation

(* What is refused before it is sent.                                      *)
LEMMA EvaluationRefuses ==
    ASSUME NEW o, AuthzenRefusal(o) # <<>>
    PROVE  \E kind \in {"Unresolved", "Refused", "UnusableRequest"} : \E reason :
              AuthzenRefusal(o) = <<Result(kind, 0, reason)>>
<1> DEFINE code == validate("authzen_envelope", Envelope(o))
<1>1. /\ code # "valid" => AuthzenRefusal(o) = <<local_refusal(code)>>
      /\ code = "valid" /\ Unserialisable(o) =>
            AuthzenRefusal(o) = <<Result("UnusableRequest", 0, code)>>
      /\ code = "valid" /\ ~Unserialisable(o) => AuthzenRefusal(o) = <<>>
  BY DEF AuthzenRefusal
<1> HIDE DEF code
<1>2. local_refusal(code) \in {Result("Unresolved", 0, code), Result("Refused", 0, code)}
  BY DEF local_refusal
<1> QED
  BY <1>1, <1>2

LEMMA OperationRefuses ==
    ASSUME Surfaces, NEW o, IsOperation(o)
    PROVE  RefusesItself(o)
<1> SUFFICES ASSUME Refusal(o) # <<>>
             PROVE  \E kind, reason : kind # "ReadScope" /\ Refusal(o) = <<Result(kind, 0, reason)>>
  BY NoAnswerSaysNothing DEF RefusesItself
<1>1. Refusal(o) = SessionRefusal(o)
  BY DEF Surfaces
<1>2. CASE o.surface = "reads"
  BY <1>1, <1>2 DEF SessionRefusal, ReadsRefusal
<1>3. CASE o.surface = "typed"
  BY <1>1, <1>3 DEF SessionRefusal
<1>4. CASE o.surface = "checked"
  BY <1>1, <1>4 DEF SessionRefusal, CheckedRefusal
<1>5. CASE o.surface = "authzen"
  <2>1. Refusal(o) = AuthzenRefusal(o)
    BY <1>1, <1>5 DEF SessionRefusal
  <2> QED
    BY <2>1, EvaluationRefuses
<1> QED
  BY <1>2, <1>3, <1>4, <1>5 DEF IsOperation

-----------------------------------------------------------------------------
(* The results of a session *)

(* The invariant of a session's calls.                                     *)
CallsAreRead ==
    EvaluationsAreWhole /\ TypeOK /\ OpTyped /\ Counted /\ AnswerIsRead /\ ActsOnce

LEMMA Results ==
    ASSUME Surfaces
    PROVE  SessionSpec => []CallsAreRead
<1>1. SessionInit => AnswerIsRead /\ ActsOnce
  BY ActsOnceInit, NoAnswerSaysNothing DEF SessionInit, Init, AnswerIsRead
<1>2. EvaluationsAreWhole /\ [SessionNext]_sessionVars => [Step]_vars
  BY SessionSteps
<1>3. OpTyped => (pc = "building" => RefusesItself(op)) /\ (pc = "sent" => ReadsSuccess(op))
  BY CalledIsOperation, OperationRefuses, OperationSucceeds DEF OpTyped
<1> QED
  BY <1>1, <1>2, <1>3, FunnelInit, WholeNext, OpNext, CountedNext, ExchangeTypeNext, AnswerNext,
     ActsOnceNext, PTL DEF SessionSpec, CallsAreRead

(* Until an answer is lost nothing is done twice, or done and not reported *)
(* with its record: of every operation of every surface.                   *)
THEOREM SessionLossExplains ==
    ASSUME Surfaces
    PROVE  SessionSpec => []LossExplains
<1>1. CallsAreRead => LossExplains
  BY ActsOnceExplains DEF CallsAreRead
<1> QED
  BY <1>1, Results, PTL

(* What an answer makes of a call that is done.                            *)
LEMMA AnsweredIsRead ==
    ASSUME Surfaces, CallsAreRead, Answered
    PROVE  IsOperation(op) /\ Answering(op, answer) /\ result = Read(op, answer)
<1>1. IsOperation(op)
  BY CalledIsOperation DEF CallsAreRead, OpTyped, Answered
<1>2. Possible(op, answer) /\ result = Read(op, answer)
  BY DEF CallsAreRead, AnswerIsRead, Answered, Unanswered
<1> QED
  BY <1>1, <1>2, PossibleAnswers

(* is_retryable tells the platform's last word from a failure that will    *)
(* pass, for every operation of every surface and whatever answers.        *)
THEOREM SessionAdvises ==
    ASSUME Surfaces
    PROVE  SessionSpec => []RetryAdviceIsTrue
<1>1. CallsAreRead => RetryAdviceIsTrue
  <2> SUFFICES ASSUME CallsAreRead, Answered
               PROVE  Advises(result, answer)
    BY DEF RetryAdviceIsTrue, FinalIsFinal, TransientIsRetryable, Advises
  <2> QED
    BY AnsweredIsRead, OperationAdvises
<1> QED
  BY <1>1, Results, PTL

(* No document of somebody else, not one that says success: true either,   *)
(* passes for the platform's record of a change, unless the body is not    *)
(* read.                                                                   *)
THEOREM SessionSuccessIsPerformed ==
    ASSUME Surfaces
    PROVE  SessionSpec => []SuccessIsPerformed
<1>1. CallsAreRead => SuccessIsPerformed
  <2> SUFFICES ASSUME CallsAreRead, Answered, Reported(result), op.writes
               PROVE  performed > 0 \/ ~ReadsBody(op, answer)
    BY DEF SuccessIsPerformed
  <2>1. answer.performs \/ ~ReadsBody(op, answer)
    BY AnsweredIsRead, OperationIsPerformed
  <2> QED
    BY <2>1 DEF CallsAreRead, AnswerIsRead
<1> QED
  BY <1>1, Results, PTL

-----------------------------------------------------------------------------
(* The promise of a call *)

(* What is refused before it is sent is refused for good.                  *)
LEMMA RefusedForGood ==
    ASSUME Surfaces, NEW o, IsOperation(o), Refusal(o) # <<>>
    PROVE  Head(Refusal(o)).kind # "ok" /\ ~is_retryable(Head(Refusal(o)))
<1>1. Refusal(o) = SessionRefusal(o)
  BY DEF Surfaces
<1>2. ASSUME NEW reason, Refusal(o) = <<Result("ConfigError", 0, reason)>>
      PROVE  Head(Refusal(o)).kind # "ok" /\ ~is_retryable(Head(Refusal(o)))
  <2>1. Head(Refusal(o)).kind = "ConfigError"
    BY <1>2, NoAnswerSaysNothing
  <2> QED
    BY <2>1, SettledIsNotRetried
<1>3. CASE o.surface = "reads"
  BY <1>1, <1>2, <1>3 DEF SessionRefusal, ReadsRefusal
<1>4. CASE o.surface = "typed"
  BY <1>1, <1>4 DEF SessionRefusal
<1>5. CASE o.surface = "checked"
  BY <1>1, <1>2, <1>5 DEF SessionRefusal, CheckedRefusal
<1>6. CASE o.surface = "authzen"
  <2>1. Refusal(o) = AuthzenRefusal(o)
    BY <1>1, <1>6 DEF SessionRefusal
  <2>2. \E reason : \/ Refusal(o) = <<Result("Unresolved", 0, reason)>>
                    \/ Refusal(o) = <<Result("UnusableRequest", 0, reason)>>
                    \/ reason # "evaluation_unavailable" /\ Refusal(o) = <<Result("Refused", 0, reason)>>
    <3> DEFINE code == validate("authzen_envelope", Envelope(o))
    <3>1. /\ code # "valid" => AuthzenRefusal(o) = <<local_refusal(code)>>
          /\ code = "valid" /\ Unserialisable(o) =>
                AuthzenRefusal(o) = <<Result("UnusableRequest", 0, code)>>
          /\ code = "valid" /\ ~Unserialisable(o) => AuthzenRefusal(o) = <<>>
      BY DEF AuthzenRefusal
    <3> HIDE DEF code
    <3> QED
      BY <2>1, <3>1 DEF local_refusal
  <2>3. PICK reason : \/ Refusal(o) = <<Result("Unresolved", 0, reason)>>
                      \/ Refusal(o) = <<Result("UnusableRequest", 0, reason)>>
                      \/ /\ reason # "evaluation_unavailable"
                         /\ Refusal(o) = <<Result("Refused", 0, reason)>>
    BY <2>2
  <2>4. CASE \/ Refusal(o) = <<Result("Unresolved", 0, reason)>>
             \/ Refusal(o) = <<Result("UnusableRequest", 0, reason)>>
    <3>1. Head(Refusal(o)).kind \in {"Unresolved", "UnusableRequest"}
      BY <2>4, NoAnswerSaysNothing
    <3> QED
      BY <3>1, SettledIsNotRetried
  <2>5. CASE reason # "evaluation_unavailable" /\ Refusal(o) = <<Result("Refused", 0, reason)>>
    <3>1. Head(Refusal(o)).kind = "Refused" /\ Head(Refusal(o)).reason = reason
      BY <2>5, ResultIs
    <3> QED
      BY <2>5, <3>1 DEF is_retryable, retryable
  <2> QED
    BY <2>3, <2>4, <2>5
<1> QED
  BY <1>3, <1>4, <1>5, <1>6 DEF IsOperation

(* Every answer means something; only the cap on the listing is "capped".  *)
LEMMA PossibleWords ==
    ASSUME Surfaces, NEW o, IsOperation(o), NEW a, Possible(o, a)
    PROVE  \/ a.meant \in {"done", "final", "transient"}
           \/ List(o) /\ Says(a, 429, "envelope", "capped")
<1>1. CASE a \in Strays
  BY <1>1, StraysAssumption
<1>2. CASE a = Redirected
  BY <1>2 DEF Redirected, Plain
<1>3. ASSUME NEW done \in 0 .. MaxTries, a \in Answers(o, done)
      PROVE  \/ a.meant \in {"done", "final", "transient"}
             \/ List(o) /\ Says(a, 429, "envelope", "capped")
  <2>1. a \in SessionAnswers(o, done)
    BY <1>3 DEF Surfaces
  <2>2. CASE o.surface = "reads"
    <3>1. ReadsSaid(o, a)
      BY <2>1, <2>2, ReadsSay DEF SessionAnswers
    <3> QED
      BY <3>1 DEF ReadsSaid, Says
  <2>3. CASE o.surface = "typed"
    <3>1. TypedSaid(o, a)
      BY <2>1, <2>3, TypedSay DEF SessionAnswers
    <3> QED
      BY <3>1 DEF TypedSaid, Says
  <2>4. CASE o.surface = "checked"
    <3>1. a \in CheckedAnswers(o)
      BY <2>1, <2>4 DEF SessionAnswers
    <3> QED
      BY <3>1 DEF CheckedAnswers, Plain
  <2>5. CASE o.surface = "authzen"
    <3>1. AuthzenSaid(a)
      BY <2>1, <2>5, AuthzenSay DEF SessionAnswers
    <3> QED
      BY <3>1 DEF AuthzenSaid, Says
  <2> QED
    BY <2>2, <2>3, <2>4, <2>5 DEF IsOperation
<1> QED
  BY <1>1, <1>2, <1>3 DEF Possible

LEMMA CappedIsNoSuccess ==
    ASSUME Surfaces, NEW o, IsOperation(o), List(o), NEW a, Says(a, 429, "envelope", "capped")
    PROVE  Read(o, a).kind # "ok"
<1>1. Read(o, a) = list_decisions_as(a)
  BY DEF Surfaces, SessionRead, ReadsRead, List, Explain
<1>2. /\ list_decisions_as(a).kind \in {"RateLimited", "ApiError"}
  <2>1. ~is_success(a.status)
    BY DEF Says, is_success
  <2>2. \/ list_decisions_as(a) = Result("RateLimited", 429, "tier")
        \/ list_decisions_as(a) = Result("ApiError", a.status, a.body)
    BY <2>1 DEF list_decisions_as, check_status, Says
  <2> QED
    BY <2>2, ResultIs
<1> QED
  BY <1>1, <1>2

(* What the promise of a call rests on.                                    *)
Promising ==
    /\ CallsAreRead /\ WireIsCall
    /\ RetryAdviceIsTrue /\ SuccessIsPerformed /\ LossExplains

(* What an answer on its way means, and what it does once it has arrived.  *)
LEMMA AnswerMeans ==
    ASSUME Surfaces, CallsAreRead, pc = "answered"
    PROVE  Meant \in {"done", "final", "limited", "transient"}
<1>1. IsOperation(op) /\ Possible(op, answer)
  BY CalledIsOperation DEF CallsAreRead, OpTyped, AnswerIsRead
<1> QED
  BY <1>1, PossibleWords DEF Meant, Says

LEMMA InformedOf ==
    /\ pc # "done" => Informed = "none"
    /\ pc = "done" =>
          /\ Informed \in {"performed", "claimed", "ok", "again", "failed"}
          /\ Informed \in {"performed", "claimed", "ok"} <=> result.kind = "ok"
          /\ Informed = "again" <=> result.kind # "ok" /\ is_retryable(result)
          /\ Informed = "performed" =>
                op.writes /\ Reported(result) /\ ReadsBody(op, answer)
          /\ Reported(result) => Informed \in {"performed", "ok"}
BY DEF Informed, Reported

(* The call is made for the same person until it is done with.             *)
LEMMA NamedKept ==
    ASSUME UNCHANGED client, op'.override = op.override, pc # "idle", pc' # "idle"
    PROVE  UNCHANGED NamedFor
BY DEF NamedFor

LEMMA NamedByToken ==
    /\ pc = "idle" => NamedFor = <<>>
    /\ pc' = "idle" => NamedFor' = <<>>
    /\ pc # "idle" => NamedFor = <<token(op, client)>>
    /\ pc' # "idle" => NamedFor' = <<token(op', client')>>
BY DEF NamedFor, token

LEMMA MeantKept == ASSUME UNCHANGED answer PROVE UNCHANGED Meant
BY DEF Meant

LEMMA NoAnswerMeansNone ==
    /\ answer = NoAnswer => Meant = "none"
    /\ answer' = NoAnswer => Meant' = "none"
BY DEF NoAnswer, Plain, Meant

(* The application is told what agrees with the answer.                    *)
LEMMA ArriveTells ==
    ASSUME Surfaces, Promising, Promising', Arrive
    PROVE  \E t \in {"performed", "claimed", "ok", "again", "failed"} : Telling!Tell(t)
<1>1. /\ pc = "answered" /\ pc' = "done" /\ result' = Read(op, answer)
      /\ UNCHANGED <<client, op, wire, answer, tries, performed, lost>>
  BY DEF Arrive, call, history
<1>2. IsOperation(op) /\ Possible(op, answer)
  BY <1>1, CalledIsOperation DEF Promising, CallsAreRead, OpTyped, AnswerIsRead
<1>3. \/ answer.meant \in {"done", "final", "transient"}
      \/ List(op) /\ Says(answer, 429, "envelope", "capped")
  BY <1>2, PossibleWords
<1>4. Answered'
  BY <1>1, <1>3 DEF Answered, NoAnswer, Plain, Says
<1>5. /\ answer.meant = "final" => ~is_retryable(result')
      /\ answer.meant = "transient" =>
            \/ is_retryable(result')
            \/ answer.status = 429 /\ result'.kind \in {"TypedPolicyRefusal", "Refused"}
  BY <1>1, <1>4 DEF Promising, RetryAdviceIsTrue, FinalIsFinal, TransientIsRetryable
<1>6. answer.meant = "capped" => result'.kind # "ok"
  BY <1>1, <1>2, <1>3, CappedIsNoSuccess
<1>7. is_retryable(result') => result'.kind # "ok"
  BY OkIsNotRetried
<1>8. performed > 0 /\ ~lost => Reported(result')
  <2>1. performed \in Nat
    BY DEF Promising, CallsAreRead, TypeOK
  <2> QED
    BY <1>1, <2>1 DEF Promising, LossExplains
<1>9. Informed' = "performed" => performed > 0
  BY <1>1, <1>4, InformedOf DEF Promising, SuccessIsPerformed, Informed
<1>10. /\ Informed' \in {"performed", "claimed", "ok", "again", "failed"}
       /\ Informed' \in {"performed", "claimed", "ok"} <=> result'.kind = "ok"
       /\ Informed' = "again" <=> result'.kind # "ok" /\ is_retryable(result')
       /\ Reported(result') => Informed' \in {"performed", "ok"}
  BY <1>1 DEF Informed, Reported
<1>11. /\ Meant = "final" => Informed' # "again"
       /\ Meant = "transient" => Informed' = "again"
       /\ Meant = "limited" => Informed' \in {"again", "failed"}
       /\ Meant # "none"
  BY <1>3, <1>5, <1>6, <1>7, <1>10 DEF Meant, Says
<1>12. SpeaksFor # <<>> /\ SpeaksFor' = <<>>
  BY <1>1 DEF SpeaksFor, OnTheWire
<1>13. UNCHANGED NamedFor /\ UNCHANGED Meant
  BY <1>1, NamedKept, MeantKept
<1>14. Telling!Tell(Informed')
  BY <1>1, <1>8, <1>9, <1>10, <1>11, <1>12, <1>13 DEF Telling!Tell
<1> QED
  BY <1>10, <1>14

(* Every step of a call is one the promise allows, or none.                *)
LEMMA PromiseStep ==
    ASSUME Surfaces, Promising, Promising', [Step]_vars
    PROVE  Telling!PromiseNext \/ UNCHANGED Telling!promised
<1> USE DEF Promising, CallsAreRead
<1>0. /\ pc # "idle" => IsOperation(op)
      /\ pc \in {"idle", "building", "sent"} => answer = NoAnswer
      /\ pc # "done" => Informed = "none"
      /\ pc \in {"gate", "sent"} => performed = 0 \/ lost
  BY CalledIsOperation, InformedOf DEF OpTyped, AnswerIsRead, ActsOnce
<1>1. ASSUME NEW o \in Ops, Begin(o)
      PROVE  Telling!PromiseNext
  <2>1. Called(o)
    BY DEF Called, SameCall
  <2>2. token(o, client) \in Identities
    BY <2>1, TokenIsIdentity
  <2>3. NamedFor = <<>> /\ NamedFor' = <<token(o, client)>>
    BY <1>1, NamedByToken DEF Begin
  <2>4. UNCHANGED <<SpeaksFor, performed, lost, Meant, Informed>>
    BY <1>1 DEF Begin, SpeaksFor, OnTheWire, Meant, Informed, outcomes, history
  <2>5. Telling!Make(token(o, client))
    BY <2>3, <2>4 DEF Telling!Make
  <2> QED
    BY <2>2, <2>5 DEF Telling!PromiseNext
<1>2. CASE \/ \E t \in Tokens : as_user(t)
           \/ \E h \in Handshakes : with_pep_handshake(h)
  <2>1. pc = "idle" /\ pc' = "idle" /\ UNCHANGED <<answer, result, performed, lost>>
    BY <1>2 DEF as_user, with_pep_handshake, outcomes, history
  <2>2. UNCHANGED <<NamedFor, SpeaksFor, performed, lost, Meant, Informed>>
    BY <2>1, NamedByToken DEF SpeaksFor, OnTheWire, Meant, Informed
  <2> QED
    BY <2>2 DEF Telling!promised
<1>3. CASE Call
  <2>1. /\ pc = "building" /\ pc' \in {"gate", "done"} /\ answer = NoAnswer
        /\ UNCHANGED <<client, op, answer, performed, lost>>
    BY <1>0, <1>3 DEF Call, call, history
  <2>2. UNCHANGED <<NamedFor, SpeaksFor, Meant>>
    BY <2>1, NamedKept, MeantKept DEF SpeaksFor, OnTheWire
  <2>3. CASE pc' = "gate"
    <3>1. UNCHANGED <<NamedFor, SpeaksFor, performed, lost, Meant, Informed>>
      BY <2>1, <2>2, <2>3 DEF Informed
    <3> QED
      BY <3>1 DEF Telling!promised
  <2>4. CASE pc' = "done"
    <3>1. Refusal(op) # <<>> /\ result' = Head(Refusal(op))
      BY <1>3, <2>4 DEF Call
    <3>2. Informed' = "failed"
      BY <1>0, <2>1, <2>4, <3>1, RefusedForGood DEF Informed
    <3>3. NamedFor # <<>> /\ SpeaksFor = <<>> /\ Informed = "none" /\ Meant' = "none"
      BY <1>0, <2>1, NamedByToken, NoAnswerMeansNone DEF SpeaksFor, OnTheWire
    <3>4. Telling!Refuse
      BY <2>1, <2>2, <3>2, <3>3 DEF Telling!Refuse
    <3> QED
      BY <3>4 DEF Telling!PromiseNext
  <2> QED
    BY <2>1, <2>3, <2>4
<1>4. CASE Send
  <2>1. /\ pc = "gate" /\ pc' \in {"sent", "done"} /\ answer' = NoAnswer
        /\ UNCHANGED <<client, op, performed, lost>>
    BY <1>4 DEF Send, call, history
  <2>2. /\ UNCHANGED NamedFor /\ Meant' = "none"
        /\ NamedFor = <<token(op, client)>> /\ SpeaksFor = <<>> /\ Informed = "none"
    BY <1>0, <2>1, NamedKept, NamedByToken, NoAnswerMeansNone DEF SpeaksFor, OnTheWire
  <2>3. CASE pc' = "sent"
    <3>1. wire'.identity = token(op, client)
      BY <1>4, <2>3, Stamped
    <3>2. SpeaksFor' = NamedFor /\ Informed' = "none"
      BY <2>2, <2>3, <3>1 DEF SpeaksFor, OnTheWire, Informed
    <3>3. Telling!Speak
      BY <1>0, <2>1, <2>2, <3>2 DEF Telling!Speak
    <3> QED
      BY <3>3 DEF Telling!PromiseNext
  <2>4. CASE pc' = "done"
    <3>1. result'.kind = "ConfigError"
      BY <1>4, <2>4, NoAnswerSaysNothing DEF Send
    <3>2. ~is_retryable(result')
      BY <3>1 DEF is_retryable
    <3>3. Informed' = "failed" /\ SpeaksFor' = <<>>
      BY <2>4, <3>1, <3>2 DEF Informed, SpeaksFor, OnTheWire
    <3>4. Telling!Refuse
      BY <2>1, <2>2, <3>3 DEF Telling!Refuse
    <3> QED
      BY <3>4 DEF Telling!PromiseNext
  <2> QED
    BY <2>1, <2>3, <2>4
<1>5. CASE TooManyRedirects \/ Unreachable
  <2>1. /\ pc = "sent" /\ pc' = "done" /\ answer = NoAnswer
        /\ UNCHANGED <<client, op, answer, performed, lost>>
    BY <1>0, <1>5 DEF TooManyRedirects, Unreachable, call, history
  <2>2. result'.kind = "HttpError"
    BY <1>5, NoAnswerSaysNothing DEF TooManyRedirects, Unreachable, HttpError
  <2>3. Informed' \in {"again", "failed"}
    BY <2>1, <2>2 DEF Informed
  <2>4. /\ UNCHANGED NamedFor /\ UNCHANGED Meant /\ Meant = "none"
        /\ SpeaksFor # <<>> /\ SpeaksFor' = <<>>
    BY <2>1, NamedKept, MeantKept, NoAnswerMeansNone DEF SpeaksFor, OnTheWire
  <2>5. Telling!Fail
    BY <1>0, <2>1, <2>3, <2>4 DEF Telling!Fail
  <2> QED
    BY <2>5 DEF Telling!PromiseNext
<1>6. CASE FollowRedirect
  <2>1. /\ pc = "sent" /\ pc' = "sent"
        /\ UNCHANGED <<client, op, answer, result, performed, lost>>
    BY <1>6 DEF FollowRedirect, call, outcomes, history
  <2>2. UNCHANGED <<NamedFor, Meant, Informed>>
    BY <2>1, NamedKept, MeantKept DEF Informed
  <2>3. wire'.identity = token(op', client') /\ wire.identity = token(op, client)
    BY <2>1 DEF WireIsCall, OnTheWire
  <2>4. UNCHANGED SpeaksFor
    BY <2>1, <2>3 DEF SpeaksFor, OnTheWire
  <2> QED
    BY <2>1, <2>2, <2>4 DEF Telling!promised
<1>7. CASE StopRedirect \/ Handle
  <2>1. /\ pc = "sent" /\ pc' = "answered" /\ answer = NoAnswer
        /\ UNCHANGED <<client, op, wire, lost>>
        /\ performed' = performed \/ performed' = performed + 1
    BY <1>0, <1>7 DEF StopRedirect, Handle, call, history
  <2>2. Meant' \in {"done", "final", "limited", "transient"}
    <3>1. IsOperation(op') /\ Possible(op', answer')
      BY <2>1, CalledIsOperation DEF OpTyped, AnswerIsRead
    <3>2. \/ answer'.meant \in {"done", "final", "transient"}
          \/ List(op') /\ Says(answer', 429, "envelope", "capped")
      BY <3>1, PossibleWords
    <3> QED
      BY <3>2 DEF Meant, Says
  <2>3. UNCHANGED <<NamedFor, SpeaksFor, Informed>>
    BY <2>1, NamedKept DEF SpeaksFor, OnTheWire, Informed
  <2>4. SpeaksFor # <<>> /\ Meant = "none"
    BY <2>1, NoAnswerMeansNone DEF SpeaksFor, OnTheWire
  <2>5. CASE performed' = performed
    <3>1. Telling!AnswerInItsPlace
      BY <2>1, <2>2, <2>3, <2>4, <2>5 DEF Telling!AnswerInItsPlace, Telling!Words
    <3> QED
      BY <3>1 DEF Telling!PromiseNext
  <2>6. CASE performed' = performed + 1
    <3>1. Telling!Act
      BY <2>1, <2>2, <2>3, <2>4, <2>6 DEF Telling!Act, Telling!Words
    <3> QED
      BY <3>1 DEF Telling!PromiseNext
  <2> QED
    BY <2>1, <2>5, <2>6
<1>8. CASE GatewayAnswers
  <2>1. /\ pc = "answered" /\ pc' = "answered" /\ lost' = TRUE /\ answer'.meant = "transient"
        /\ UNCHANGED <<client, op, wire, result, performed>>
    BY <1>8 DEF GatewayAnswers, call
  <2>2. Meant' \in {"limited", "transient"}
    BY <2>1 DEF Meant
  <2>3. SpeaksFor # <<>> /\ Meant # "none"
    BY <2>1, AnswerMeans DEF SpeaksFor, OnTheWire
  <2>4. UNCHANGED <<NamedFor, SpeaksFor, Informed>>
    BY <2>1, NamedKept DEF SpeaksFor, OnTheWire, Informed
  <2>5. Telling!Supplant
    BY <2>1, <2>2, <2>3, <2>4 DEF Telling!Supplant
  <2> QED
    BY <2>5 DEF Telling!PromiseNext
<1>9. CASE Arrive
  BY <1>9, ArriveTells DEF Telling!PromiseNext
<1>10. CASE Lose
  <2>1. /\ pc = "answered" /\ pc' = "done" /\ lost' = TRUE /\ answer' = NoAnswer
        /\ UNCHANGED <<client, op, performed>>
    BY <1>10 DEF Lose, call
  <2>2. result'.kind = "HttpError"
    BY <1>10, NoAnswerSaysNothing DEF Lose, HttpError
  <2>3. Informed' \in {"again", "failed"}
    BY <2>1, <2>2 DEF Informed
  <2>4. /\ UNCHANGED NamedFor /\ Meant' = "none" /\ Meant # "none"
        /\ SpeaksFor # <<>> /\ SpeaksFor' = <<>>
    BY <2>1, NamedKept, AnswerMeans, NoAnswerMeansNone DEF SpeaksFor, OnTheWire
  <2>5. Telling!Lose
    BY <2>1, <2>3, <2>4 DEF Telling!Lose
  <2> QED
    BY <2>5 DEF Telling!PromiseNext
<1>11. CASE Retry
  <2>1. /\ pc = "done" /\ pc' = "gate" /\ is_retryable(result)
        /\ UNCHANGED <<client, op, answer, performed, lost>>
    BY <1>11 DEF Retry, call, history
  <2>2. Informed = "again" /\ Informed' = "none"
    BY <2>1, OkIsNotRetried DEF Informed
  <2>3. UNCHANGED <<NamedFor, SpeaksFor, Meant>>
    BY <2>1, NamedKept, MeantKept DEF SpeaksFor, OnTheWire
  <2>4. Telling!Again
    BY <2>1, <2>2, <2>3 DEF Telling!Again
  <2> QED
    BY <2>4 DEF Telling!PromiseNext
<1>12. CASE Finish
  <2>1. Informed # "none"
    BY <1>12, InformedOf DEF Finish
  <2>2. /\ NamedFor' = <<>> /\ SpeaksFor' = <<>> /\ Informed' = "none" /\ Meant' = "none"
        /\ performed' = 0 /\ lost' = FALSE
    BY <1>12, NoAnswerMeansNone, NamedByToken DEF Finish, SpeaksFor, OnTheWire, Informed
  <2>3. Telling!Close
    BY <2>1, <2>2 DEF Telling!Close
  <2> QED
    BY <2>3 DEF Telling!PromiseNext
<1>13. CASE Revised
  <2>1. /\ pc = "building" /\ pc' = "building" /\ op'.override = op.override
        /\ UNCHANGED <<client, answer, result, performed, lost>>
    BY <1>13 DEF Revised, SameCall, outcomes, history
  <2>2. UNCHANGED <<NamedFor, SpeaksFor, Meant, Informed>>
    BY <2>1, NamedKept, MeantKept DEF SpeaksFor, OnTheWire, Informed
  <2> QED
    BY <2>1, <2>2 DEF Telling!promised
<1>14. CASE UNCHANGED vars
  <2>1. UNCHANGED <<NamedFor, SpeaksFor, performed, lost, Meant, Informed>>
    BY <1>14 DEF vars, NamedFor, SpeaksFor, OnTheWire, Meant, Informed
  <2> QED
    BY <2>1 DEF Telling!promised
<1> QED
  BY <1>1, <1>2, <1>3, <1>4, <1>5, <1>6, <1>7, <1>8, <1>9, <1>10, <1>11, <1>12, <1>13, <1>14
     DEF Step, Next

LEMMA PromiseStart == SessionInit => Telling!PromiseInit
<1> SUFFICES ASSUME SessionInit
             PROVE  Telling!PromiseInit
  OBVIOUS
<1>1. pc = "idle" /\ answer = NoAnswer /\ performed = 0 /\ lost = FALSE
  BY DEF SessionInit, Init
<1>2. NamedFor = <<>> /\ SpeaksFor = <<>> /\ Informed = "none" /\ Meant = "none"
  BY <1>1, NoAnswerMeansNone, NamedByToken DEF SpeaksFor, OnTheWire, Informed
<1> QED
  BY <1>1, <1>2 DEF Telling!PromiseInit

(* A call of any surface, with its redirects, losses and repetitions, is   *)
(* one of CallPromise: whatever the tokens, the redirect targets, what     *)
(* else answers, and the bounds on redirects and attempts.                 *)
THEOREM SessionKeepsCallPromise ==
    ASSUME Surfaces
    PROVE  SessionSpec => CallKeepsPromise
<1>1. EvaluationsAreWhole /\ [SessionNext]_sessionVars => [Step]_vars
  BY SessionSteps
<1>2. CallsAreRead => EvaluationsAreWhole
  BY DEF CallsAreRead
<1>3. SessionSpec => []Promising
  BY Results, Funnel, SessionAdvises, SessionSuccessIsPerformed, SessionLossExplains, PTL
     DEF Promising
<1>4. Promising /\ Promising' /\ [SessionNext]_sessionVars =>
         Telling!PromiseNext \/ UNCHANGED Telling!promised
  BY <1>1, <1>2, PromiseStep DEF Promising
<1>5. SessionInit => Telling!PromiseInit
  BY PromiseStart
<1> QED
  BY <1>3, <1>4, <1>5, PTL DEF SessionSpec, CallKeepsPromise, Telling!PromiseSpec

-----------------------------------------------------------------------------
(* Scopes *)

(* The scope that rides on an answer to a read: "none" never on one that   *)
(* has something to show.                                                  *)
ReadsScoped(a) ==
    a.scope # <<>> /\ Head(a.scope).word = "none" =>
        a.status \in {404, 500} \/ (a.status = 200 /\ a.body = "page" /\ a.doc = <<0>>)

LEMMA ReadsAreScoped ==
    ASSUME NEW o, NEW a \in ReadsAnswers(o)
    PROVE  ReadsScoped(a)
<1> DEFINE unscoped == {Plain(404, "miss", "final"), Plain(500, "fault", "transient")}
                          \cup (IF List(o) THEN {Rows(0)} ELSE {})
           full == IF List(o) THEN Rows(2) ELSE Plain(200, "explanation", "done")
           empty == UNION {Scoped(b, word) : b \in unscoped, word \in Narrowings}
           told == UNION {Scoped(full, word) : word \in Narrowings \ {"none"}}
           capped == IF List(o) THEN {Plain(429, "envelope", "capped")} ELSE {}
           denied == {Plain(401, "unauthenticated", "final")}
<1>1. ASSUME NEW b \in unscoped
      PROVE  /\ "scope" \in DOMAIN b
             /\ b.status \in {404, 500} \/ (b.status = 200 /\ b.body = "page" /\ b.doc = <<0>>)
  <2>1. CASE b = Rows(0)
    BY <2>1, RowsSay DEF Says
  <2>2. CASE b = Plain(404, "miss", "final") \/ b = Plain(500, "fault", "transient")
    BY <2>2 DEF Plain
  <2> QED
    BY <2>1, <2>2
<1>2. "scope" \in DOMAIN full
  BY DEF Rows, Plain
<1>3. a \in capped \cup denied => a.scope = <<>>
  BY PlainSays
<1>4. ReadsAnswers(o) = ((empty \cup told) \cup capped) \cup denied
  BY DEF ReadsAnswers
<1> HIDE DEF unscoped, full, capped, denied
<1>5. a \in empty => \E b \in unscoped, word \in Narrowings : a \in Scoped(b, word)
  OBVIOUS
<1>6. a \in told => \E word \in Narrowings \ {"none"} : a \in Scoped(full, word)
  OBVIOUS
<1> HIDE DEF empty, told
<1>7. CASE a \in empty
  <2>1. PICK b \in unscoped, word \in Narrowings : a \in Scoped(b, word)
    BY <1>5, <1>7
  <2>2. a.status = b.status /\ a.body = b.body /\ a.doc = b.doc
    BY <1>1, <2>1, ScopedSays
  <2> QED
    BY <1>1, <2>2 DEF ReadsScoped
<1>8. CASE a \in told
  <2>1. PICK word \in Narrowings \ {"none"} : a \in Scoped(full, word)
    BY <1>6, <1>8
  <2>2. Head(a.scope).word # "none"
    BY <1>2, <2>1, ScopedSays
  <2> QED
    BY <2>2 DEF ReadsScoped
<1> QED
  BY <1>3, <1>4, <1>7, <1>8 DEF ReadsScoped

LEMMA PossibleIsScoped ==
    ASSUME Surfaces, NEW o, IsOperation(o), o.surface = "reads", NEW a, Possible(o, a)
    PROVE  ReadsScoped(a)
<1>1. CASE a \in Strays \cup {Redirected}
  BY <1>1, OthersAreForeign DEF Foreign, ReadsScoped
<1>2. ASSUME NEW done, a \in Answers(o, done)
      PROVE  ReadsScoped(a)
  <2>1. a \in ReadsAnswers(o)
    BY <1>2 DEF Surfaces, SessionAnswers
  <2> QED
    BY <2>1, ReadsAreScoped
<1> QED
  BY <1>1, <1>2 DEF Possible

(* The header is read for what it says, however it is spelled.             *)
LEMMA ParseTells ==
    ASSUME NEW header
    PROVE  /\ parse(header) = "None" =>
                 header # <<>> /\ Head(header).word = "none" /\ Head(header).spelled # "opaque"
           /\ parse(header) = "OwnRows" => header # <<>> /\ Head(header).word = "own-rows"
           /\ header # <<>> /\ Head(header).word = "none" /\ Head(header).spelled # "opaque" =>
                 parse(header) = "None"
<1> DEFINE blank == \/ header = <<>> \/ Head(header).word = "" \/ Head(header).spelled = "opaque"
<1>1. /\ blank => parse(header) = "Absent"
      /\ ~blank => parse(header) = ScopeOf(Head(header).word)
  BY DEF parse
<1>2. ASSUME NEW word
      PROVE  /\ ScopeOf(word) = "None" <=> word = "none"
             /\ ScopeOf(word) = "OwnRows" <=> word = "own-rows"
  BY DEF ScopeOf
<1> QED
  BY <1>1, <1>2

(* A read is refused for its scope exactly where the scope stands between  *)
(* the application and what it asked for.                                  *)
LEMMA ExplainTells ==
    ASSUME NEW a
    PROVE  /\ explain_decision_as(a).kind = "ReadScope" =>
                 /\ a.status = 404
                 /\ Head(a.scope).word =
                       (IF explain_decision_as(a).reason = "None" THEN "none" ELSE "own-rows")
           /\ a.status = 404 /\ ForNobody(a) => explain_decision_as(a).kind = "ReadScope"
<1> DEFINE scope == parse(a.scope)
           refusing == read_scope_refusal(scope, a.status)
           r == explain_decision_as(a)
<1>1. CASE a.status = 404 /\ refusing # <<>>
  <2>1. scope \in {"None", "OwnRows"} /\ r = Result("ReadScope", a.status, scope)
    BY <1>1, ScopeRefuses DEF explain_decision_as
  <2>2. r.kind = "ReadScope" /\ r.reason = scope
    BY <2>1 DEF Result
  <2> HIDE DEF r
  <2>3. Head(a.scope).word = (IF r.reason = "None" THEN "none" ELSE "own-rows")
    BY <2>1, <2>2, ParseTells
  <2> QED
    BY <1>1, <2>2, <2>3 DEF r
<1>2. CASE ~(a.status = 404 /\ refusing # <<>>)
  <2>1. r = check_status(a, decode_explanation(a))
    BY <1>2 DEF explain_decision_as
  <2>2. \/ \E value : r = Ok(value)
        \/ \E kind \in {"ApiError", "SerdeError"} : \E status, reason : r = Result(kind, status, reason)
    BY <2>1 DEF check_status, decode_explanation
  <2>3. r.kind \in {"ok", "ApiError", "SerdeError"}
    BY <2>2, OkIs, ResultIs
  <2>4. ~(a.status = 404 /\ ForNobody(a))
    <3>1. ASSUME ForNobody(a)
          PROVE  refusing # <<>>
      BY <3>1, ParseTells DEF ForNobody, read_scope_refusal
    <3> QED
      BY <1>2, <3>1
  <2> QED
    BY <2>3, <2>4
<1> QED
  BY <1>1, <1>2

LEMMA ListTells ==
    ASSUME NEW a, ReadsScoped(a), Foreign(a) \/ \E o : List(o) /\ ReadsSaid(o, a)
    PROVE  /\ list_decisions_as(a).kind = "ReadScope" =>
                 ForNobody(a) /\ a.doc = <<0>> /\ list_decisions_as(a).reason = "None"
           /\ a.status = 200 /\ ForNobody(a) => list_decisions_as(a).kind = "ReadScope"
<1> DEFINE rows == ListResponse(a)
           scope == parse(a.scope)
           refusing == refuse_vacuous_scoped_page(scope, a.status, Head(rows))
           r == list_decisions_as(a)
           scoped == /\ is_success(a.status) /\ rows # <<>> /\ refusing # <<>>
                     /\ ~(a.status = 429 /\ Decodes("envelope", RateLimitEnvelope, a.body))
<1>1. ForNobody(a) => ~Foreign(a)
  BY DEF ForNobody, Foreign
<1>2. CASE scoped
  <2>1. r = Head(refusing)
    BY <1>2 DEF list_decisions_as, check_status
  <2>2. scope = "None" /\ ~(Head(rows) > 0) /\ r = Result("ReadScope", a.status, scope)
    BY <1>2, <2>1, VacuousRefuses
  <2>3. r.kind = "ReadScope" /\ r.reason = "None"
    BY <2>2 DEF Result
  <2> HIDE DEF r
  <2>4. ForNobody(a)
    BY <2>2, ParseTells DEF ForNobody
  <2>5. a.doc = <<0>>
    <3>1. a.status \notin {404, 500}
      <4>1. is_success(a.status)
        BY <1>2
      <4> HIDE DEF scoped, rows, refusing, scope
      <4> QED
        BY <4>1 DEF is_success
    <3> QED
      BY <2>4, <3>1 DEF ReadsScoped, ForNobody
  <2> QED
    BY <2>3, <2>4, <2>5 DEF r
<1>3. CASE ~scoped
  <2>1. \/ \E value : r = Ok(value)
        \/ \E kind \in {"ApiError", "SerdeError", "RateLimited"} : \E status, reason :
              r = Result(kind, status, reason)
    BY <1>3 DEF list_decisions_as, check_status
  <2>2. r.kind \in {"ok", "ApiError", "SerdeError", "RateLimited"}
    BY <2>1, OkIs, ResultIs
  <2>3. ~(a.status = 200 /\ ForNobody(a))
    <3>1. ASSUME a.status = 200, ForNobody(a)
          PROVE  scoped
      <4>1. a.body = "page" /\ a.doc = <<0>>
        BY <3>1 DEF ReadsScoped, ForNobody
      <4>2. rows = <<0>>
        BY <4>1 DEF ListResponse
      <4>3. refusing # <<>>
        <5>1. scope = "None" /\ Head(rows) = 0
          BY <3>1, <4>2, ParseTells DEF ForNobody
        <5> HIDE DEF scope, rows
        <5> QED
          BY <5>1 DEF refuse_vacuous_scoped_page
      <4> QED
        BY <3>1, <4>2, <4>3 DEF is_success
    <3> QED
      BY <1>3, <3>1
  <2> QED
    BY <2>2, <2>3
<1> QED
  BY <1>2, <1>3

(* No other surface refuses for a scope.                                   *)
LEMMA OnlyReadsRefuse ==
    ASSUME Surfaces, NEW o, IsOperation(o), NEW a, Answering(o, a), Read(o, a).kind = "ReadScope"
    PROVE  o.surface = "reads"
<1>1. Read(o, a) = SessionRead(o, a)
  BY DEF Surfaces
<1>2. ASSUME o.surface = "typed"
      PROVE  TypedRead(o, a).kind # "ReadScope"
  <2>1. a.status \in Nat
    BY <1>2 DEF Answering, Foreign, ByStatus, TypedSaid, Says
  <2>2. TypedRead(o, a) = refusal(a) => TypedRead(o, a).kind # "ReadScope"
    <3>1. refusal(a).kind \in {"ApiError", "TypedPolicyRefusal"}
      BY DEF refusal, Result
    <3> QED
      BY <3>1
  <2>3. is_success(a.status) => TypedRead(o, a).kind \in {"ok", "SerdeError", "ApiError"}
    <3>1. ASSUME is_success(a.status)
          PROVE  \/ \E value : TypedRead(o, a) = Ok(value)
                 \/ \E kind \in {"ApiError", "SerdeError"} : \E status, reason :
                       TypedRead(o, a) = Result(kind, status, reason)
      BY ZenonT(30), <3>1 DEF TypedRead, active, object, decode, not_an_object,
                              is_success
    <3> QED
      BY <3>1, OkIs, ResultIs
  <2> QED
    BY <2>2, <2>3, TypedFailure, OkIs
<1>3. CheckedRead(o, a).kind # "ReadScope"
  <2>1. \/ \E value : CheckedRead(o, a) = Ok(value)
        \/ \E kind \in {"ApiError", "SerdeError"} : \E status, reason :
              CheckedRead(o, a) = Result(kind, status, reason)
    BY DEF CheckedRead, check_status, decoded, Undecodable
  <2> QED
    BY <2>1, OkIs, ResultIs
<1>4. AuthzenRead(o, a).kind # "ReadScope"
  <2>1. \/ \E value : AuthzenRead(o, a) = Ok(value)
        \/ \E kind \in {"ApiError", "Refused", "UnusableResponse", "UnreadableProfile"} :
              \E status, reason : AuthzenRead(o, a) = Result(kind, status, reason)
    BY DEF AuthzenRead, from_response, Unusable
  <2> QED
    BY <2>1, OkIs, ResultIs
<1> QED
  BY <1>1, <1>2, <1>3, <1>4 DEF IsOperation, SessionRead

(* An application learns of a read scope exactly when one stands between   *)
(* it and the decisions it asked for, however the header was respelled.    *)
THEOREM SessionTellsScope ==
    ASSUME Surfaces
    PROVE  SessionSpec => []ScopeIsTold
<1>1. ASSUME CallsAreRead, pc = "done", ~Unanswered, op.surface = "reads"
      PROVE  /\ IsOperation(op) /\ ReadsScoped(answer)
             /\ Explain(op) => result = explain_decision_as(answer)
             /\ ~Explain(op) => List(op) /\ result = list_decisions_as(answer)
             /\ Foreign(answer) \/ ReadsSaid(op, answer)
  <2>1. IsOperation(op)
    BY <1>1, CalledIsOperation DEF CallsAreRead, OpTyped
  <2>2. Possible(op, answer) /\ result = Read(op, answer)
    BY <1>1 DEF CallsAreRead, AnswerIsRead
  <2>3. result = ReadsRead(op, answer)
    BY <1>1, <2>2 DEF Surfaces, SessionRead
  <2>4. Answering(op, answer) /\ ReadsScoped(answer)
    BY <1>1, <2>1, <2>2, PossibleAnswers, PossibleIsScoped
  <2>5. Explain(op) \/ List(op)
    BY <1>1, <2>1 DEF IsOperation, Explain, List
  <2> QED
    BY <1>1, <2>1, <2>3, <2>4, <2>5 DEF ReadsRead, Answering
<1>2. CallsAreRead => EmptyPageIsTrue
  <2> SUFFICES ASSUME CallsAreRead, Answered, op.surface = "reads", ForNobody(answer),
                      answer.status \in {200, 404}
               PROVE  result.kind = "ReadScope" \/ (List(op) /\ answer.status = 404)
    BY DEF EmptyPageIsTrue
  <2>1. pc = "done" /\ ~Unanswered
    BY DEF Answered, Unanswered
  <2>2. CASE Explain(op)
    <3>1. answer.status = 404
      <4>1. ~Foreign(answer) /\ ~List(op)
        BY <2>2 DEF ForNobody, Foreign, Explain, List
      <4>2. answer.status = 200 => answer.body = "explanation"
        BY <1>1, <2>1, <4>1 DEF ReadsSaid, Says
      <4>3. answer.status = 200 => answer.body = "page"
        BY <1>1, <2>1 DEF ReadsScoped, ForNobody
      <4> QED
        BY <4>2, <4>3
    <3> QED
      BY <1>1, <2>1, <2>2, <3>1, ExplainTells
  <2>3. CASE ~Explain(op)
    BY <1>1, <2>1, <2>3, ListTells
  <2> QED
    BY <2>2, <2>3
<1>3. CallsAreRead => ScopeRefusalIsTrue
  <2> SUFFICES ASSUME CallsAreRead, pc = "done", result.kind = "ReadScope"
               PROVE  /\ Head(answer.scope).word =
                            (IF result.reason = "None" THEN "none" ELSE "own-rows")
                      /\ \/ Explain(op) /\ answer.status = 404
                         \/ List(op) /\ ForNobody(answer) /\ answer.doc = <<0>>
    BY DEF ScopeRefusalIsTrue
  <2>1. ~Unanswered
    BY DEF Unanswered
  <2>2. op.surface = "reads"
    <3>1. IsOperation(op)
      BY CalledIsOperation DEF CallsAreRead, OpTyped
    <3>2. Possible(op, answer) /\ result = Read(op, answer)
      BY <2>1 DEF CallsAreRead, AnswerIsRead
    <3> QED
      BY <3>1, <3>2, PossibleAnswers, OnlyReadsRefuse
  <2>3. CASE Explain(op)
    BY <1>1, <2>1, <2>2, <2>3, ExplainTells
  <2>4. CASE ~Explain(op)
    BY <1>1, <2>1, <2>2, <2>4, ListTells DEF ForNobody
  <2> QED
    BY <2>3, <2>4
<1> QED
  BY <1>2, <1>3, Results, PTL DEF ScopeIsTold

-----------------------------------------------------------------------------
(* What the platform says of an active policy                              *)

(* An answer in the platform's place never reads as "nothing is active":   *)
(* that is the word of the route itself, and only of that one.             *)
THEOREM SessionNothingIsItsWord ==
    ASSUME Surfaces
    PROVE  SessionSpec => []NothingActiveIsItsWord
<1>1. ASSUME NEW o, IsOperation(o), o.surface = "typed",
             NEW a, TypedRead(o, a).value = <<"nothing">>
      PROVE  o.call = "active" /\ a.status = 404 /\ a.body = "nothing_active"
  <2>2. CASE is_success(a.status)
    <3>1. TypedRead(o, a).kind = "ok"
      <4>1. \/ \E value : TypedRead(o, a) = Ok(value)
            \/ \E kind \in {"ApiError", "SerdeError"} : \E status, reason :
                  TypedRead(o, a) = Result(kind, status, reason)
        BY ZenonT(30), <2>2 DEF TypedRead, active, object, decode, not_an_object,
                              is_success
      <4> QED
        BY <1>1, <4>1, OkIs, ResultIs
    <3>2. TypedRead(o, a).value \in
             {<<"claimed">>, <<"unsuccessful">>, <<"document">>, <<"done">>}
      BY <2>2, <3>1, TypedSuccess
    <3> QED
      BY <1>1, <3>2
  <2>3. CASE ~is_success(a.status)
    <3>1. refusal(a).value = <<>>
      BY DEF refusal, Result
    <3> QED
      BY <1>1, <2>3, <3>1, TypedFailure
  <2> QED
    BY <2>2, <2>3
<1>2. ASSUME NEW o, o.call = "active", NEW done, NEW a \in TypedAnswers(o, done)
      PROVE  a \in TypedAnswers(o, 0)
  BY <1>2 DEF TypedAnswers
<1>3. CallsAreRead => NothingActiveIsItsWord
  <2> SUFFICES ASSUME CallsAreRead, Answered, op.surface = "typed", result.value = <<"nothing">>
               PROVE  answer \in TypedAnswers(op, 0) /\ answer.status = 404
    BY DEF NothingActiveIsItsWord
  <2>1. Possible(op, answer) /\ result = Read(op, answer)
    BY DEF CallsAreRead, AnswerIsRead, Answered, Unanswered
  <2>2. IsOperation(op)
    BY CalledIsOperation DEF CallsAreRead, OpTyped, Answered
  <2>3. op.call = "active" /\ answer.status = 404 /\ answer.body = "nothing_active"
    BY <1>1, <2>1, <2>2 DEF Surfaces, SessionRead
  <2>4. ~Foreign(answer)
    BY <2>3 DEF Foreign
  <2>5. PICK done : answer \in Answers(op, done)
    BY <2>1, <2>4, OthersAreForeign DEF Possible
  <2>6. answer \in TypedAnswers(op, done)
    BY <2>5 DEF Surfaces, SessionAnswers
  <2> QED
    BY <1>2, <2>3, <2>6
<1> QED
  BY <1>3, Results, PTL

-----------------------------------------------------------------------------
(* The declaration a request carries                                       *)

(* What a client declares, the platform's decoder takes: it was refused    *)
(* where it was constructed or it is canonical, and no derived client      *)
(* makes another of it.                                                    *)
DeclaresReadable == client.declares # <<>> => Readable(Head(client.declares))

LEMMA DeclaresReadableNext ==
    ASSUME DeclaresReadable, TypeOK, [SessionNext]_sessionVars
    PROVE  DeclaresReadable'
<1>1. client \in [user_token : Tokens \cup Identities, declares : Declarations]
  BY DEF TypeOK
<1>2. ASSUME NEW draft \in Drafts, Declare(draft)
      PROVE  DeclaresReadable'
  <2>1. client'.declares = <<Head(new(draft).declares)>>
    BY <1>1, <1>2 DEF Declare, with_pep_handshake
  <2>2. Readable(Head(new(draft).declares))
    BY <1>2, ConstructedIsReadable DEF Declare
  <2> QED
    BY <2>1, <2>2 DEF DeclaresReadable
<1>3. ASSUME NEW t \in Tokens, as_user(t)
      PROVE  DeclaresReadable'
  <2>1. client'.declares = client.declares
    BY <1>1, <1>3 DEF as_user
  <2> QED
    BY <2>1 DEF DeclaresReadable
<1>4. client' = client => DeclaresReadable'
  BY DEF DeclaresReadable
<1>5. CASE Exchanging
  BY <1>2, <1>3, <1>4, <1>5
     DEF Exchanging, Begin, Call, TooManyRedirects, FollowRedirect, StopRedirect, Handle,
         GatewayAnswers, Unreachable, Arrive, Lose, Retry, Finish, call
<1>6. CASE Building
  BY <1>4, <1>6 DEF Building, with_query, with_correlation, Insert, InsertProperty, Build
<1>7. CASE Sending
  BY <1>4, <1>7 DEF Sending, Send, call
<1> QED
  BY <1>4, <1>5, <1>6, <1>7 DEF SessionNext, sessionVars, vars

(* A declaration that goes out is canonical, for every set of drafts, of   *)
(* names and of limits.                                                    *)
THEOREM SessionDeclaresCanonically ==
    ASSUME Surfaces
    PROVE  SessionSpec => []DeclarationIsCanonical
<1>1. SessionInit => DeclaresReadable
  BY DEF SessionInit, Init, DeclaresReadable
<1>2. DeclaresReadable /\ TypeOK /\ [SessionNext]_sessionVars => DeclaresReadable'
  BY DeclaresReadableNext
<1>3. DeclaresReadable /\ WireIsCall => DeclarationIsCanonical
  BY DEF DeclaresReadable, WireIsCall, DeclarationIsCanonical, OnTheWire, pep_handshake_header
<1> QED
  BY <1>1, <1>2, <1>3, Funnel, PTL DEF SessionSpec

-----------------------------------------------------------------------------
(* validate                                                                *)

(* A list of checks is passed when every one of them is.                   *)
LEMMA EveryCheckPasses ==
    ASSUME NEW findings, DOMAIN findings \subseteq Nat
    PROVE  FirstFound(findings) = "valid" <=> \A i \in DOMAIN findings : findings[i] = "valid"
<1> DEFINE refusing == {i \in DOMAIN findings : findings[i] # "valid"}
           first == CHOOSE i \in refusing : \A j \in refusing : i <= j
<1>1. CASE refusing = {}
  BY <1>1 DEF FirstFound
<1>2. CASE refusing # {}
  <2>1. PICK i \in refusing : \A j \in refusing : ~(<<j, i>> \in OpToRel(<, Nat))
    BY <1>2, NatLessThanWellFounded, WFMin, Zenon
  <2>2. \A j \in refusing : i <= j
    <3>1. ASSUME NEW j \in refusing, j < i
          PROVE  <<j, i>> \in OpToRel(<, Nat)
      BY <3>1 DEF OpToRel
    <3>2. i \in Nat /\ \A j \in refusing : j \in Nat
      OBVIOUS
    <3> HIDE DEF refusing
    <3>3. \A j \in refusing : ~(j < i)
      BY <2>1, <3>1
    <3> QED
      BY <3>2, <3>3
  <2>3. first \in refusing
    BY <2>2
  <2>4. FirstFound(findings) = findings[first]
    BY <1>2 DEF FirstFound
  <2> QED
    BY <2>3, <2>4
<1> QED
  BY <1>1, <1>2

(* The values in a value that are validated with it are listed.            *)
Lists(type, v) ==
    /\ DOMAIN Types[type].checks \subseteq Nat
    /\ \A i \in DOMAIN Types[type].checks :
          Types[type].checks[i].kind = "nested" =>
             DOMAIN Member(v, Types[type].checks[i].member) \subseteq Nat

OwnPass(type, v) ==
    \A i \in DOMAIN Types[type].checks :
       Types[type].checks[i].kind # "nested" => own_finding(Types[type].checks[i], v) = "valid"

(* The j-th value in the member that the i-th check of the type nests.     *)
Nests(type, v, i, j) ==
    /\ i \in DOMAIN Types[type].checks /\ Types[type].checks[i].kind = "nested"
    /\ j \in DOMAIN Member(v, Types[type].checks[i].member)

Inner(type, v, i, j) == v[Types[type].checks[i].member][j]

(* checked, of what the nested values are found to be.                     *)
Verdict(type, v, inner) ==
    FirstFound([i \in DOMAIN Types[type].checks |->
                  IF Types[type].checks[i].kind = "nested" THEN FirstFound(inner[i])
                  ELSE own_finding(Types[type].checks[i], v)])

LEMMA VerdictPasses ==
    ASSUME NEW type, NEW v, Lists(type, v), NEW inner,
           \A i \in DOMAIN Types[type].checks : Types[type].checks[i].kind = "nested" =>
              DOMAIN inner[i] = DOMAIN Member(v, Types[type].checks[i].member),
           Verdict(type, v, inner) = "valid"
    PROVE  /\ OwnPass(type, v)
           /\ \A i, j : Nests(type, v, i, j) => inner[i][j] = "valid"
<1> DEFINE checks == Types[type].checks
           finding(i) == IF checks[i].kind = "nested" THEN FirstFound(inner[i])
                         ELSE own_finding(checks[i], v)
<1>1. \A i \in DOMAIN checks : finding(i) = "valid"
  <2> DEFINE findings == [i \in DOMAIN checks |-> finding(i)]
  <2>1. FirstFound(findings) = "valid"
    BY DEF Verdict
  <2>2. DOMAIN findings = DOMAIN checks /\ \A i \in DOMAIN checks : findings[i] = finding(i)
    OBVIOUS
  <2>3. DOMAIN checks \subseteq Nat
    BY DEF Lists
  <2> HIDE DEF findings, finding, checks
  <2> QED
    BY <2>1, <2>2, <2>3, EveryCheckPasses
<1>2. ASSUME NEW i, NEW j, Nests(type, v, i, j)
      PROVE  inner[i][j] = "valid"
  <2>1. FirstFound(inner[i]) = "valid"
    BY <1>1, <1>2 DEF Nests
  <2>2. DOMAIN inner[i] \subseteq Nat /\ j \in DOMAIN inner[i]
    BY <1>2 DEF Nests, Lists
  <2> QED
    BY <2>1, <2>2, EveryCheckPasses
<1> QED
  BY <1>1, <1>2 DEF OwnPass

(* One lemma for each depth: a valid value passes its own checks, and the  *)
(* values it nests are valid.                                              *)
LEMMA Validated ==
    ASSUME NEW type, NEW v, Lists(type, v), validate(type, v) = "valid"
    PROVE  /\ OwnPass(type, v)
           /\ \A i, j : Nests(type, v, i, j) =>
                 validate_4(Types[type].checks[i].arg, Inner(type, v, i, j)) = "valid"
<1> DEFINE said(i, j) == validate_4(Types[type].checks[i].arg, Inner(type, v, i, j))
           inner == [i \in DOMAIN Types[type].checks |->
                       [j \in DOMAIN Member(v, Types[type].checks[i].member) |-> said(i, j)]]
<1>1. Verdict(type, v, inner) = "valid"
  BY DEF validate, checked, found, Verdict, Inner
<1>2. \A i, j : Nests(type, v, i, j) => inner[i][j] = said(i, j)
  BY DEF Nests
<1>3. \A i \in DOMAIN Types[type].checks :
         DOMAIN inner[i] = DOMAIN Member(v, Types[type].checks[i].member)
  OBVIOUS
<1> HIDE DEF inner
<1> QED
  BY <1>1, <1>2, <1>3, VerdictPasses

LEMMA Validated_4 ==
    ASSUME NEW type, NEW v, Lists(type, v), validate_4(type, v) = "valid"
    PROVE  /\ OwnPass(type, v)
           /\ \A i, j : Nests(type, v, i, j) =>
                 validate_3(Types[type].checks[i].arg, Inner(type, v, i, j)) = "valid"
<1> DEFINE said(i, j) == validate_3(Types[type].checks[i].arg, Inner(type, v, i, j))
           inner == [i \in DOMAIN Types[type].checks |->
                       [j \in DOMAIN Member(v, Types[type].checks[i].member) |-> said(i, j)]]
<1>1. Verdict(type, v, inner) = "valid"
  BY DEF validate_4, checked, found, Verdict, Inner
<1>2. \A i, j : Nests(type, v, i, j) => inner[i][j] = said(i, j)
  BY DEF Nests
<1>3. \A i \in DOMAIN Types[type].checks :
         DOMAIN inner[i] = DOMAIN Member(v, Types[type].checks[i].member)
  OBVIOUS
<1> HIDE DEF inner
<1> QED
  BY <1>1, <1>2, <1>3, VerdictPasses

LEMMA Validated_3 ==
    ASSUME NEW type, NEW v, Lists(type, v), validate_3(type, v) = "valid"
    PROVE  /\ OwnPass(type, v)
           /\ \A i, j : Nests(type, v, i, j) =>
                 validate_2(Types[type].checks[i].arg, Inner(type, v, i, j)) = "valid"
<1> DEFINE said(i, j) == validate_2(Types[type].checks[i].arg, Inner(type, v, i, j))
           inner == [i \in DOMAIN Types[type].checks |->
                       [j \in DOMAIN Member(v, Types[type].checks[i].member) |-> said(i, j)]]
<1>1. Verdict(type, v, inner) = "valid"
  BY DEF validate_3, checked, found, Verdict, Inner
<1>2. \A i, j : Nests(type, v, i, j) => inner[i][j] = said(i, j)
  BY DEF Nests
<1>3. \A i \in DOMAIN Types[type].checks :
         DOMAIN inner[i] = DOMAIN Member(v, Types[type].checks[i].member)
  OBVIOUS
<1> HIDE DEF inner
<1> QED
  BY <1>1, <1>2, <1>3, VerdictPasses

LEMMA Validated_2 ==
    ASSUME NEW type, NEW v, Lists(type, v), validate_2(type, v) = "valid"
    PROVE  /\ OwnPass(type, v)
           /\ \A i, j : Nests(type, v, i, j) =>
                 validate_1(Types[type].checks[i].arg, Inner(type, v, i, j)) = "valid"
<1> DEFINE said(i, j) == validate_1(Types[type].checks[i].arg, Inner(type, v, i, j))
           inner == [i \in DOMAIN Types[type].checks |->
                       [j \in DOMAIN Member(v, Types[type].checks[i].member) |-> said(i, j)]]
<1>1. Verdict(type, v, inner) = "valid"
  BY DEF validate_2, checked, found, Verdict, Inner
<1>2. \A i, j : Nests(type, v, i, j) => inner[i][j] = said(i, j)
  BY DEF Nests
<1>3. \A i \in DOMAIN Types[type].checks :
         DOMAIN inner[i] = DOMAIN Member(v, Types[type].checks[i].member)
  OBVIOUS
<1> HIDE DEF inner
<1> QED
  BY <1>1, <1>2, <1>3, VerdictPasses

LEMMA Validated_1 ==
    ASSUME NEW type, NEW v, Lists(type, v), validate_1(type, v) = "valid"
    PROVE  OwnPass(type, v)
<1> DEFINE inner == [i \in DOMAIN Types[type].checks |->
                       [j \in DOMAIN Member(v, Types[type].checks[i].member) |->
                          "nests too deep"]]
<1>1. Verdict(type, v, inner) = "valid"
  BY DEF validate_1, checked, found, Verdict
<1>2. \A i \in DOMAIN Types[type].checks :
         DOMAIN inner[i] = DOMAIN Member(v, Types[type].checks[i].member)
  OBVIOUS
<1> HIDE DEF inner
<1> QED
  BY <1>1, <1>2, VerdictPasses

-----------------------------------------------------------------------------
(* An attribute nobody could read                                          *)

LEMMA CheckIs ==
    ASSUME NEW m, NEW t
    PROVE  /\ Nested(m, t).kind = "nested" /\ Nested(m, t).member = m /\ Nested(m, t).arg = t
           /\ Bag(m).kind = "bag" /\ Required(m).kind = "required" /\ MinItems(m).kind = "min_items"
           /\ MinLength(m).kind = "min_length"
           /\ \A c \in {Bag(m), Required(m), MinItems(m), MinLength(m)} : c.member = m
BY DEF Nested, Bag, Required, MinItems, MinLength, Check

LEMMA BagPasses ==
    ASSUME NEW v, NEW m, NEW bag, Member(v, m) = <<bag>>, own_finding(Bag(m), v) = "valid"
    PROVE  ~unreadable(bag)
<1>1. v[m] = <<bag>>
  BY DEF Member
<1>2. Bag(m).kind = "bag" /\ Bag(m).member = m
  BY CheckIs
<1>3. own_finding(Bag(m), v) = bag_refusal(Head(v[m]))
  BY <1>2 DEF own_finding
<1> QED
  BY <1>1, <1>3 DEF bag_refusal

LEMMA SubjectChecks ==
    LET checks == Types["authzen_subject"].checks
    IN DOMAIN checks = 1 .. 3 /\ (\A i \in 1 .. 3 : checks[i].kind # "nested")
       /\ checks[3] = Bag("properties")
<1> DEFINE checks == Types["authzen_subject"].checks
<1>1. checks = <<Required("type"), Required("id"), Bag("properties")>>
  BY DEF Types, authzen_subject, Type
<1> HIDE DEF checks
<1>2. checks[1] = Required("type") /\ checks[2] = Required("id") /\ checks[3] = Bag("properties")
  BY <1>1
<1>3. \A i \in 1 .. 3 : checks[i].kind # "nested"
  BY <1>2, CheckIs
<1> QED
  BY <1>1, <1>2, <1>3 DEF checks

LEMMA SubjectPasses ==
    ASSUME NEW s, NEW bag, Member(s, "properties") = <<bag>>,
           validate_3("authzen_subject", s) = "valid" \/ validate_2("authzen_subject", s) = "valid"
    PROVE  ~unreadable(bag)
<1>1. Lists("authzen_subject", s)
  BY SubjectChecks DEF Lists
<1>2. OwnPass("authzen_subject", s)
  BY <1>1, Validated_3, Validated_2
<1>3. own_finding(Bag("properties"), s) = "valid"
  BY <1>2, SubjectChecks DEF OwnPass
<1> QED
  BY <1>3, BagPasses

(* What an evaluation is made of, wherever in the envelope it stands.      *)
Evaluates(v, o) ==
    /\ Member(v, "context") = <<o.context>>
    /\ \E subject : Member(v, "subject") = <<subject>> /\ Member(subject, "properties") = <<o.properties>>
    /\ \A m \in {"action", "resource", "evaluations"} : DOMAIN Member(v, m) \subseteq Nat

LEMMA RequestChecks ==
    LET checks == Types["authzen_request"].checks
    IN /\ DOMAIN checks = 1 .. 4
       /\ checks[1] = Nested("subject", "authzen_subject")
       /\ checks[2] = Nested("action", "authzen_action")
       /\ checks[3] = Nested("resource", "authzen_resource")
       /\ checks[4] = Bag("context")
BY DEF Types, authzen_request, Type

LEMMA RequestPasses ==
    ASSUME NEW v, NEW o, Evaluates(v, o),
           \/ validate_4("authzen_request", v) = "valid"
           \/ validate_3("authzen_request", v) = "valid"
    PROVE  ~Unserialisable(o)
<1>1. PICK subject : Member(v, "subject") = <<subject>> /\ Member(subject, "properties") = <<o.properties>>
  BY DEF Evaluates
<1> DEFINE checks == Types["authzen_request"].checks
<1>2. /\ checks[1].kind = "nested" /\ checks[1].member = "subject" /\ checks[1].arg = "authzen_subject"
      /\ checks[2].kind = "nested" /\ checks[2].member = "action"
      /\ checks[3].kind = "nested" /\ checks[3].member = "resource"
      /\ checks[4].kind # "nested"
  <2> HIDE DEF checks
  <2>1. /\ checks[1] = Nested("subject", "authzen_subject")
        /\ checks[2] = Nested("action", "authzen_action")
        /\ checks[3] = Nested("resource", "authzen_resource")
        /\ checks[4] = Bag("context")
    BY RequestChecks DEF checks
  <2> QED
    BY <2>1, CheckIs
<1>3. Lists("authzen_request", v)
  <2>1. ASSUME NEW i \in 1 .. 4, checks[i].kind = "nested"
        PROVE  DOMAIN Member(v, checks[i].member) \subseteq Nat
    <3>1. DOMAIN Member(v, "subject") \subseteq Nat
      BY <1>1
    <3>2. i = 1 \/ i = 2 \/ i = 3
      BY <1>2, <2>1
    <3> QED
      BY <1>2, <3>1, <3>2 DEF Evaluates
  <2> QED
    BY <2>1, RequestChecks DEF Lists
<1>4. Nests("authzen_request", v, 1, 1) /\ Inner("authzen_request", v, 1, 1) = subject
  BY <1>1, <1>2, RequestChecks DEF Nests, Inner, Member
<1>5. /\ OwnPass("authzen_request", v)
      /\ \/ validate_3("authzen_subject", subject) = "valid"
         \/ validate_2("authzen_subject", subject) = "valid"
  BY <1>2, <1>3, <1>4, Validated_4, Validated_3
<1>6. ~unreadable(o.properties)
  BY <1>1, <1>5, SubjectPasses
<1>7. own_finding(Bag("context"), v) = "valid"
  BY <1>2, <1>5, RequestChecks DEF OwnPass
<1> QED
  BY <1>6, <1>7, BagPasses DEF Evaluates, Unserialisable

LEMMA BulkChecks ==
    LET checks == Types["authzen_bulk"].checks
    IN /\ DOMAIN checks = 1 .. 6
       /\ checks[1] = Nested("subject", "authzen_subject")
       /\ checks[2] = Nested("action", "authzen_action")
       /\ checks[3] = Nested("resource", "authzen_resource")
       /\ checks[4] = Bag("context")
       /\ checks[5] = MinItems("evaluations")
       /\ checks[6] = Nested("evaluations", "authzen_request")
BY DEF Types, authzen_bulk, Type

(* What a bulk evaluation shares is validated, and so is each of its       *)
(* entries, of which there is one.                                         *)
LEMMA BulkPasses ==
    ASSUME NEW v, validate_4("authzen_bulk", v) = "valid",
           \A m \in {"subject", "action", "resource", "evaluations"} : DOMAIN Member(v, m) \subseteq Nat
    PROVE  /\ \A subject : Member(v, "subject") = <<subject>> =>
                 validate_3("authzen_subject", subject) = "valid"
           /\ own_finding(Bag("context"), v) = "valid"
           /\ Member(v, "evaluations") # <<>>
           /\ \A entry : Member(v, "evaluations") = <<entry>> =>
                 validate_3("authzen_request", entry) = "valid"
<1> DEFINE checks == Types["authzen_bulk"].checks
<1>1. /\ checks[1].kind = "nested" /\ checks[1].member = "subject" /\ checks[1].arg = "authzen_subject"
      /\ checks[2].kind = "nested" /\ checks[2].member = "action"
      /\ checks[3].kind = "nested" /\ checks[3].member = "resource"
      /\ checks[4].kind # "nested"
      /\ checks[5].kind = "min_items" /\ checks[5].member = "evaluations"
      /\ checks[6].kind = "nested" /\ checks[6].member = "evaluations"
      /\ checks[6].arg = "authzen_request"
  <2> HIDE DEF checks
  <2>1. /\ checks[1] = Nested("subject", "authzen_subject")
        /\ checks[2] = Nested("action", "authzen_action")
        /\ checks[3] = Nested("resource", "authzen_resource")
        /\ checks[4] = Bag("context")
        /\ checks[5] = MinItems("evaluations")
        /\ checks[6] = Nested("evaluations", "authzen_request")
    BY BulkChecks DEF checks
  <2> QED
    BY <2>1, CheckIs
<1>2. Lists("authzen_bulk", v)
  <2>1. ASSUME NEW i \in 1 .. 6, checks[i].kind = "nested"
        PROVE  DOMAIN Member(v, checks[i].member) \subseteq Nat
    <3>1. i = 1 \/ i = 2 \/ i = 3 \/ i = 6
      BY <1>1, <2>1
    <3> QED
      BY <1>1, <3>1
  <2> QED
    BY <2>1, BulkChecks DEF Lists
<1>3. /\ OwnPass("authzen_bulk", v)
      /\ \A i, j : Nests("authzen_bulk", v, i, j) =>
            validate_3(checks[i].arg, Inner("authzen_bulk", v, i, j)) = "valid"
  BY <1>2, Validated_4
<1>4. ASSUME NEW subject, Member(v, "subject") = <<subject>>
      PROVE  validate_3("authzen_subject", subject) = "valid"
  <2>1. Nests("authzen_bulk", v, 1, 1) /\ Inner("authzen_bulk", v, 1, 1) = subject
    BY <1>1, <1>4, BulkChecks DEF Nests, Inner, Member
  <2> QED
    BY <1>1, <1>3, <2>1
<1>5. ASSUME NEW entry, Member(v, "evaluations") = <<entry>>
      PROVE  validate_3("authzen_request", entry) = "valid"
  <2>1. Nests("authzen_bulk", v, 6, 1) /\ Inner("authzen_bulk", v, 6, 1) = entry
    BY <1>1, <1>5, BulkChecks DEF Nests, Inner, Member
  <2> QED
    BY <1>1, <1>3, <2>1
<1>6. own_finding(Bag("context"), v) = "valid"
  BY <1>1, <1>3, BulkChecks DEF OwnPass
<1>7. Member(v, "evaluations") # <<>>
  <2>1. own_finding(checks[5], v) = "valid"
    BY <1>1, <1>3, BulkChecks DEF OwnPass
  <2>2. own_finding(checks[5], v) = Refusing("malformed_envelope", Member(v, "evaluations") = <<>>)
    BY <1>1 DEF own_finding
  <2> QED
    BY <2>1, <2>2 DEF Refusing
<1> QED
  BY <1>4, <1>5, <1>6, <1>7

LEMMA EnvelopeChecks ==
    LET checks == Types["authzen_envelope"].checks
    IN /\ DOMAIN checks = 1 .. 6
       /\ \A i \in 1 .. 4 : checks[i].kind # "nested"
       /\ checks[5] = Nested("evaluation", "authzen_request")
       /\ checks[6] = Nested("evaluations", "authzen_bulk")
<1> DEFINE checks == Types["authzen_envelope"].checks
<1>1. checks = <<ExactlyOne("evaluation", "evaluations"),
                 Base("evaluation", "action"), Base("evaluation", "resource"),
                 Base("evaluation", "subject"), Nested("evaluation", "authzen_request"),
                 Nested("evaluations", "authzen_bulk")>>
  BY DEF Types, authzen_envelope, Type
<1> HIDE DEF checks
<1>2. \A m, n : ExactlyOne(m, n).kind # "nested" /\ Base(m, n).kind # "nested"
  BY DEF ExactlyOne, Base, Check
<1>3. \A i \in 1 .. 4 : checks[i].kind # "nested"
  BY <1>1, <1>2
<1>4. DOMAIN checks = 1 .. 6
  BY <1>1
<1>5. /\ checks[5] = Nested("evaluation", "authzen_request")
      /\ checks[6] = Nested("evaluations", "authzen_bulk")
  BY <1>1
<1> QED
  BY <1>3, <1>4, <1>5 DEF checks

LEMMA EnvelopePasses ==
    ASSUME NEW v, validate("authzen_envelope", v) = "valid",
           \A m \in {"evaluation", "evaluations"} : DOMAIN Member(v, m) \subseteq Nat
    PROVE  /\ \A one : Member(v, "evaluation") = <<one>> =>
                 validate_4("authzen_request", one) = "valid"
           /\ \A bulk : Member(v, "evaluations") = <<bulk>> =>
                 validate_4("authzen_bulk", bulk) = "valid"
<1> DEFINE checks == Types["authzen_envelope"].checks
<1>1. /\ checks[5].kind = "nested" /\ checks[5].member = "evaluation"
      /\ checks[5].arg = "authzen_request"
      /\ checks[6].kind = "nested" /\ checks[6].member = "evaluations"
      /\ checks[6].arg = "authzen_bulk"
  <2> HIDE DEF checks
  <2>1. /\ checks[5] = Nested("evaluation", "authzen_request")
        /\ checks[6] = Nested("evaluations", "authzen_bulk")
    BY EnvelopeChecks DEF checks
  <2> QED
    BY <2>1, CheckIs
<1>2. Lists("authzen_envelope", v)
  <2>1. ASSUME NEW i \in 1 .. 6, checks[i].kind = "nested"
        PROVE  DOMAIN Member(v, checks[i].member) \subseteq Nat
    <3>1. i = 5 \/ i = 6
      BY <2>1, EnvelopeChecks
    <3> QED
      BY <1>1, <3>1
  <2> QED
    BY <2>1, EnvelopeChecks DEF Lists
<1>3. \A i, j : Nests("authzen_envelope", v, i, j) =>
         validate_4(checks[i].arg, Inner("authzen_envelope", v, i, j)) = "valid"
  BY <1>2, Validated
<1>4. ASSUME NEW one, Member(v, "evaluation") = <<one>>
      PROVE  validate_4("authzen_request", one) = "valid"
  <2>1. Nests("authzen_envelope", v, 5, 1) /\ Inner("authzen_envelope", v, 5, 1) = one
    BY <1>1, <1>4, EnvelopeChecks DEF Nests, Inner, Member
  <2> QED
    BY <1>1, <1>3, <2>1
<1>5. ASSUME NEW bulk, Member(v, "evaluations") = <<bulk>>
      PROVE  validate_4("authzen_bulk", bulk) = "valid"
  <2>1. Nests("authzen_envelope", v, 6, 1) /\ Inner("authzen_envelope", v, 6, 1) = bulk
    BY <1>1, <1>5, EnvelopeChecks DEF Nests, Inner, Member
  <2> QED
    BY <1>1, <1>3, <2>1
<1> QED
  BY <1>4, <1>5

(* The envelope of a request, in the form the application chose.           *)
LEMMA EnvelopeHolds ==
    ASSUME NEW o, o.form \in Forms
    PROVE  \E parts :
              /\ Evaluates(parts, o)
              /\ o.form = "single" =>
                    /\ Member(Envelope(o), "evaluation") = <<parts>>
                    /\ Member(Envelope(o), "evaluations") = <<>>
              /\ o.form # "single" =>
                    /\ Member(Envelope(o), "evaluation") = <<>>
                    /\ \E bulk : Member(Envelope(o), "evaluations") = <<bulk>>
              /\ o.form = "entry" => \A bulk : Member(Envelope(o), "evaluations") = <<bulk>> =>
                    /\ Member(bulk, "evaluations") \in {<<>>, <<parts>>}
                    /\ \A m \in {"subject", "action", "resource"} : Member(bulk, m) = <<>>
              /\ o.form = "shared" => \A bulk : Member(Envelope(o), "evaluations") = <<bulk>> =>
                    Evaluates(bulk, o)
<1> DEFINE subject == [type |-> <<"user">>, id |-> <<IF o.lacks = "id" THEN "" ELSE "alice">>,
                       properties |-> <<o.properties>>]
           parts == [subject |-> <<subject>>,
                     action |-> IF o.lacks = "action" THEN <<>> ELSE <<[name |-> <<"read">>]>>,
                     resource |-> <<[type |-> <<"tool">>, id |-> <<"t">>]>>,
                     context |-> <<o.context>>]
           entries(some) == IF o.lacks = "entries" THEN <<>> ELSE some
           entry == With(EmptyMap, "evaluations", entries(<<parts>>))
           shared == With(parts, "evaluations", entries(<<[context |-> <<EmptyMap>>]>>))
<1>1. Member(subject, "properties") = <<o.properties>>
  BY DEF Member
<1>2. /\ DOMAIN parts = {"subject", "action", "resource", "context"}
      /\ Member(parts, "subject") = <<subject>>
      /\ Member(parts, "context") = <<o.context>>
      /\ DOMAIN Member(parts, "action") \subseteq Nat
      /\ DOMAIN Member(parts, "resource") \subseteq Nat
      /\ Member(parts, "evaluations") = <<>>
  <2> HIDE DEF subject
  <2> QED
    BY DEF Member
<1> HIDE DEF subject, parts
<1>3. Evaluates(parts, o)
  BY <1>1, <1>2 DEF Evaluates
<1>4. CASE o.form = "single"
  <2>1. Envelope(o) = [evaluation |-> <<parts>>]
    BY <1>4 DEF Envelope, parts, subject
  <2> QED
    BY <1>3, <1>4, <2>1 DEF Member
<1>5. CASE o.form = "entry"
  <2>1. Envelope(o) = [evaluations |-> <<entry>>]
    BY <1>5 DEF Envelope, parts, subject
  <2>2. /\ Member(entry, "evaluations") \in {<<>>, <<parts>>}
        /\ \A m \in {"subject", "action", "resource"} : Member(entry, m) = <<>>
    BY DEF Member, With, EmptyMap
  <2> HIDE DEF entry
  <2>3. Member(Envelope(o), "evaluation") = <<>> /\ Member(Envelope(o), "evaluations") = <<entry>>
    BY <2>1 DEF Member
  <2> QED
    BY <1>3, <1>5, <2>2, <2>3
<1>6. CASE o.form = "shared"
  <2>1. Envelope(o) = [evaluations |-> <<shared>>]
    BY <1>6 DEF Envelope, parts, subject
  <2>2. /\ \A m \in DOMAIN parts : Member(shared, m) = Member(parts, m)
        /\ DOMAIN Member(shared, "evaluations") \subseteq Nat
    BY <1>2 DEF Member, With
  <2>3. Evaluates(shared, o)
    BY <1>2, <1>3, <2>2 DEF Evaluates
  <2> HIDE DEF shared
  <2>4. Member(Envelope(o), "evaluation") = <<>> /\ Member(Envelope(o), "evaluations") = <<shared>>
    BY <2>1 DEF Member
  <2> QED
    BY <1>3, <1>6, <2>3, <2>4
<1> QED
  BY <1>4, <1>5, <1>6 DEF Forms

(* A request with an attribute nobody could read is not a valid envelope,  *)
(* so that it is refused here and in words that ask for a new one.         *)
LEMMA UnreadableIsInvalid ==
    ASSUME NEW o, o.form \in Forms, Unserialisable(o)
    PROVE  validate("authzen_envelope", Envelope(o)) # "valid"
<1> SUFFICES ASSUME validate("authzen_envelope", Envelope(o)) = "valid"
             PROVE  FALSE
  OBVIOUS
<1> DEFINE v == Envelope(o)
<1>1. PICK parts :
              /\ Evaluates(parts, o)
              /\ o.form = "single" =>
                    /\ Member(v, "evaluation") = <<parts>>
                    /\ Member(v, "evaluations") = <<>>
              /\ o.form # "single" =>
                    /\ Member(v, "evaluation") = <<>>
                    /\ \E bulk : Member(v, "evaluations") = <<bulk>>
              /\ o.form = "entry" => \A bulk : Member(v, "evaluations") = <<bulk>> =>
                    /\ Member(bulk, "evaluations") \in {<<>>, <<parts>>}
                    /\ \A m \in {"subject", "action", "resource"} : Member(bulk, m) = <<>>
              /\ o.form = "shared" => \A bulk : Member(v, "evaluations") = <<bulk>> =>
                    Evaluates(bulk, o)
  BY EnvelopeHolds
<1>2. validate("authzen_envelope", v) = "valid"
  OBVIOUS
<1> HIDE DEF v
<1>3. \A m \in {"evaluation", "evaluations"} : DOMAIN Member(v, m) \subseteq Nat
  BY <1>1
<1>4. CASE o.form = "single"
  BY <1>1, <1>2, <1>3, <1>4, EnvelopePasses, RequestPasses
<1>5. ASSUME o.form # "single"
      PROVE  \E bulk : Member(v, "evaluations") = <<bulk>> /\ validate_4("authzen_bulk", bulk) = "valid"
  BY <1>1, <1>2, <1>3, <1>5, EnvelopePasses
<1>6. CASE o.form = "entry"
  <2>1. PICK bulk : Member(v, "evaluations") = <<bulk>> /\ validate_4("authzen_bulk", bulk) = "valid"
    BY <1>5, <1>6
  <2>2. /\ Member(bulk, "evaluations") \in {<<>>, <<parts>>}
        /\ \A m \in {"subject", "action", "resource"} : Member(bulk, m) = <<>>
    BY <1>1, <1>6, <2>1
  <2>3. \A m \in {"subject", "action", "resource", "evaluations"} : DOMAIN Member(bulk, m) \subseteq Nat
    BY <2>2
  <2>4. validate_3("authzen_request", parts) = "valid"
    BY <2>1, <2>2, <2>3, BulkPasses
  <2> QED
    BY <1>1, <2>4, RequestPasses
<1>7. CASE o.form = "shared"
  <2>1. PICK bulk : Member(v, "evaluations") = <<bulk>> /\ validate_4("authzen_bulk", bulk) = "valid"
    BY <1>5, <1>7
  <2>2. Evaluates(bulk, o)
    BY <1>1, <1>7, <2>1
  <2>3. PICK subject : Member(bulk, "subject") = <<subject>>
                       /\ Member(subject, "properties") = <<o.properties>>
    BY <2>2 DEF Evaluates
  <2>4. \A m \in {"subject", "action", "resource", "evaluations"} : DOMAIN Member(bulk, m) \subseteq Nat
    BY <2>2, <2>3 DEF Evaluates
  <2>5. /\ validate_3("authzen_subject", subject) = "valid"
        /\ own_finding(Bag("context"), bulk) = "valid"
    BY <2>1, <2>3, <2>4, BulkPasses
  <2>6. ~unreadable(o.properties) /\ ~unreadable(o.context)
    BY <2>2, <2>3, <2>5, SubjectPasses, BagPasses DEF Evaluates
  <2> QED
    BY <2>6 DEF Unserialisable
<1> QED
  BY <1>4, <1>6, <1>7 DEF Forms

(* The key holds an attribute nobody could read, or a map that does.       *)
Carries(map, key) ==
    /\ key \in DOMAIN map
    /\ \/ map[key].is = "unknown"
       \/ map[key].value # <<>> /\ ~AllRead(Head(map[key].value))

(* Whatever is written to a map through the builders, what nobody could    *)
(* read stays in it.                                                       *)
LEMMA RecordCarries ==
    ASSUME NEW map, NEW key, NEW inner, NEW a
    PROVE  /\ \A k : Carries(map, k) => Carries(record_nested(map, key, inner, a), k)
           /\ a = Unknown => Carries(record_nested(map, key, inner, a), key)
<1> DEFINE nested == Head(nested_for_write(map, key))
           written == record(nested, inner, a)
           after == record_nested(map, key, inner, a)
<1>1. CASE holds_unresolved(map, key)
  <2>1. after = map
    BY <1>1 DEF record_nested, nested_for_write
  <2> QED
    BY <1>1, <2>1 DEF holds_unresolved, Carries
<1>2. CASE ~holds_unresolved(map, key)
  <2>1. nested_for_write(map, key) # <<>> /\ after = insert(map, key, KnownMap(written))
    BY <1>2 DEF record_nested, nested_for_write, IsNested
  <2>2. /\ \A k : k # key => (Carries(map, k) => Carries(after, k))
        /\ ~AllRead(written) => Carries(after, key)
    <3> HIDE DEF written
    <3>1. KnownMap(written).value = <<written>>
      BY DEF KnownMap
    <3> HIDE DEF after
    <3> QED
      BY <2>1, <3>1 DEF insert, Carries
  <2>3. Carries(map, key) => ~AllRead(nested)
    BY <1>2 DEF Carries, holds_unresolved, nested_for_write, IsNested
  <2>4. ~AllRead(nested) => ~AllRead(written)
    BY DEF AllRead, record, holds_unresolved, insert
  <2>5. a = Unknown => ~AllRead(written)
    <3> HIDE DEF nested
    <3>1. Unknown.is = "unknown"
      BY DEF Unknown
    <3>2. CASE holds_unresolved(nested, inner)
      BY <3>2 DEF AllRead, record, holds_unresolved
    <3>3. CASE ~holds_unresolved(nested, inner)
      <4>1. a = Unknown => inner \in DOMAIN written /\ written[inner] = Unknown
        BY <3>3 DEF record, insert
      <4> QED
        BY <3>1, <4>1 DEF AllRead
    <3> QED
      BY <3>2, <3>3
  <2> QED
    BY <2>2, <2>3, <2>4, <2>5
<1> QED
  BY <1>1, <1>2

LEMMA InsertCarries ==
    ASSUME NEW map, NEW key, NEW a
    PROVE  /\ \A k : k # key => (Carries(map, k) => Carries(insert(map, key, a), k))
           /\ a = Unknown => Carries(insert(map, key, a), key)
BY DEF insert, Carries, Unknown

LEMMA CarriesIsUnreadable ==
    ASSUME NEW map, NEW key, Carries(map, key)
    PROVE  unreadable(map)
BY DEF Carries, unreadable, AllRead, IsNested

(* Every attribute the application said it could not read, and has not     *)
(* replaced, is still in the bag it wrote it to.                           *)
UnreadIsCarried ==
    op.surface = "authzen" =>
       \A path \in op.unread :
          \/ path = <<"role">> /\ Carries(op.properties, "role")
          \/ Carries(op.context, Head(path))

LEMMA BuildingCarries ==
    ASSUME EvaluationsAreWhole, UnreadIsCarried, Building
    PROVE  UnreadIsCarried'
<1>1. IsEvaluation(op) /\ op.surface = "authzen"
  BY BuildingRevises DEF IsEvaluation
<1>2. \A path \in op.unread :
         \/ path = <<"role">> /\ Carries(op.properties, "role")
         \/ Carries(op.context, Head(path))
  BY <1>1 DEF UnreadIsCarried
<1>3. ASSUME NEW key, NEW inner, NEW a, NestedFilled(key, inner, a)
      PROVE  UnreadIsCarried'
  <2>1. /\ op'.context = record_nested(op.context, key, inner, a)
        /\ op'.properties = op.properties
        /\ op'.unread = Adding(op.unread, <<key, inner>>, a)
    BY <1>3 DEF NestedFilled, Fills
  <2>2. Head(<<key, inner>>) = key
    OBVIOUS
  <2>3. ASSUME NEW path \in op'.unread
        PROVE  \/ path = <<"role">> /\ Carries(op'.properties, "role")
               \/ Carries(op'.context, Head(path))
    <3>1. CASE path \in op.unread
      BY <1>2, <2>1, <3>1, RecordCarries
    <3>2. CASE path \notin op.unread
      <4>1. path = <<key, inner>> /\ a = Unknown
        BY <2>1, <2>3, <3>2 DEF Adding
      <4> QED
        BY <2>1, <2>2, <4>1, RecordCarries
    <3> QED
      BY <3>1, <3>2
  <2> QED
    BY <2>3 DEF UnreadIsCarried
<1>4. ASSUME NEW key, NEW a, InsertFilled(key, a)
      PROVE  UnreadIsCarried'
  <2>1. /\ op'.context = insert(op.context, key, a)
        /\ op'.properties = op.properties
        /\ op'.unread = Adding({path \in op.unread : Head(path) # key}, <<key>>, a)
    BY <1>4 DEF InsertFilled, Fills
  <2>2. Head(<<key>>) = key
    OBVIOUS
  <2>3. ASSUME NEW path \in op'.unread
        PROVE  \/ path = <<"role">> /\ Carries(op'.properties, "role")
               \/ Carries(op'.context, Head(path))
    <3>1. CASE path \in op.unread /\ Head(path) # key
      BY <1>2, <2>1, <3>1, InsertCarries
    <3>2. CASE ~(path \in op.unread /\ Head(path) # key)
      <4>1. path = <<key>> /\ a = Unknown
        BY <2>1, <2>3, <3>2 DEF Adding
      <4> QED
        BY <2>1, <2>2, <4>1, InsertCarries
    <3> QED
      BY <3>1, <3>2
  <2> QED
    BY <2>3 DEF UnreadIsCarried
<1>5. ASSUME NEW a, PropertyFilled(a)
      PROVE  UnreadIsCarried'
  <2>1. /\ op'.context = op.context
        /\ op'.properties = insert(op.properties, "role", a)
        /\ op'.unread = Adding(op.unread \ {<<"role">>}, <<"role">>, a)
    BY <1>5 DEF PropertyFilled, Fills
  <2>2. ASSUME NEW path \in op'.unread
        PROVE  \/ path = <<"role">> /\ Carries(op'.properties, "role")
               \/ Carries(op'.context, Head(path))
    <3>1. CASE path \in op.unread \ {<<"role">>}
      BY <1>2, <2>1, <3>1
    <3>2. CASE path \notin op.unread \ {<<"role">>}
      <4>1. path = <<"role">> /\ a = Unknown
        BY <2>1, <2>2, <3>2 DEF Adding
      <4> QED
        BY <2>1, <4>1, InsertCarries
    <3> QED
      BY <3>1, <3>2
  <2> QED
    BY <2>2 DEF UnreadIsCarried
<1> QED
  BY <1>1, <1>3, <1>4, <1>5, BuildingFills

LEMMA CarriedRefuses ==
    ASSUME NEW o, IsEvaluation(o), NEW path,
           \/ path = <<"role">> /\ Carries(o.properties, "role")
           \/ Carries(o.context, Head(path))
    PROVE  /\ AuthzenRefusal(o) # <<>>
           /\ Head(AuthzenRefusal(o)).kind \in {"Unresolved", "Refused"}
           /\ ~is_retryable(Head(AuthzenRefusal(o)))
<1> DEFINE code == validate("authzen_envelope", Envelope(o))
<1>1. Unserialisable(o)
  BY CarriesIsUnreadable DEF Unserialisable
<1>2. code # "valid"
  BY <1>1, UnreadableIsInvalid DEF IsEvaluation
<1>3. AuthzenRefusal(o) = <<local_refusal(code)>>
  BY <1>2 DEF AuthzenRefusal
<1> HIDE DEF code
<1>4. CASE code = "evaluation_unavailable"
  <2>1. local_refusal(code) = Result("Unresolved", 0, code)
    BY <1>4 DEF local_refusal
  <2>2. local_refusal(code).kind = "Unresolved"
    BY <2>1, ResultIs
  <2> QED
    BY <1>3, <2>2, SettledIsNotRetried
<1>5. CASE code # "evaluation_unavailable"
  <2>1. local_refusal(code) = Result("Refused", 0, code)
    BY <1>5 DEF local_refusal
  <2>2. local_refusal(code).kind = "Refused" /\ local_refusal(code).reason = code
    BY <2>1, ResultIs
  <2>3. ~is_retryable(local_refusal(code))
    BY <1>5, <2>2 DEF is_retryable, retryable
  <2> QED
    BY <1>3, <2>2, <2>3
<1> QED
  BY <1>4, <1>5

(* A request with such an attribute never gets past its own check, and the *)
(* application is not told to repeat it.                                   *)
UnreadIsRefused ==
    op.surface = "authzen" /\ op.unread # {} =>
       /\ pc \in {"building", "done"}
       /\ pc = "done" => result.kind \in {"Unresolved", "Refused"} /\ ~is_retryable(result)

UnreadInv == UnreadIsCarried /\ UnreadIsRefused

LEMMA UnreadNext ==
    ASSUME Surfaces, EvaluationsAreWhole, TypeOK, UnreadInv, [SessionNext]_sessionVars
    PROVE  UnreadInv'
<1>1. CASE Building
  <2>1. UnreadIsCarried'
    BY <1>1, BuildingCarries DEF UnreadInv
  <2>2. pc' = "building"
    BY <1>1, BuildingRevises DEF Revised
  <2> QED
    BY <2>1, <2>2 DEF UnreadInv, UnreadIsRefused
<1>2. ASSUME NEW o \in Ops, Begin(o)
      PROVE  UnreadInv'
  <2>1. o.surface = "authzen" => o.unread = {}
    BY OpsAssumption DEF Evaluation
  <2> QED
    BY <1>2, <2>1 DEF Begin, UnreadInv, UnreadIsCarried, UnreadIsRefused
<1>3. CASE Finish
  <2>1. op'.surface = "none"
    BY <1>3 DEF Finish, Nothing
  <2> QED
    BY <2>1 DEF UnreadInv, UnreadIsCarried, UnreadIsRefused
<1>4. CASE Call
  <2>1. UNCHANGED op
    BY <1>4 DEF Call, call
  <2>2. ASSUME op.surface = "authzen", op.unread # {}
        PROVE  pc' = "done" /\ result'.kind \in {"Unresolved", "Refused"} /\ ~is_retryable(result')
    <3>1. PICK path \in op.unread :
                   \/ path = <<"role">> /\ Carries(op.properties, "role")
                   \/ Carries(op.context, Head(path))
      BY <2>2 DEF UnreadInv, UnreadIsCarried
    <3>2. IsEvaluation(op)
      BY <2>2 DEF EvaluationsAreWhole
    <3>3. /\ AuthzenRefusal(op) # <<>>
          /\ Head(AuthzenRefusal(op)).kind \in {"Unresolved", "Refused"}
          /\ ~is_retryable(Head(AuthzenRefusal(op)))
      BY <3>1, <3>2, CarriedRefuses
    <3>4. Refusal(op) = AuthzenRefusal(op)
      BY <2>2 DEF Surfaces, SessionRefusal
    <3> QED
      BY <1>4, <3>3, <3>4 DEF Call
  <2> QED
    BY <2>1, <2>2 DEF UnreadInv, UnreadIsCarried, UnreadIsRefused
<1>5. CASE UNCHANGED op /\ (Send \/ TooManyRedirects \/ FollowRedirect \/ StopRedirect \/ Handle
                            \/ GatewayAnswers \/ Unreachable \/ Arrive \/ Lose \/ Retry)
  <2>1. ~(op.surface = "authzen" /\ op.unread # {})
    BY <1>5 DEF UnreadInv, UnreadIsRefused, Send, TooManyRedirects, FollowRedirect, StopRedirect,
       Handle, GatewayAnswers, Unreachable, Arrive, Lose, Retry
  <2> QED
    BY <1>5, <2>1 DEF UnreadInv, UnreadIsCarried, UnreadIsRefused
<1>6. CASE UNCHANGED <<op, pc, result>>
  BY <1>6 DEF UnreadInv, UnreadIsCarried, UnreadIsRefused
<1> QED
  BY <1>1, <1>2, <1>3, <1>4, <1>5, <1>6 DEF SessionNext, sessionVars, vars, Exchanging, Declare,
     as_user, with_pep_handshake, Send, TooManyRedirects, FollowRedirect, StopRedirect, Handle,
     GatewayAnswers, Unreachable, Arrive, Lose, Retry, Sending, call, outcomes

(* An attribute nobody could read keeps its request from the platform, in  *)
(* whichever of its bags it is and whatever was written before and after.  *)
THEOREM SessionNeverWeighsUnknown ==
    ASSUME Surfaces
    PROVE  SessionSpec => []UnknownNeverWeighed
<1>1. SessionInit => UnreadInv
  <2>1. Nothing.surface = "none"
    BY DEF Nothing
  <2> QED
    BY <2>1 DEF SessionInit, Init, UnreadInv, UnreadIsCarried, UnreadIsRefused
<1>2. EvaluationsAreWhole /\ TypeOK /\ UnreadInv /\ [SessionNext]_sessionVars => UnreadInv'
  BY UnreadNext
<1>3. UnreadInv => UnknownNeverWeighed
  BY DEF UnreadInv, UnreadIsRefused, UnknownNeverWeighed, OnTheWire
<1> QED
  BY <1>1, <1>2, <1>3, Funnel, PTL DEF SessionSpec

-----------------------------------------------------------------------------
(* What an allow owes                                                      *)

(* Decoding, depth by depth: the members a value must have and may have.   *)
Decoding(type, v) ==
    /\ Types[type].needs \subseteq DOMAIN v
    /\ DOMAIN v \subseteq Types[type].needs \cup Types[type].may

LEMMA Decoded ==
    ASSUME NEW type, NEW v
    PROVE  /\ decodes(type, v) =>
                 /\ Decoding(type, v)
                 /\ \A i, j : Nests(type, v, i, j) =>
                       decodes_4(Types[type].checks[i].arg, Inner(type, v, i, j))
           /\ decodes_4(type, v) =>
                 /\ Decoding(type, v)
                 /\ \A i, j : Nests(type, v, i, j) =>
                       decodes_3(Types[type].checks[i].arg, Inner(type, v, i, j))
           /\ decodes_3(type, v) =>
                 /\ Decoding(type, v)
                 /\ \A i, j : Nests(type, v, i, j) =>
                       decodes_2(Types[type].checks[i].arg, Inner(type, v, i, j))
           /\ decodes_2(type, v) =>
                 /\ Decoding(type, v)
                 /\ \A i, j : Nests(type, v, i, j) =>
                       decodes_1(Types[type].checks[i].arg, Inner(type, v, i, j))
           /\ decodes_1(type, v) => Decoding(type, v)
<1>1. \A i, j : Nests(type, v, i, j) =>
         /\ Types[type].checks[i] \in ToSet(Types[type].checks)
         /\ Types[type].checks[i].kind = "nested"
         /\ j \in DOMAIN Member(v, Types[type].checks[i].member)
  BY DEF Nests, ToSet
<1>2. ASSUME decodes(type, v)
      PROVE  /\ Decoding(type, v)
             /\ \A i, j : Nests(type, v, i, j) =>
                   decodes_4(Types[type].checks[i].arg, Inner(type, v, i, j))
  BY <1>1, <1>2 DEF decodes, decoded_with, Decoding, Inner
<1>3. ASSUME decodes_4(type, v)
      PROVE  /\ Decoding(type, v)
             /\ \A i, j : Nests(type, v, i, j) =>
                   decodes_3(Types[type].checks[i].arg, Inner(type, v, i, j))
  BY <1>1, <1>3 DEF decodes_4, decoded_with, Decoding, Inner
<1>4. ASSUME decodes_3(type, v)
      PROVE  /\ Decoding(type, v)
             /\ \A i, j : Nests(type, v, i, j) =>
                   decodes_2(Types[type].checks[i].arg, Inner(type, v, i, j))
  BY <1>1, <1>4 DEF decodes_3, decoded_with, Decoding, Inner
<1>5. ASSUME decodes_2(type, v)
      PROVE  /\ Decoding(type, v)
             /\ \A i, j : Nests(type, v, i, j) =>
                   decodes_1(Types[type].checks[i].arg, Inner(type, v, i, j))
  BY <1>1, <1>5 DEF decodes_2, decoded_with, Decoding, Inner
<1>6. decodes_1(type, v) => Decoding(type, v)
  BY DEF decodes_1, decoded_with, Decoding
<1> QED
  BY <1>2, <1>3, <1>4, <1>5, <1>6

Listed(s) == \E S : s \in Seq(S)

LEMMA ObjectLists ==
    ASSUME NEW v, IsObject(v), NEW m
    PROVE  /\ Listed(Member(v, m))
           /\ DOMAIN Member(v, m) \subseteq Nat
           /\ Member(v, m) # <<>> =>
                 /\ m \in DOMAIN v /\ Member(v, m) = v[m]
                 /\ 1 \in DOMAIN Member(v, m) /\ Head(v[m]) = v[m][1]
<1>1. Listed(Member(v, m))
  <2>1. CASE m \in DOMAIN v
    BY <2>1 DEF IsObject, Member, Listed
  <2>2. CASE m \notin DOMAIN v
    <3>1. <<>> \in Seq({})
      OBVIOUS
    <3> QED
      BY <2>2, <3>1 DEF Member, Listed
  <2> QED
    BY <2>1, <2>2
<1>2. PICK S : Member(v, m) \in Seq(S)
  BY <1>1 DEF Listed
<1>3. ASSUME Member(v, m) # <<>>
      PROVE  m \in DOMAIN v /\ Member(v, m) = v[m]
  BY <1>3 DEF Member
<1>4. DOMAIN Member(v, m) = 1 .. Len(Member(v, m)) /\ Len(Member(v, m)) \in Nat
  BY <1>2
<1>5. Member(v, m) # <<>> => Len(Member(v, m)) > 0 /\ Head(Member(v, m)) = Member(v, m)[1]
  BY <1>2
<1> QED
  BY <1>1, <1>3, <1>4, <1>5

LEMMA ObjectIsListed ==
    ASSUME NEW type, DOMAIN Types[type].checks \subseteq Nat, NEW v, IsObject(v)
    PROVE  Lists(type, v)
BY ObjectLists DEF Lists

LEMMA OwnFinding ==
    ASSUME NEW c, NEW v
    PROVE  /\ c.kind \in {"required", "min_length"} =>
                 own_finding(c, v) = Refusing("incomplete_evaluation", Member(v, c.member) = <<"">>)
           /\ c.kind = "min_items" =>
                 own_finding(c, v) = Refusing("malformed_envelope", Member(v, c.member) = <<>>)
BY DEF own_finding

LEMMA RequiredPasses ==
    ASSUME NEW m, NEW v,
           own_finding(Required(m), v) = "valid" \/ own_finding(MinLength(m), v) = "valid"
    PROVE  Member(v, m) # <<"">>
<1>1. PICK c \in {Required(m), MinLength(m)} : own_finding(c, v) = "valid"
  OBVIOUS
<1>2. c.kind \in {"required", "min_length"} /\ c.member = m
  BY CheckIs
<1> QED
  BY <1>1, <1>2, OwnFinding DEF Refusing

LEMMA ItemsPass ==
    ASSUME NEW m, NEW v, own_finding(MinItems(m), v) = "valid"
    PROVE  Member(v, m) # <<>>
<1>1. PICK c \in {MinItems(m)} : own_finding(c, v) = "valid"
  OBVIOUS
<1>2. c.kind = "min_items" /\ c.member = m
  BY CheckIs
<1> QED
  BY <1>1, <1>2, OwnFinding DEF Refusing

(* An identifier of an approval: somebody in particular.                   *)
LEMMA IdentifierChecks ==
    /\ DOMAIN Types["identifier"].checks = 1 .. 3
    /\ Types["identifier"].checks[3] = Required("local")
    /\ "local" \in Types["identifier"].needs
<1>1. /\ Types["identifier"].checks = <<Required("kind"), Required("type"), Required("local")>>
      /\ Types["identifier"].needs = ToSet(<<"kind", "type", "local">>)
  BY DEF Types, identifier, Type
<1> QED
  BY <1>1 DEF ToSet

LEMMA IdentifierIsSomebody ==
    ASSUME NEW v, IsObject(v), validate_1("identifier", v) = "valid", decodes_1("identifier", v)
    PROVE  v.local # <<"">>
<1>1. OwnPass("identifier", v)
  BY IdentifierChecks, ObjectIsListed, Validated_1
<1>2. own_finding(Required("local"), v) = "valid"
  BY <1>1, IdentifierChecks, CheckIs DEF OwnPass
<1>3. Member(v, "local") # <<"">>
  BY <1>2, RequiredPasses
<1>4. "local" \in DOMAIN v
  BY IdentifierChecks, Decoded DEF Decoding
<1> QED
  BY <1>3, <1>4 DEF Member

LEMMA ClauseChecks ==
    /\ DOMAIN Types["approval_clause"].checks = 1 .. 2
    /\ Types["approval_clause"].checks[1] = MinItems("eligible")
    /\ Types["approval_clause"].checks[2] = Nested("eligible", "identifier")
    /\ "eligible" \in Types["approval_clause"].needs
<1>1. /\ Types["approval_clause"].checks = <<MinItems("eligible"), Nested("eligible", "identifier")>>
      /\ Types["approval_clause"].needs = ToSet(<<"quorum", "eligible">>)
  BY DEF Types, approval_clause, Type
<1> QED
  BY <1>1 DEF ToSet

LEMMA ClauseHasSomebody ==
    ASSUME NEW v, Clausal(v),
           validate_2("approval_clause", v) = "valid", decodes_2("approval_clause", v)
    PROVE  v.eligible # <<>> /\ \A who \in ToSet(v.eligible) : who.local # <<"">>
<1> DEFINE checks == Types["approval_clause"].checks
<1>1. /\ checks[1].kind = "min_items" /\ checks[1].member = "eligible"
      /\ checks[2].kind = "nested" /\ checks[2].member = "eligible" /\ checks[2].arg = "identifier"
  BY ClauseChecks, CheckIs
<1>2. /\ OwnPass("approval_clause", v)
      /\ \A i, j : Nests("approval_clause", v, i, j) =>
            validate_1(checks[i].arg, Inner("approval_clause", v, i, j)) = "valid"
  BY ClauseChecks, ObjectIsListed, Validated_2 DEF Clausal
<1>3. /\ "eligible" \in DOMAIN v
      /\ \A i, j : Nests("approval_clause", v, i, j) =>
            decodes_1(checks[i].arg, Inner("approval_clause", v, i, j))
  BY ClauseChecks, Decoded DEF Decoding
<1>4. Member(v, "eligible") = v.eligible
  BY <1>3 DEF Member
<1>5. v.eligible # <<>>
  <2>1. own_finding(MinItems("eligible"), v) = "valid"
    BY <1>1, <1>2, ClauseChecks DEF OwnPass
  <2> QED
    BY <1>4, <2>1, ItemsPass
<1>6. ASSUME NEW j \in DOMAIN v.eligible
      PROVE  v.eligible[j].local # <<"">>
  <2>1. /\ Nests("approval_clause", v, 2, j)
        /\ Inner("approval_clause", v, 2, j) = v.eligible[j]
    BY <1>1, <1>4, ClauseChecks DEF Nests, Inner
  <2>2. IsObject(v.eligible[j])
    BY <1>4 DEF Clausal, ToSet
  <2>3. validate_1("identifier", v.eligible[j]) = "valid" /\ decodes_1("identifier", v.eligible[j])
    BY <1>1, <1>2, <1>3, <2>1
  <2> QED
    BY <2>2, <2>3, IdentifierIsSomebody
<1> QED
  BY <1>5, <1>6 DEF ToSet

LEMMA ApprovalChecks ==
    /\ DOMAIN Types["approval_requirement"].checks = 1 .. 3
    /\ Types["approval_requirement"].checks[1] = MinItems("all_of")
    /\ Types["approval_requirement"].checks[2] = Nested("all_of", "approval_clause")
    /\ Types["approval_requirement"].checks[3] = Required("expires_at")
    /\ "all_of" \in Types["approval_requirement"].needs
<1>1. /\ Types["approval_requirement"].checks =
            <<MinItems("all_of"), Nested("all_of", "approval_clause"), Required("expires_at")>>
      /\ Types["approval_requirement"].needs = ToSet(<<"all_of", "separation_of_duties", "expires_at">>)
  BY DEF Types, approval_requirement, Type
<1> QED
  BY <1>1 DEF ToSet

(* What AllowIsWhole says of an approval.                                  *)
Approvable(v) ==
    /\ v.all_of # <<>>
    /\ \A clause \in ToSet(v.all_of) :
          clause.eligible # <<>> /\ \A who \in ToSet(clause.eligible) : who.local # <<"">>

LEMMA ApprovalIsPossible ==
    ASSUME NEW v, Approves(v),
           validate_3("approval_requirement", v) = "valid", decodes_3("approval_requirement", v)
    PROVE  Approvable(v)
<1> DEFINE checks == Types["approval_requirement"].checks
<1>1. /\ checks[1].kind = "min_items"
      /\ checks[2].kind = "nested" /\ checks[2].member = "all_of" /\ checks[2].arg = "approval_clause"
  BY ApprovalChecks, CheckIs
<1>2. /\ OwnPass("approval_requirement", v)
      /\ \A i, j : Nests("approval_requirement", v, i, j) =>
            validate_2(checks[i].arg, Inner("approval_requirement", v, i, j)) = "valid"
  BY ApprovalChecks, ObjectIsListed, Validated_3 DEF Approves
<1>3. /\ "all_of" \in DOMAIN v
      /\ \A i, j : Nests("approval_requirement", v, i, j) =>
            decodes_2(checks[i].arg, Inner("approval_requirement", v, i, j))
  BY ApprovalChecks, Decoded DEF Decoding
<1>4. Member(v, "all_of") = v.all_of
  BY <1>3 DEF Member
<1>5. v.all_of # <<>>
  <2>1. own_finding(MinItems("all_of"), v) = "valid"
    BY <1>1, <1>2, ApprovalChecks DEF OwnPass
  <2> QED
    BY <1>4, <2>1, ItemsPass
<1>6. ASSUME NEW j \in DOMAIN v.all_of
      PROVE  LET clause == v.all_of[j]
             IN clause.eligible # <<>> /\ \A who \in ToSet(clause.eligible) : who.local # <<"">>
  <2>1. /\ Nests("approval_requirement", v, 2, j)
        /\ Inner("approval_requirement", v, 2, j) = v.all_of[j]
    BY <1>1, <1>4, ApprovalChecks DEF Nests, Inner
  <2>2. Clausal(v.all_of[j])
    BY <1>4 DEF Approves, ToSet
  <2>3. validate_2("approval_clause", v.all_of[j]) = "valid" /\ decodes_2("approval_clause", v.all_of[j])
    BY <1>1, <1>2, <1>3, <2>1
  <2> QED
    BY <2>2, <2>3, ClauseHasSomebody
<1> QED
  BY <1>5, <1>6 DEF ToSet, Approvable

LEMMA ObligationChecks ==
    /\ DOMAIN Types["obligation"].checks = 1 .. 3
    /\ Types["obligation"].checks[1] = Required("type")
    /\ Types["obligation"].checks[2] = MinLength("target")
    /\ Types["obligation"].checks[3] = Required("source_policy")
    /\ {"type", "source_policy"} \subseteq Types["obligation"].needs
<1>1. /\ Types["obligation"].checks =
            <<Required("type"), MinLength("target"), Required("source_policy")>>
      /\ Types["obligation"].needs = ToSet(<<"type", "mandatory", "source_policy", "schema_version">>)
  BY DEF Types, obligation, Type
<1> QED
  BY <1>1 DEF ToSet

LEMMA ObligationIsWhole ==
    ASSUME NEW v, IsObject(v), validate_3("obligation", v) = "valid", decodes_3("obligation", v)
    PROVE  v.type # <<"">> /\ v.source_policy # <<"">> /\ Member(v, "target") # <<"">>
<1>1. OwnPass("obligation", v)
  BY ObligationChecks, ObjectIsListed, Validated_3
<1>2. /\ own_finding(Required("type"), v) = "valid"
      /\ own_finding(MinLength("target"), v) = "valid"
      /\ own_finding(Required("source_policy"), v) = "valid"
  BY <1>1, ObligationChecks, CheckIs DEF OwnPass
<1>3. Member(v, "type") # <<"">> /\ Member(v, "target") # <<"">> /\ Member(v, "source_policy") # <<"">>
  BY <1>2, RequiredPasses
<1>4. {"type", "source_policy"} \subseteq DOMAIN v
  BY ObligationChecks, Decoded DEF Decoding
<1> QED
  BY <1>3, <1>4 DEF Member

LEMMA ContextChecks ==
    LET type == Types["authzen_response_context"]
    IN /\ DOMAIN type.checks = 1 .. 8
       /\ type.checks[4] = Required("category")
       /\ type.checks[5] = Nested("obligations", "obligation")
       /\ type.checks[6] = Nested("approval", "approval_requirement")
       /\ type.checks[7] = Required("decision_id")
       /\ type.checks[8] = Required("schema_version")
       /\ {"category", "decision_id", "schema_version"} \subseteq type.needs
       /\ "conditions" \notin type.needs \cup type.may
<1>1. Types["authzen_response_context"] = authzen_response_context
  BY DEF Types
<1> DEFINE type == Types["authzen_response_context"]
<1>2. /\ type.checks =
            <<Required("profile"), Const("profile", AUTHZEN_PROFILE_V1), Required("state"),
              Required("category"), Nested("obligations", "obligation"),
              Nested("approval", "approval_requirement"), Required("decision_id"),
              Required("schema_version")>>
      /\ type.needs = ToSet(<<"profile", "state", "category", "decision_id", "schema_version">>)
      /\ type.may = {"reason", "obligations", "approval"}
  BY <1>1 DEF authzen_response_context, Type
<1> HIDE DEF type
<1>3. /\ {"category", "decision_id", "schema_version"} \subseteq type.needs
      /\ "conditions" \notin type.needs \cup type.may
  BY <1>2 DEF ToSet
<1>4. /\ DOMAIN type.checks = 1 .. 8
      /\ type.checks[4] = Required("category")
      /\ type.checks[5] = Nested("obligations", "obligation")
      /\ type.checks[6] = Nested("approval", "approval_requirement")
      /\ type.checks[7] = Required("decision_id")
      /\ type.checks[8] = Required("schema_version")
  BY <1>2
<1> QED
  BY <1>3, <1>4 DEF type

LEMMA ContextIsWhole ==
    ASSUME NEW c, Contextual(c),
           validate_4("authzen_response_context", c) = "valid", decodes_4("authzen_response_context", c)
    PROVE  /\ \A m \in {"category", "decision_id", "schema_version"} : c[m] # <<"">>
           /\ "conditions" \notin DOMAIN c
           /\ \A owed \in ToSet(Member(c, "obligations")) :
                 owed.type # <<"">> /\ owed.source_policy # <<"">> /\ Member(owed, "target") # <<"">>
           /\ \A approval \in ToSet(Member(c, "approval")) : Approvable(approval)
<1> DEFINE t == "authzen_response_context"
           checks == Types[t].checks
<1>1. /\ checks[5].kind = "nested" /\ checks[5].member = "obligations" /\ checks[5].arg = "obligation"
      /\ checks[6].kind = "nested" /\ checks[6].member = "approval"
      /\ checks[6].arg = "approval_requirement"
  BY ContextChecks, CheckIs
<1>2. /\ OwnPass(t, c)
      /\ \A i, j : Nests(t, c, i, j) => validate_3(checks[i].arg, Inner(t, c, i, j)) = "valid"
  BY ContextChecks, ObjectIsListed, Validated_4 DEF Contextual
<1>3. /\ Decoding(t, c)
      /\ \A i, j : Nests(t, c, i, j) => decodes_3(checks[i].arg, Inner(t, c, i, j))
  BY Decoded
<1>4. "conditions" \notin DOMAIN c /\ {"category", "decision_id", "schema_version"} \subseteq DOMAIN c
  BY <1>3, ContextChecks DEF Decoding
<1>5. /\ own_finding(Required("category"), c) = "valid"
      /\ own_finding(Required("decision_id"), c) = "valid"
      /\ own_finding(Required("schema_version"), c) = "valid"
  BY <1>2, ContextChecks, CheckIs DEF OwnPass
<1>6. /\ Member(c, "category") # <<"">> /\ Member(c, "decision_id") # <<"">>
      /\ Member(c, "schema_version") # <<"">>
  BY <1>5, RequiredPasses
<1>7. \A m \in {"category", "decision_id", "schema_version"} : c[m] # <<"">>
  BY <1>4, <1>6 DEF Member
<1>8. ASSUME NEW j \in DOMAIN Member(c, "obligations")
      PROVE  LET owed == Member(c, "obligations")[j]
             IN owed.type # <<"">> /\ owed.source_policy # <<"">> /\ Member(owed, "target") # <<"">>
  <2>1. /\ Nests(t, c, 5, j)
        /\ Inner(t, c, 5, j) = Member(c, "obligations")[j]
    BY <1>1, ContextChecks, ObjectLists DEF Nests, Inner, Contextual
  <2>2. IsObject(Member(c, "obligations")[j])
    BY DEF Contextual, ToSet
  <2>3. /\ validate_3("obligation", Member(c, "obligations")[j]) = "valid"
        /\ decodes_3("obligation", Member(c, "obligations")[j])
    BY <1>1, <1>2, <1>3, <2>1
  <2> QED
    BY <2>2, <2>3, ObligationIsWhole
<1>9. ASSUME NEW j \in DOMAIN Member(c, "approval")
      PROVE  Approvable(Member(c, "approval")[j])
  <2>1. /\ Nests(t, c, 6, j)
        /\ Inner(t, c, 6, j) = Member(c, "approval")[j]
    BY <1>1, ContextChecks, ObjectLists DEF Nests, Inner, Contextual
  <2>2. Approves(Member(c, "approval")[j])
    BY DEF Contextual, ToSet
  <2>3. /\ validate_3("approval_requirement", Member(c, "approval")[j]) = "valid"
        /\ decodes_3("approval_requirement", Member(c, "approval")[j])
    BY <1>1, <1>2, <1>3, <2>1
  <2> QED
    BY <2>2, <2>3, ApprovalIsPossible
<1> QED
  BY <1>4, <1>7, <1>8, <1>9 DEF ToSet

(* What AllowIsWhole says of a document.                                   *)
WholeAllow(d) ==
    LET context == Head(d.context)
    IN /\ d.decision = <<TRUE>> /\ Member(d, "context") # <<>>
       /\ context.profile = <<AUTHZEN_PROFILE_V1>> /\ context.state = <<"ALLOW">>
       /\ \A m \in {"category", "decision_id", "schema_version"} : context[m] # <<"">>
       /\ "conditions" \notin DOMAIN context
       /\ \A owed \in ToSet(Member(context, "obligations")) :
             owed.type # <<"">> /\ owed.source_policy # <<"">> /\ Member(owed, "target") # <<"">>
       /\ \A approval \in ToSet(Member(context, "approval")) : Approvable(approval)

LEMMA ResponseChecks ==
    /\ DOMAIN Types["authzen_response"].checks = 1 .. 1
    /\ Types["authzen_response"].checks[1] = Nested("context", "authzen_response_context")
<1>1. Types["authzen_response"].checks = <<Nested("context", "authzen_response_context")>>
  BY DEF Types, authzen_response, Type
<1> QED
  BY <1>1

LEMMA AllowedIsWhole ==
    ASSUME NEW d, Documented(d), decodes("authzen_response", d),
           from_response(d).value = <<"allowed">>
    PROVE  WholeAllow(d)
<1> DEFINE t == "authzen_response"
           checks == Types[t].checks
           context == Head(d.context)
<1>1. /\ Member(d, "context") # <<>> /\ context.profile = <<AUTHZEN_PROFILE_V1>>
      /\ validate(t, d) = "valid"
      /\ d.decision = <<TRUE>> /\ context.state = <<"ALLOW">>
  <2>1. \/ \E why : from_response(d) = Unusable(why)
        \/ \E reason : from_response(d) = Result("UnreadableProfile", 0, reason)
        \/ /\ Member(d, "context") # <<>> /\ context.profile = <<AUTHZEN_PROFILE_V1>>
           /\ validate(t, d) = "valid"
           /\ from_response(d) = Ok(IF allowed(d) THEN "allowed" ELSE "denied")
    BY DEF from_response
  <2>2. /\ Member(d, "context") # <<>> /\ context.profile = <<AUTHZEN_PROFILE_V1>>
        /\ validate(t, d) = "valid"
        /\ from_response(d) = Ok(IF allowed(d) THEN "allowed" ELSE "denied")
    <3>1. (\E why : from_response(d) = Unusable(why)) => from_response(d).value = <<>>
      BY ResultIs DEF Unusable
    <3>2. (\E reason : from_response(d) = Result("UnreadableProfile", 0, reason)) =>
             from_response(d).value = <<>>
      BY ResultIs
    <3> QED
      BY <2>1, <3>1, <3>2
  <2>3. allowed(d)
    <3>1. Ok(IF allowed(d) THEN "allowed" ELSE "denied").value =
             <<IF allowed(d) THEN "allowed" ELSE "denied">>
      BY DEF Ok, NoResult, Result
    <3> QED
      BY <2>2, <3>1
  <2> QED
    BY <2>2, <2>3 DEF allowed
<1>2. /\ Member(d, "context") = d.context /\ 1 \in DOMAIN d.context /\ context = d.context[1]
      /\ "context" \in DOMAIN d
  BY <1>1, ObjectLists DEF Documented
<1>3. /\ checks[1].kind = "nested" /\ checks[1].member = "context"
      /\ checks[1].arg = "authzen_response_context"
  BY ResponseChecks, CheckIs
<1>4. Nests(t, d, 1, 1) /\ Inner(t, d, 1, 1) = context
  BY <1>2, <1>3, ResponseChecks DEF Nests, Inner
<1>5. \A i, j : Nests(t, d, i, j) => validate_4(checks[i].arg, Inner(t, d, i, j)) = "valid"
  BY <1>1, ResponseChecks, ObjectIsListed, Validated DEF Documented
<1>6. \A i, j : Nests(t, d, i, j) => decodes_4(checks[i].arg, Inner(t, d, i, j))
  BY Decoded
<1>7. /\ validate_4("authzen_response_context", context) = "valid"
      /\ decodes_4("authzen_response_context", context)
  BY <1>3, <1>4, <1>5, <1>6
<1>8. Contextual(context)
  BY <1>2 DEF Documented, ToSet
<1> HIDE DEF context, t, checks
<1>9. /\ \A m \in {"category", "decision_id", "schema_version"} : context[m] # <<"">>
      /\ "conditions" \notin DOMAIN context
      /\ \A owed \in ToSet(Member(context, "obligations")) :
            owed.type # <<"">> /\ owed.source_policy # <<"">> /\ Member(owed, "target") # <<"">>
      /\ \A approval \in ToSet(Member(context, "approval")) : Approvable(approval)
  BY <1>7, <1>8, ContextIsWhole
<1> QED
  BY <1>1, <1>9 DEF WholeAllow, context

(* What the platform sends in answer to an evaluation, and what becomes of *)
(* it on the way, carries no document or one whose parts are JSON.         *)
LEMMA EvaluationsAreDocumented ==
    ASSUME NEW o, NEW a \in AuthzenAnswers(o)
    PROVE  a.doc = <<>> \/ \E d : Documented(d) /\ a.doc = <<d>>
<1>1. \/ \E d \in Verdicts : a = Decided(d)
      \/ \E status, body, meant : a = Plain(status, body, meant)
  <2>1. \/ \E d \in Verdicts : a = Decided(d)
        \/ a = Plain(422, "unsupported_action", "final")
        \/ a = Plain(401, "unauthenticated", "final")
        \/ a = Plain(503, "evaluation_unavailable", "transient")
        \/ a = Plain(500, "fault", "transient")
    BY DEF AuthzenAnswers
  <2> QED
    BY <2>1
<1>2. ASSUME NEW d \in Verdicts, a = Decided(d)
      PROVE  a.doc = <<d>>
  BY <1>2 DEF Decided, Plain
<1>3. CASE \E status, body, meant : a = Plain(status, body, meant)
  BY <1>3, PlainSays
<1> QED
  BY <1>1, <1>2, <1>3, VerdictsAssumption

LEMMA AllowedIsRead ==
    ASSUME NEW o, NEW a, AuthzenRead(o, a).value = <<"allowed">>
    PROVE  /\ is_success(a.status) /\ a.doc # <<>>
           /\ decodes("authzen_response", Head(a.doc))
           /\ from_response(Head(a.doc)).value = <<"allowed">>
<1>1. \/ AuthzenRead(o, a) = Result("Refused", a.status, a.body)
      \/ AuthzenRead(o, a) = Result("ApiError", a.status, a.body)
      \/ AuthzenRead(o, a) = Unusable("undecodable")
      \/ /\ is_success(a.status) /\ a.doc # <<>>
         /\ decodes("authzen_response", Head(a.doc))
         /\ AuthzenRead(o, a) = from_response(Head(a.doc))
  BY DEF AuthzenRead
<1>2. ASSUME NEW kind, NEW status, NEW reason
      PROVE  AuthzenRead(o, a) # Result(kind, status, reason)
  BY ResultIs
<1> QED
  BY <1>1, <1>2 DEF Unusable

(* An application that is told it is allowed has been given everything     *)
(* that constrains the allow, in a decision this build can read whole.     *)
THEOREM SessionAllowIsWhole ==
    ASSUME Surfaces
    PROVE  SessionSpec => []AllowIsWhole
<1>1. CallsAreRead => AllowIsWhole
  <2> SUFFICES ASSUME CallsAreRead, pc = "done", op.surface = "authzen",
                      result.value = <<"allowed">>
               PROVE  is_success(answer.status) /\ WholeAllow(Head(answer.doc))
    BY DEF AllowIsWhole, WholeAllow, Approvable
  <2>1. IsOperation(op)
    BY CalledIsOperation DEF CallsAreRead, OpTyped
  <2>2. Possible(op, answer) /\ result = Read(op, answer)
    BY DEF CallsAreRead, AnswerIsRead, Unanswered
  <2>3. Read(op, answer) = AuthzenRead(op, answer)
    BY DEF Surfaces, SessionRead
  <2>4. /\ is_success(answer.status) /\ answer.doc # <<>>
        /\ decodes("authzen_response", Head(answer.doc))
        /\ from_response(Head(answer.doc)).value = <<"allowed">>
    BY <2>2, <2>3, AllowedIsRead
  <2>5. ~Foreign(answer)
    BY <2>4 DEF Foreign
  <2>6. PICK done \in 0 .. MaxTries : answer \in Answers(op, done)
    BY <2>2, <2>5, OthersAreForeign DEF Possible
  <2>7. answer \in AuthzenAnswers(op)
    BY <2>6 DEF Surfaces, SessionAnswers
  <2>8. PICK d : Documented(d) /\ answer.doc = <<d>>
    BY <2>4, <2>7, EvaluationsAreDocumented
  <2>9. Head(answer.doc) = d
    BY <2>8
  <2> QED
    BY <2>4, <2>8, <2>9, AllowedIsWhole
<1> QED
  BY <1>1, Results, PTL

-----------------------------------------------------------------------------
(***************************************************************************)
(* The committed types are those of the artifact.  A loop of the generator *)
(* that writes one part for each field is FlattenSeq, whose recursion is   *)
(* followed as far as the longest type, eight fields, needs it.            *)
(***************************************************************************)

(* \o, to be expanded only where it is meant.                              *)
s ++ r == s \o r

(* What FlattenSeq builds up: the first, the first two, ... of ss in one.  *)
Flattens(f, ss, n) ==
    /\ f \in [1 .. n -> {f[i] : i \in 1 .. n}]
    /\ f[1] = ss[1]
    /\ \A i \in 2 .. n : f[i] = f[i - 1] ++ ss[i]

(* What has been built up for n can be built up for one more.              *)
LEMMA FlattensOneMore ==
    ASSUME NEW ss, NEW n \in Nat \ {0}, NEW f, Flattens(f, ss, n)
    PROVE  \E g : Flattens(g, ss, n + 1)
<1> DEFINE g == [i \in 1 .. n + 1 |-> IF i = n + 1 THEN f[n] ++ ss[n + 1] ELSE f[i]]
<1>1. ASSUME NEW i \in 2 .. n + 1
      PROVE  g[i] = g[i - 1] ++ ss[i]
  <2>1. CASE i = n + 1
    BY <2>1
  <2>2. CASE i # n + 1
    <3>1. f[i] = f[i - 1] ++ ss[i]
      BY <2>2 DEF Flattens
    <3>2. g[i] = f[i] /\ g[i - 1] = f[i - 1]
      BY <2>2
    <3> QED
      BY <3>1, <3>2
  <2> QED
    BY <2>1, <2>2
<1>2. g \in [1 .. n + 1 -> {g[i] : i \in 1 .. n + 1}]
  OBVIOUS
<1>3. g[1] = ss[1]
  BY DEF Flattens
<1> HIDE DEF g
<1>4. Flattens(g, ss, n + 1)
  BY <1>1, <1>2, <1>3 DEF Flattens
<1> QED
  BY <1>4

(* So it can be for any number up to eight.                                *)
LEMMA FlattensEight ==
    ASSUME NEW ss, NEW n \in 1 .. 8
    PROVE  \E f : Flattens(f, ss, n)
<1> DEFINE E(k) == \E f : Flattens(f, ss, k)
<1>1. E(1)
  <2>1. Flattens([i \in 1 .. 1 |-> ss[1]], ss, 1)
    BY DEF Flattens
  <2> QED
    BY <2>1
<1>2. ASSUME NEW k \in Nat \ {0}, E(k)
      PROVE  E(k + 1)
  BY <1>2, FlattensOneMore
<1> HIDE DEF E
<1>3. E(2) /\ E(3)
  <2>1. E(1 + 1)
    BY <1>1, <1>2
  <2>2. E(2 + 1)
    BY <1>2, <2>1
  <2> QED
    BY <2>1, <2>2
<1>4. E(4) /\ E(5)
  <2>1. E(3 + 1)
    BY <1>3, <1>2
  <2>2. E(4 + 1)
    BY <1>2, <2>1
  <2> QED
    BY <2>1, <2>2
<1>5. E(6) /\ E(7)
  <2>1. E(5 + 1)
    BY <1>4, <1>2
  <2>2. E(6 + 1)
    BY <1>2, <2>1
  <2> QED
    BY <2>1, <2>2
<1>6. E(7 + 1)
  BY <1>5, <1>2
<1>7. E(n)
  BY <1>1, <1>3, <1>4, <1>5, <1>6
<1> QED
  BY <1>7 DEF E

(* FlattenSeq is the last of what is built up.                             *)
LEMMA Flattening ==
    ASSUME NEW ss, NEW n \in 1 .. 8, Len(ss) = n
    PROVE  \E f : Flattens(f, ss, n) /\ FlattenSeq(ss) = f[n]
<1> DEFINE body(f) == [i \in 1 .. Len(ss) |-> IF i = 1 THEN ss[i] ELSE f[i - 1] ++ ss[i]]
           c == CHOOSE f : f = body(f)
<1>1. ASSUME NEW f, Flattens(f, ss, n)
      PROVE  f = body(f)
  <2>1. PICK b : b = body(f)
    OBVIOUS
  <2>2. ASSUME NEW i \in 1 .. n
        PROVE  b[i] = f[i]
    <3>1. i = 1 \/ i \in 2 .. n
      OBVIOUS
    <3> QED
      BY <1>1, <2>1, <3>1 DEF Flattens
  <2>3. PICK S : f \in [1 .. n -> S]
    BY <1>1 DEF Flattens
  <2>4. b \in [1 .. n -> S]
    <3>1. DOMAIN b = 1 .. n /\ b = [i \in 1 .. n |-> body(f)[i]]
      BY <2>1
    <3> HIDE DEF body
    <3> QED
      BY <2>2, <2>3, <3>1
  <2> HIDE DEF body
  <2>5. f = b
    BY <2>2, <2>3, <2>4
  <2> QED
    BY <2>1, <2>5
<1>2. c = body(c)
  <2> HIDE DEF body
  <2> QED
    BY <1>1, FlattensEight
<1>3. FlattenSeq(ss) = c[n]
  BY DEF FlattenSeq, ++
<1> HIDE DEF c
<1>4. Flattens(c, ss, n)
  <2>1. c \in [1 .. n -> {c[i] : i \in 1 .. n}]
    <3>1. PICK b : b = body(c)
      OBVIOUS
    <3>2. b \in [1 .. n -> {b[i] : i \in 1 .. n}]
      BY <3>1
    <3> QED
      BY <1>2, <3>1, <3>2
  <2>2. c[1] = ss[1]
    <3>1. body(c)[1] = ss[1]
      OBVIOUS
    <3> HIDE DEF body
    <3> QED
      BY <1>2, <3>1
  <2>3. ASSUME NEW i \in 2 .. n
        PROVE  c[i] = c[i - 1] ++ ss[i]
    <3>1. body(c)[i] = c[i - 1] ++ ss[i]
      OBVIOUS
    <3> HIDE DEF body
    <3> QED
      BY <1>2, <3>1
  <2> QED
    BY <2>1, <2>2, <2>3 DEF Flattens
<1> QED
  BY <1>3, <1>4

(* What is built up, spelled out.                                          *)
LEMMA FlatStep ==
    ASSUME NEW ss, NEW n \in 1 .. 8, NEW f, Flattens(f, ss, n)
    PROVE  /\ f[1] = ss[1]
           /\ n > 1 => f[2] = ss[1] ++ ss[2]
           /\ n > 2 => f[3] = f[2] ++ ss[3]
           /\ n > 3 => f[4] = f[3] ++ ss[4]
           /\ n > 4 => f[5] = f[4] ++ ss[5]
           /\ n > 5 => f[6] = f[5] ++ ss[6]
           /\ n > 6 => f[7] = f[6] ++ ss[7]
           /\ n > 7 => f[8] = f[7] ++ ss[8]
<1>1. ASSUME NEW i \in 2 .. n
      PROVE  f[i] = f[i - 1] ++ ss[i]
  BY DEF Flattens
<1>2. f[1] = ss[1]
  BY DEF Flattens
<1> QED
  BY <1>1, <1>2

(* Two, three, ... parts in one.                                           *)
LEMMA Flat2 ==
    ASSUME NEW a, NEW b
    PROVE  FlattenSeq(<<a, b>>) = a ++ b
<1>1. PICK ss : ss = <<a, b>>
  OBVIOUS
<1>2. PICK upto : Flattens(upto, ss, 2) /\ FlattenSeq(ss) = upto[2]
  <2>1. 2 \in 1 .. 8 /\ Len(ss) = 2
    BY <1>1
  <2> QED
    BY <2>1, Flattening
<1>3. /\ upto[2] = ss[1] ++ ss[2]
  BY <1>2, FlatStep
<1>4. ss[1] = a /\ ss[2] = b
  BY <1>1
<1> QED
  BY <1>1, <1>2, <1>3, <1>4

LEMMA Flat3 ==
    ASSUME NEW a, NEW b, NEW c
    PROVE  FlattenSeq(<<a, b, c>>) = a ++ b ++ c
<1>1. PICK ss : ss = <<a, b, c>>
  OBVIOUS
<1>2. PICK upto : Flattens(upto, ss, 3) /\ FlattenSeq(ss) = upto[3]
  <2>1. 3 \in 1 .. 8 /\ Len(ss) = 3
    BY <1>1
  <2> QED
    BY <2>1, Flattening
<1>3. /\ upto[2] = ss[1] ++ ss[2]
      /\ upto[3] = upto[2] ++ ss[3]
  BY <1>2, FlatStep
<1>4. ss[1] = a /\ ss[2] = b /\ ss[3] = c
  BY <1>1
<1> QED
  BY <1>1, <1>2, <1>3, <1>4

LEMMA Flat4 ==
    ASSUME NEW a, NEW b, NEW c, NEW d
    PROVE  FlattenSeq(<<a, b, c, d>>) = a ++ b ++ c ++ d
<1>1. PICK ss : ss = <<a, b, c, d>>
  OBVIOUS
<1>2. PICK upto : Flattens(upto, ss, 4) /\ FlattenSeq(ss) = upto[4]
  <2>1. 4 \in 1 .. 8 /\ Len(ss) = 4
    BY <1>1
  <2> QED
    BY <2>1, Flattening
<1>3. /\ upto[2] = ss[1] ++ ss[2]
      /\ upto[3] = upto[2] ++ ss[3]
      /\ upto[4] = upto[3] ++ ss[4]
  BY <1>2, FlatStep
<1>4. ss[1] = a /\ ss[2] = b /\ ss[3] = c /\ ss[4] = d
  BY <1>1
<1> QED
  BY <1>1, <1>2, <1>3, <1>4

LEMMA Flat5 ==
    ASSUME NEW a, NEW b, NEW c, NEW d, NEW e
    PROVE  FlattenSeq(<<a, b, c, d, e>>) = a ++ b ++ c ++ d ++ e
<1>1. PICK ss : ss = <<a, b, c, d, e>>
  OBVIOUS
<1>2. PICK upto : Flattens(upto, ss, 5) /\ FlattenSeq(ss) = upto[5]
  <2>1. 5 \in 1 .. 8 /\ Len(ss) = 5
    BY <1>1
  <2> QED
    BY <2>1, Flattening
<1>3. /\ upto[2] = ss[1] ++ ss[2]
      /\ upto[3] = upto[2] ++ ss[3]
      /\ upto[4] = upto[3] ++ ss[4]
      /\ upto[5] = upto[4] ++ ss[5]
  BY <1>2, FlatStep
<1>4. ss[1] = a /\ ss[2] = b /\ ss[3] = c /\ ss[4] = d /\ ss[5] = e
  BY <1>1
<1> QED
  BY <1>1, <1>2, <1>3, <1>4

LEMMA Flat6 ==
    ASSUME NEW a, NEW b, NEW c, NEW d, NEW e, NEW f
    PROVE  FlattenSeq(<<a, b, c, d, e, f>>) = a ++ b ++ c ++ d ++ e ++ f
<1>1. PICK ss : ss = <<a, b, c, d, e, f>>
  OBVIOUS
<1>2. PICK upto : Flattens(upto, ss, 6) /\ FlattenSeq(ss) = upto[6]
  <2>1. 6 \in 1 .. 8 /\ Len(ss) = 6
    BY <1>1
  <2> QED
    BY <2>1, Flattening
<1>3. /\ upto[2] = ss[1] ++ ss[2]
      /\ upto[3] = upto[2] ++ ss[3]
      /\ upto[4] = upto[3] ++ ss[4]
      /\ upto[5] = upto[4] ++ ss[5]
      /\ upto[6] = upto[5] ++ ss[6]
  BY <1>2, FlatStep
<1>4. ss[1] = a /\ ss[2] = b /\ ss[3] = c /\ ss[4] = d /\ ss[5] = e /\ ss[6] = f
  BY <1>1
<1> QED
  BY <1>1, <1>2, <1>3, <1>4

LEMMA Flat8 ==
    ASSUME NEW a, NEW b, NEW c, NEW d, NEW e, NEW f, NEW g, NEW h
    PROVE  FlattenSeq(<<a, b, c, d, e, f, g, h>>) = a ++ b ++ c ++ d ++ e ++ f ++ g ++ h
<1>1. PICK ss : ss = <<a, b, c, d, e, f, g, h>>
  OBVIOUS
<1>2. PICK upto : Flattens(upto, ss, 8) /\ FlattenSeq(ss) = upto[8]
  <2>1. 8 \in 1 .. 8 /\ Len(ss) = 8
    BY <1>1
  <2> QED
    BY <2>1, Flattening
<1>3. /\ upto[2] = ss[1] ++ ss[2]
      /\ upto[3] = upto[2] ++ ss[3]
      /\ upto[4] = upto[3] ++ ss[4]
      /\ upto[5] = upto[4] ++ ss[5]
      /\ upto[6] = upto[5] ++ ss[6]
      /\ upto[7] = upto[6] ++ ss[7]
      /\ upto[8] = upto[7] ++ ss[8]
  BY <1>2, FlatStep
<1>4. ss[1] = a /\ ss[2] = b /\ ss[3] = c /\ ss[4] = d /\ ss[5] = e /\ ss[6] = f /\ ss[7] = g
      /\ ss[8] = h
  BY <1>1
<1> QED
  BY <1>1, <1>2, <1>3, <1>4

-----------------------------------------------------------------------------
(* Sequences of one more element, of two and of four more.                 *)

LEMMA Grows1 ==
    ASSUME NEW a, NEW b
    PROVE  <<a>> \o <<b>> = <<a, b>> /\ <<a>> ++ <<b>> = <<a, b>>
<1>1. PICK s, T : s = <<a>> /\ T = {a, b}
  OBVIOUS
<1>2. s \in Seq(T) /\ b \in T /\ Len(s) = 1
  BY <1>1
<1>3. PICK u : u = Append(s, b)
  OBVIOUS
<1>4. /\ u \in Seq(T) /\ Len(u) = 2
      /\ u[1] = a /\ u[2] = b
  BY <1>1, <1>2, <1>3
<1>5. u = <<a, b>>
  BY <1>4
<1>6. s \o <<b>> = Append(s, b)
  BY <1>2
<1> QED
  BY <1>1, <1>3, <1>5, <1>6 DEF ++

LEMMA Grows2 ==
    ASSUME NEW a, NEW b, NEW c
    PROVE  <<a, b>> \o <<c>> = <<a, b, c>> /\ <<a, b>> ++ <<c>> = <<a, b, c>>
<1>1. PICK s, T : s = <<a, b>> /\ T = {a, b, c}
  OBVIOUS
<1>2. s \in Seq(T) /\ c \in T /\ Len(s) = 2
  BY <1>1
<1>3. PICK u : u = Append(s, c)
  OBVIOUS
<1>4. /\ u \in Seq(T) /\ Len(u) = 3
      /\ u[1] = a /\ u[2] = b /\ u[3] = c
  BY <1>1, <1>2, <1>3
<1>5. u = <<a, b, c>>
  BY <1>4
<1>6. s \o <<c>> = Append(s, c)
  BY <1>2
<1> QED
  BY <1>1, <1>3, <1>5, <1>6 DEF ++

LEMMA Grows3 ==
    ASSUME NEW a, NEW b, NEW c, NEW d
    PROVE  <<a, b, c>> \o <<d>> = <<a, b, c, d>> /\ <<a, b, c>> ++ <<d>> = <<a, b, c, d>>
<1>1. PICK s, T : s = <<a, b, c>> /\ T = {a, b, c, d}
  OBVIOUS
<1>2. s \in Seq(T) /\ d \in T /\ Len(s) = 3
  BY <1>1
<1>3. PICK u : u = Append(s, d)
  OBVIOUS
<1>4. /\ u \in Seq(T) /\ Len(u) = 4
      /\ u[1] = a /\ u[2] = b /\ u[3] = c /\ u[4] = d
  BY <1>1, <1>2, <1>3
<1>5. u = <<a, b, c, d>>
  BY <1>4
<1>6. s \o <<d>> = Append(s, d)
  BY <1>2
<1> QED
  BY <1>1, <1>3, <1>5, <1>6 DEF ++

LEMMA Grows4 ==
    ASSUME NEW a, NEW b, NEW c, NEW d, NEW e
    PROVE  <<a, b, c, d>> \o <<e>> = <<a, b, c, d, e>>
           /\ <<a, b, c, d>> ++ <<e>> = <<a, b, c, d, e>>
<1>1. PICK s, T : s = <<a, b, c, d>> /\ T = {a, b, c, d, e}
  OBVIOUS
<1>2. s \in Seq(T) /\ e \in T /\ Len(s) = 4
  BY <1>1
<1>3. PICK u : u = Append(s, e)
  OBVIOUS
<1>4. /\ u \in Seq(T) /\ Len(u) = 5
      /\ u[1] = a /\ u[2] = b /\ u[3] = c /\ u[4] = d /\ u[5] = e
  BY <1>1, <1>2, <1>3
<1>5. u = <<a, b, c, d, e>>
  BY <1>4
<1>6. s \o <<e>> = Append(s, e)
  BY <1>2
<1> QED
  BY <1>1, <1>3, <1>5, <1>6 DEF ++

LEMMA Grows5 ==
    ASSUME NEW a, NEW b, NEW c, NEW d, NEW e, NEW f
    PROVE  <<a, b, c, d, e>> \o <<f>> = <<a, b, c, d, e, f>>
           /\ <<a, b, c, d, e>> ++ <<f>> = <<a, b, c, d, e, f>>
<1>1. PICK s, T : s = <<a, b, c, d, e>> /\ T = {a, b, c, d, e, f}
  OBVIOUS
<1>2. s \in Seq(T) /\ f \in T /\ Len(s) = 5
  BY <1>1
<1>3. PICK u : u = Append(s, f)
  OBVIOUS
<1>4. /\ u \in Seq(T) /\ Len(u) = 6
      /\ u[1] = a /\ u[2] = b /\ u[3] = c /\ u[4] = d /\ u[5] = e /\ u[6] = f
  BY <1>1, <1>2, <1>3
<1>5. u = <<a, b, c, d, e, f>>
  BY <1>4
<1>6. s \o <<f>> = Append(s, f)
  BY <1>2
<1> QED
  BY <1>1, <1>3, <1>5, <1>6 DEF ++

LEMMA Grows6 ==
    ASSUME NEW a, NEW b, NEW c, NEW d, NEW e, NEW f, NEW g
    PROVE  <<a, b, c, d, e, f>> \o <<g>> = <<a, b, c, d, e, f, g>>
           /\ <<a, b, c, d, e, f>> ++ <<g>> = <<a, b, c, d, e, f, g>>
<1>1. PICK s, T : s = <<a, b, c, d, e, f>> /\ T = {a, b, c, d, e, f, g}
  OBVIOUS
<1>2. s \in Seq(T) /\ g \in T /\ Len(s) = 6
  BY <1>1
<1>3. PICK u : u = Append(s, g)
  OBVIOUS
<1>4. /\ u \in Seq(T) /\ Len(u) = 7
      /\ u[1] = a /\ u[2] = b /\ u[3] = c /\ u[4] = d /\ u[5] = e /\ u[6] = f /\ u[7] = g
  BY <1>1, <1>2, <1>3
<1>5. u = <<a, b, c, d, e, f, g>>
  BY <1>4
<1>6. s \o <<g>> = Append(s, g)
  BY <1>2
<1> QED
  BY <1>1, <1>3, <1>5, <1>6 DEF ++

LEMMA Grows7 ==
    ASSUME NEW a, NEW b, NEW c, NEW d, NEW e, NEW f, NEW g, NEW h
    PROVE  <<a, b, c, d, e, f, g>> \o <<h>> = <<a, b, c, d, e, f, g, h>>
           /\ <<a, b, c, d, e, f, g>> ++ <<h>> = <<a, b, c, d, e, f, g, h>>
<1>1. PICK s, T : s = <<a, b, c, d, e, f, g>> /\ T = {a, b, c, d, e, f, g, h}
  OBVIOUS
<1>2. s \in Seq(T) /\ h \in T /\ Len(s) = 7
  BY <1>1
<1>3. PICK u : u = Append(s, h)
  OBVIOUS
<1>4. /\ u \in Seq(T) /\ Len(u) = 8
      /\ u[1] = a /\ u[2] = b /\ u[3] = c /\ u[4] = d /\ u[5] = e /\ u[6] = f /\ u[7] = g
         /\ u[8] = h
  BY <1>1, <1>2, <1>3
<1>5. u = <<a, b, c, d, e, f, g, h>>
  BY <1>4
<1>6. s \o <<h>> = Append(s, h)
  BY <1>2
<1> QED
  BY <1>1, <1>3, <1>5, <1>6 DEF ++

LEMMA GrowsByTwo ==
    ASSUME NEW T, NEW s \in Seq(T), NEW x \in T, NEW y \in T
    PROVE  s ++ <<x, y>> = s ++ <<x>> ++ <<y>>
<1>1. s \o <<x, y>> = Append(Append(s, x), y)
  OBVIOUS
<1>2. PICK r : r = s \o <<x>>
  OBVIOUS
<1>3. r \in Seq(T) /\ r = Append(s, x)
  BY <1>2
<1>4. r \o <<y>> = Append(r, y)
  BY <1>3
<1> QED
  BY <1>1, <1>2, <1>3, <1>4 DEF ++

LEMMA GrowsByFour ==
    ASSUME NEW T, NEW s \in Seq(T), NEW a \in T, NEW b \in T, NEW c \in T, NEW d \in T
    PROVE  s ++ <<a, b, c, d>> = s ++ <<a, b>> ++ <<c, d>>
<1>1. s \o <<a, b, c, d>> = Append(Append(Append(Append(s, a), b), c), d)
  OBVIOUS
<1>2. PICK r : r = s \o <<a, b>>
  OBVIOUS
<1>3. r \in Seq(T) /\ r = Append(Append(s, a), b)
  BY <1>2
<1>4. r \o <<c, d>> = Append(Append(r, c), d)
  BY <1>3
<1> QED
  BY <1>1, <1>2, <1>3, <1>4 DEF ++

-----------------------------------------------------------------------------
(* Of the seven parts of a field's checks one is there, or two are.        *)
LEMMA OneOfSeven ==
    ASSUME NEW x
    PROVE  /\ <<x>> \o <<>> \o <<>> \o <<>> \o <<>> \o <<>> \o <<>> = <<x>>
           /\ <<>> \o <<x>> \o <<>> \o <<>> \o <<>> \o <<>> \o <<>> = <<x>>
           /\ <<>> \o <<>> \o <<>> \o <<>> \o <<>> \o <<x>> \o <<>> = <<x>>
           /\ <<>> \o <<>> \o <<>> \o <<>> \o <<>> \o <<>> \o <<x>> = <<x>>
<1>1. <<x>> \in Seq({x})
  OBVIOUS
<1>2. <<x>> \o <<>> = <<x>> /\ <<>> \o <<x>> = <<x>> /\ <<>> \o <<>> = <<>>
  BY <1>1
<1> QED
  BY <1>2

LEMMA FirstAndThird ==
    ASSUME NEW x, NEW y
    PROVE  <<x>> \o <<>> \o <<y>> \o <<>> \o <<>> \o <<>> \o <<>> = <<x, y>>
<1>1. PICK T : x \in T /\ y \in T
  <2>1. x \in {x, y} /\ y \in {x, y}
    OBVIOUS
  <2> QED
    BY <2>1
<1>2. <<x>> \in Seq(T)
  BY <1>1
<1>3. <<y>> \in Seq(T)
  BY <1>1
<1>4. PICK s, r : s = <<x>> /\ r = <<y>>
  OBVIOUS
<1>5. PICK u : u = s \o r
  OBVIOUS
<1>6. s \in Seq(T) /\ r \in Seq(T) /\ u \in Seq(T)
  BY <1>2, <1>3, <1>4, <1>5
<1>7. <<>> \o s = s /\ s \o <<>> = s /\ u \o <<>> = u
  BY <1>6
<1>8. s \o <<>> \o r \o <<>> \o <<>> \o <<>> \o <<>> = u
  BY <1>5, <1>7
<1>9. <<x>> \o <<y>> = <<x, y>>
  BY Grows1
<1> QED
  BY <1>4, <1>5, <1>8, <1>9

LEMMA FourthAndSixth ==
    ASSUME NEW x, NEW y
    PROVE  <<>> \o <<>> \o <<>> \o <<x>> \o <<>> \o <<y>> \o <<>> = <<x, y>>
<1>1. PICK T : x \in T /\ y \in T
  <2>1. x \in {x, y} /\ y \in {x, y}
    OBVIOUS
  <2> QED
    BY <2>1
<1>2. <<x>> \in Seq(T)
  BY <1>1
<1>3. <<y>> \in Seq(T)
  BY <1>1
<1>4. PICK s, r : s = <<x>> /\ r = <<y>>
  OBVIOUS
<1>5. PICK u : u = s \o r
  OBVIOUS
<1>6. s \in Seq(T) /\ r \in Seq(T) /\ u \in Seq(T)
  BY <1>2, <1>3, <1>4, <1>5
<1>7. <<>> \o s = s /\ s \o <<>> = s /\ u \o <<>> = u
  BY <1>6
<1>8. <<>> \o <<>> \o <<>> \o s \o <<>> \o r \o <<>> = u
  BY <1>5, <1>7
<1>9. <<x>> \o <<y>> = <<x, y>>
  BY Grows1
<1> QED
  BY <1>4, <1>5, <1>8, <1>9

LEMMA FifthAndSixth ==
    ASSUME NEW x, NEW y, NEW z, NEW v
    PROVE  <<>> \o <<>> \o <<>> \o <<>> \o <<x, y, z>> \o <<v>> \o <<>> = <<x, y, z, v>>
<1>1. PICK T : x \in T /\ y \in T /\ z \in T /\ v \in T
  <2>1. x \in {x, y, z, v} /\ y \in {x, y, z, v} /\ z \in {x, y, z, v} /\ v \in {x, y, z, v}
    OBVIOUS
  <2> QED
    BY <2>1
<1>2. <<x, y, z>> \in Seq(T)
  BY <1>1
<1>3. <<v>> \in Seq(T)
  BY <1>1
<1>4. PICK s, r : s = <<x, y, z>> /\ r = <<v>>
  OBVIOUS
<1>5. PICK u : u = s \o r
  OBVIOUS
<1>6. s \in Seq(T) /\ r \in Seq(T) /\ u \in Seq(T)
  BY <1>2, <1>3, <1>4, <1>5
<1>7. <<>> \o s = s /\ s \o <<>> = s /\ u \o <<>> = u
  BY <1>6
<1>8. <<>> \o <<>> \o <<>> \o <<>> \o s \o r \o <<>> = u
  BY <1>5, <1>7
<1>9. <<x, y, z>> \o <<v>> = <<x, y, z, v>>
  BY Grows3
<1> QED
  BY <1>4, <1>5, <1>8, <1>9

LEMMA ThreeBases ==
    ASSUME NEW n, NEW a, NEW b, NEW c, NEW r, r = <<a, b, c>>,
           NEW x, NEW y, NEW z, x = Base(n, a), y = Base(n, b), z = Base(n, c)
    PROVE  [i \in DOMAIN r |-> Base(n, r[i])] = <<x, y, z>>
OBVIOUS

Lean(f) == f.requires = <<>> /\ f.const = "" /\ ~(f.min_items > 0)

Unsized(f) == ~(f.min_length > 0 /\ (~f.required \/ f.min_length > 1))

LEMMA LeanBases ==
    ASSUME NEW f, f.requires = <<>>
    PROVE  [i \in DOMAIN f.requires |-> Base(f.name, f.requires[i])] = <<>>
OBVIOUS

(* What a field gets that is needed, bounded, constant, a part, ...        *)
LEMMA EmitsRequired ==
    ASSUME NEW f, f.required, f.kind \in {"string", "enum"}, Unsized(f), Lean(f)
    PROVE  emit_checks(f) = <<Required(f.name)>>
<1>1. PICK x : x = Required(f.name)
  OBVIOUS
<1>2. /\ When(f.required /\ f.kind \in {"string", "enum"}, Required(f.name)) = <<x>>
      /\ When(f.min_length > 0 /\ (~f.required \/ f.min_length > 1), MinLength(f.name)) = <<>>
      /\ When(f.const # "", Const(f.name, f.const)) = <<>>
      /\ When(f.min_items > 0, MinItems(f.name)) = <<>>
      /\ [i \in DOMAIN f.requires |-> Base(f.name, f.requires[i])] = <<>>
      /\ When(f.kind \in {"ref", "refs"}, Nested(f.name, f.of)) = <<>>
      /\ When(f.kind = "object", Bag(f.name)) = <<>>
  BY <1>1, LeanBases DEF When, Lean, Unsized
<1>3. <<x>> \o <<>> \o <<>> \o <<>> \o <<>> \o <<>> \o <<>> = <<x>>
  BY OneOfSeven
<1> QED
  BY <1>1, <1>2, <1>3 DEF emit_checks

LEMMA EmitsNothing ==
    ASSUME NEW f, ~(f.required /\ f.kind \in {"string", "enum"}), Unsized(f), Lean(f),
           f.kind \notin {"ref", "refs", "object"}
    PROVE  emit_checks(f) = <<>>
<1>1. /\ When(f.required /\ f.kind \in {"string", "enum"}, Required(f.name)) = <<>>
      /\ When(f.min_length > 0 /\ (~f.required \/ f.min_length > 1), MinLength(f.name)) = <<>>
      /\ When(f.const # "", Const(f.name, f.const)) = <<>>
      /\ When(f.min_items > 0, MinItems(f.name)) = <<>>
      /\ [i \in DOMAIN f.requires |-> Base(f.name, f.requires[i])] = <<>>
      /\ When(f.kind \in {"ref", "refs"}, Nested(f.name, f.of)) = <<>>
      /\ When(f.kind = "object", Bag(f.name)) = <<>>
  BY LeanBases DEF When, Lean, Unsized
<1>2. <<>> \o <<>> \o <<>> \o <<>> \o <<>> \o <<>> \o <<>> = <<>>
  OBVIOUS
<1> QED
  BY <1>1, <1>2 DEF emit_checks

LEMMA EmitsLength ==
    ASSUME NEW f, ~f.required, f.min_length > 0, Lean(f), f.kind \notin {"ref", "refs", "object"}
    PROVE  emit_checks(f) = <<MinLength(f.name)>>
<1>1. PICK x : x = MinLength(f.name)
  OBVIOUS
<1>2. /\ When(f.required /\ f.kind \in {"string", "enum"}, Required(f.name)) = <<>>
      /\ When(f.min_length > 0 /\ (~f.required \/ f.min_length > 1), MinLength(f.name)) = <<x>>
      /\ When(f.const # "", Const(f.name, f.const)) = <<>>
      /\ When(f.min_items > 0, MinItems(f.name)) = <<>>
      /\ [i \in DOMAIN f.requires |-> Base(f.name, f.requires[i])] = <<>>
      /\ When(f.kind \in {"ref", "refs"}, Nested(f.name, f.of)) = <<>>
      /\ When(f.kind = "object", Bag(f.name)) = <<>>
  BY <1>1, LeanBases DEF When, Lean, Unsized
<1>3. <<>> \o <<x>> \o <<>> \o <<>> \o <<>> \o <<>> \o <<>> = <<x>>
  BY OneOfSeven
<1> QED
  BY <1>1, <1>2, <1>3 DEF emit_checks

LEMMA EmitsConst ==
    ASSUME NEW f, f.required, f.kind = "string", Unsized(f), f.const # "",
           ~(f.min_items > 0), f.requires = <<>>
    PROVE  emit_checks(f) = <<Required(f.name), Const(f.name, f.const)>>
<1>1. PICK x, y : x = Required(f.name) /\ y = Const(f.name, f.const)
  OBVIOUS
<1>2. /\ When(f.required /\ f.kind \in {"string", "enum"}, Required(f.name)) = <<x>>
      /\ When(f.min_length > 0 /\ (~f.required \/ f.min_length > 1), MinLength(f.name)) = <<>>
      /\ When(f.const # "", Const(f.name, f.const)) = <<y>>
      /\ When(f.min_items > 0, MinItems(f.name)) = <<>>
      /\ [i \in DOMAIN f.requires |-> Base(f.name, f.requires[i])] = <<>>
      /\ When(f.kind \in {"ref", "refs"}, Nested(f.name, f.of)) = <<>>
      /\ When(f.kind = "object", Bag(f.name)) = <<>>
  BY <1>1, LeanBases DEF When, Lean, Unsized
<1>3. <<x>> \o <<>> \o <<y>> \o <<>> \o <<>> \o <<>> \o <<>> = <<x, y>>
  BY FirstAndThird
<1> QED
  BY <1>1, <1>2, <1>3 DEF emit_checks

LEMMA EmitsItems ==
    ASSUME NEW f, f.kind = "refs", f.min_items > 0, Unsized(f), f.const = "", f.requires = <<>>
    PROVE  emit_checks(f) = <<MinItems(f.name), Nested(f.name, f.of)>>
<1>1. PICK x, y : x = MinItems(f.name) /\ y = Nested(f.name, f.of)
  OBVIOUS
<1>2. /\ When(f.required /\ f.kind \in {"string", "enum"}, Required(f.name)) = <<>>
      /\ When(f.min_length > 0 /\ (~f.required \/ f.min_length > 1), MinLength(f.name)) = <<>>
      /\ When(f.const # "", Const(f.name, f.const)) = <<>>
      /\ When(f.min_items > 0, MinItems(f.name)) = <<x>>
      /\ [i \in DOMAIN f.requires |-> Base(f.name, f.requires[i])] = <<>>
      /\ When(f.kind \in {"ref", "refs"}, Nested(f.name, f.of)) = <<y>>
      /\ When(f.kind = "object", Bag(f.name)) = <<>>
  BY <1>1, LeanBases DEF When, Lean, Unsized
<1>3. <<>> \o <<>> \o <<>> \o <<x>> \o <<>> \o <<y>> \o <<>> = <<x, y>>
  BY FourthAndSixth
<1> QED
  BY <1>1, <1>2, <1>3 DEF emit_checks

LEMMA EmitsBases ==
    ASSUME NEW f, NEW a, NEW b, NEW c, f.kind = "ref", f.requires = <<a, b, c>>,
           Unsized(f), f.const = "", ~(f.min_items > 0)
    PROVE  emit_checks(f)
               = <<Base(f.name, a), Base(f.name, b), Base(f.name, c), Nested(f.name, f.of)>>
<1>1. PICK x, y, z, v : x = Base(f.name, a) /\ y = Base(f.name, b) /\ z = Base(f.name, c)
      /\ v = Nested(f.name, f.of)
  OBVIOUS
<1>2. [i \in DOMAIN f.requires |-> Base(f.name, f.requires[i])] = <<x, y, z>>
  <2>1. PICK r, n : r = f.requires /\ n = f.name
    OBVIOUS
  <2>2. r = <<a, b, c>>
    BY <2>1
  <2>3. x = Base(n, a) /\ y = Base(n, b) /\ z = Base(n, c)
    BY <1>1, <2>1
  <2>4. [i \in DOMAIN r |-> Base(n, r[i])] = <<x, y, z>>
    BY ONLY <2>2, <2>3, ThreeBases
  <2> QED
    BY <2>1, <2>4
<1>3. /\ When(f.required /\ f.kind \in {"string", "enum"}, Required(f.name)) = <<>>
      /\ When(f.min_length > 0 /\ (~f.required \/ f.min_length > 1), MinLength(f.name)) = <<>>
      /\ When(f.const # "", Const(f.name, f.const)) = <<>>
      /\ When(f.min_items > 0, MinItems(f.name)) = <<>>
      /\ When(f.kind \in {"ref", "refs"}, Nested(f.name, f.of)) = <<v>>
      /\ When(f.kind = "object", Bag(f.name)) = <<>>
  BY <1>1 DEF When, Lean, Unsized
<1>4. <<>> \o <<>> \o <<>> \o <<>> \o <<x, y, z>> \o <<v>> \o <<>> = <<x, y, z, v>>
  BY FifthAndSixth
<1> QED
  BY <1>1, <1>2, <1>3, <1>4 DEF emit_checks

LEMMA EmitsNested ==
    ASSUME NEW f, f.kind \in {"ref", "refs"}, Unsized(f), Lean(f)
    PROVE  emit_checks(f) = <<Nested(f.name, f.of)>>
<1>1. PICK x : x = Nested(f.name, f.of)
  OBVIOUS
<1>2. /\ When(f.required /\ f.kind \in {"string", "enum"}, Required(f.name)) = <<>>
      /\ When(f.min_length > 0 /\ (~f.required \/ f.min_length > 1), MinLength(f.name)) = <<>>
      /\ When(f.const # "", Const(f.name, f.const)) = <<>>
      /\ When(f.min_items > 0, MinItems(f.name)) = <<>>
      /\ [i \in DOMAIN f.requires |-> Base(f.name, f.requires[i])] = <<>>
      /\ When(f.kind \in {"ref", "refs"}, Nested(f.name, f.of)) = <<x>>
      /\ When(f.kind = "object", Bag(f.name)) = <<>>
  BY <1>1, LeanBases DEF When, Lean, Unsized
<1>3. <<>> \o <<>> \o <<>> \o <<>> \o <<>> \o <<x>> \o <<>> = <<x>>
  BY OneOfSeven
<1> QED
  BY <1>1, <1>2, <1>3 DEF emit_checks

LEMMA EmitsBag ==
    ASSUME NEW f, f.kind = "object", Unsized(f), Lean(f)
    PROVE  emit_checks(f) = <<Bag(f.name)>>
<1>1. PICK x : x = Bag(f.name)
  OBVIOUS
<1>2. /\ When(f.required /\ f.kind \in {"string", "enum"}, Required(f.name)) = <<>>
      /\ When(f.min_length > 0 /\ (~f.required \/ f.min_length > 1), MinLength(f.name)) = <<>>
      /\ When(f.const # "", Const(f.name, f.const)) = <<>>
      /\ When(f.min_items > 0, MinItems(f.name)) = <<>>
      /\ [i \in DOMAIN f.requires |-> Base(f.name, f.requires[i])] = <<>>
      /\ When(f.kind \in {"ref", "refs"}, Nested(f.name, f.of)) = <<>>
      /\ When(f.kind = "object", Bag(f.name)) = <<x>>
  BY <1>1, LeanBases DEF When, Lean, Unsized
<1>3. <<>> \o <<>> \o <<>> \o <<>> \o <<>> \o <<>> \o <<x>> = <<x>>
  BY OneOfSeven
<1> QED
  BY <1>1, <1>2, <1>3 DEF emit_checks

-----------------------------------------------------------------------------
(* The fields of the artifact: what each is called, whether it is needed,  *)
(* that parse_surface takes it, and its checks.                            *)

LEMMA WordField ==
    ASSUME NEW n, NEW f, f = Word(n)
    PROVE  /\ f.name = n /\ f.required
           /\ check_ref(f)
           /\ emit_checks(f) = <<Required(n)>>
<1>1. f.name = n /\ f.kind = "string" /\ f.required
  BY DEF Word, Needed, Filled, Text, Field
<1>2. Unsized(f) /\ Lean(f)
  <2>1. f.min_length = 1 /\ f.min_items = 0
    BY DEF Word, Needed, Filled, Text, Field
  <2>2. Unsized(f) /\ ~(f.min_items > 0)
    BY ONLY <1>1, <2>1 DEF Unsized
  <2>3. f.const = ""
    BY DEF Word, Needed, Filled, Text, Field
  <2>4. f.requires = <<>>
    BY DEF Word, Needed, Filled, Text, Field
  <2> QED
    BY <2>2, <2>3, <2>4 DEF Lean
<1>3. check_ref(f)
  BY <1>1, <1>2 DEF check_ref, Lean
<1>4. emit_checks(f) = <<Required(n)>>
  BY <1>1, <1>2, EmitsRequired
<1> QED
  BY <1>1, <1>3, <1>4

LEMMA TextField ==
    ASSUME NEW n, NEW f, f = Text(n)
    PROVE  /\ f.name = n /\ ~f.required
           /\ check_ref(f)
           /\ emit_checks(f) = <<>>
<1>1. f.name = n /\ f.kind = "string" /\ ~f.required
  BY DEF Text, Field
<1>2. Unsized(f) /\ Lean(f)
  <2>1. f.min_length = 0 /\ f.min_items = 0
    BY DEF Text, Field
  <2>2. Unsized(f) /\ ~(f.min_items > 0)
    BY ONLY <2>1 DEF Unsized
  <2>3. f.const = ""
    BY DEF Text, Field
  <2>4. f.requires = <<>>
    BY DEF Text, Field
  <2> QED
    BY <2>2, <2>3, <2>4 DEF Lean
<1>3. check_ref(f)
  BY <1>1, <1>2 DEF check_ref, Lean
<1>4. emit_checks(f) = <<>>
  BY <1>1, <1>2, EmitsNothing
<1> QED
  BY <1>1, <1>3, <1>4

LEMMA NeededText ==
    ASSUME NEW n, NEW f, f = Needed(Text(n))
    PROVE  /\ f.name = n /\ f.required
           /\ check_ref(f)
           /\ emit_checks(f) = <<Required(n)>>
<1>1. f.name = n /\ f.kind = "string" /\ f.required
  BY DEF Needed, Text, Field
<1>2. Unsized(f) /\ Lean(f)
  <2>1. f.min_length = 0 /\ f.min_items = 0
    BY DEF Needed, Text, Field
  <2>2. Unsized(f) /\ ~(f.min_items > 0)
    BY ONLY <2>1 DEF Unsized
  <2>3. f.const = ""
    BY DEF Needed, Text, Field
  <2>4. f.requires = <<>>
    BY DEF Needed, Text, Field
  <2> QED
    BY <2>2, <2>3, <2>4 DEF Lean
<1>3. check_ref(f)
  BY <1>1, <1>2 DEF check_ref, Lean
<1>4. emit_checks(f) = <<Required(n)>>
  BY <1>1, <1>2, EmitsRequired
<1> QED
  BY <1>1, <1>3, <1>4

LEMMA PlainField ==
    ASSUME NEW n, NEW k, NEW f, f = Plain0(n, k), k \in {"int", "bool"}
    PROVE  /\ f.name = n /\ f.required
           /\ check_ref(f)
           /\ emit_checks(f) = <<>>
<1>1. f.name = n /\ f.kind = k /\ f.required
  BY DEF Plain0, Needed, Field
<1>2. Unsized(f) /\ Lean(f)
  <2>1. f.min_length = 0 /\ f.min_items = 0
    BY DEF Plain0, Needed, Field
  <2>2. Unsized(f) /\ ~(f.min_items > 0)
    BY ONLY <2>1 DEF Unsized
  <2>3. f.const = ""
    BY DEF Plain0, Needed, Field
  <2>4. f.requires = <<>>
    BY DEF Plain0, Needed, Field
  <2> QED
    BY <2>2, <2>3, <2>4 DEF Lean
<1>3. check_ref(f)
  BY <1>1, <1>2 DEF check_ref, Lean
<1>4. emit_checks(f) = <<>>
  BY <1>1, <1>2, EmitsNothing
<1> QED
  BY <1>1, <1>3, <1>4

LEMMA OtherField ==
    ASSUME NEW n, NEW k, NEW f, f = Field(n, k, ""), k \in {"array", "map"}
    PROVE  /\ f.name = n /\ ~f.required
           /\ check_ref(f)
           /\ emit_checks(f) = <<>>
<1>1. f.name = n /\ f.kind = k /\ ~f.required
  BY DEF Field
<1>2. Unsized(f) /\ Lean(f)
  <2>1. f.min_length = 0 /\ f.min_items = 0
    BY DEF Field
  <2>2. Unsized(f) /\ ~(f.min_items > 0)
    BY ONLY <2>1 DEF Unsized
  <2>3. f.const = ""
    BY DEF Field
  <2>4. f.requires = <<>>
    BY DEF Field
  <2> QED
    BY <2>2, <2>3, <2>4 DEF Lean
<1>3. check_ref(f)
  BY <1>1, <1>2 DEF check_ref, Lean
<1>4. emit_checks(f) = <<>>
  BY <1>1, <1>2, EmitsNothing
<1> QED
  BY <1>1, <1>3, <1>4

LEMMA ObjectField ==
    ASSUME NEW n, NEW f, f = Object(n)
    PROVE  /\ f.name = n /\ ~f.required
           /\ check_ref(f)
           /\ emit_checks(f) = <<Bag(n)>>
<1>1. f.name = n /\ f.kind = "object" /\ ~f.required
  BY DEF Object, Field
<1>2. Unsized(f) /\ Lean(f)
  <2>1. f.min_length = 0 /\ f.min_items = 0
    BY DEF Object, Field
  <2>2. Unsized(f) /\ ~(f.min_items > 0)
    BY ONLY <2>1 DEF Unsized
  <2>3. f.const = ""
    BY DEF Object, Field
  <2>4. f.requires = <<>>
    BY DEF Object, Field
  <2> QED
    BY <2>2, <2>3, <2>4 DEF Lean
<1>3. check_ref(f)
  BY <1>1, <1>2 DEF check_ref, Lean
<1>4. emit_checks(f) = <<Bag(n)>>
  BY <1>1, <1>2, EmitsBag
<1> QED
  BY <1>1, <1>3, <1>4

LEMMA EnumField ==
    ASSUME NEW n, NEW e, NEW f, f = Enum(n, e)
    PROVE  /\ f.name = n /\ ~f.required
           /\ e \in DOMAIN Enumerations => check_ref(f)
           /\ emit_checks(f) = <<>>
<1>1. f.name = n /\ f.kind = "enum" /\ ~f.required /\ f.of = e
  BY DEF Enum, Field
<1>2. Unsized(f) /\ Lean(f)
  <2>1. f.min_length = 0 /\ f.min_items = 0
    BY DEF Enum, Field
  <2>2. Unsized(f) /\ ~(f.min_items > 0)
    BY ONLY <2>1 DEF Unsized
  <2>3. f.const = ""
    BY DEF Enum, Field
  <2>4. f.requires = <<>>
    BY DEF Enum, Field
  <2> QED
    BY <2>2, <2>3, <2>4 DEF Lean
<1>3. e \in DOMAIN Enumerations => check_ref(f)
  BY <1>1, <1>2 DEF check_ref, Lean
<1>4. emit_checks(f) = <<>>
  BY <1>1, <1>2, EmitsNothing
<1> QED
  BY <1>1, <1>3, <1>4

LEMMA NeededEnum ==
    ASSUME NEW n, NEW e, NEW f, f = Needed(Enum(n, e))
    PROVE  /\ f.name = n /\ f.required
           /\ e \in DOMAIN Enumerations => check_ref(f)
           /\ emit_checks(f) = <<Required(n)>>
<1>1. f.name = n /\ f.kind = "enum" /\ f.required /\ f.of = e
  BY DEF Needed, Enum, Field
<1>2. Unsized(f) /\ Lean(f)
  <2>1. f.min_length = 0 /\ f.min_items = 0
    BY DEF Needed, Enum, Field
  <2>2. Unsized(f) /\ ~(f.min_items > 0)
    BY ONLY <2>1 DEF Unsized
  <2>3. f.const = ""
    BY DEF Needed, Enum, Field
  <2>4. f.requires = <<>>
    BY DEF Needed, Enum, Field
  <2> QED
    BY <2>2, <2>3, <2>4 DEF Lean
<1>3. e \in DOMAIN Enumerations => check_ref(f)
  BY <1>1, <1>2 DEF check_ref, Lean
<1>4. emit_checks(f) = <<Required(n)>>
  BY <1>1, <1>2, EmitsRequired
<1> QED
  BY <1>1, <1>3, <1>4

LEMMA RefField ==
    ASSUME NEW n, NEW t, NEW f, f = Ref(n, t)
    PROVE  /\ f.name = n /\ ~f.required
           /\ t \in DOMAIN Surface => check_ref(f)
           /\ emit_checks(f) = <<Nested(n, t)>>
<1>1. f.name = n /\ f.kind = "ref" /\ ~f.required /\ f.of = t
  BY DEF Ref, Field
<1>2. Unsized(f) /\ Lean(f)
  <2>1. f.min_length = 0 /\ f.min_items = 0
    BY DEF Ref, Field
  <2>2. Unsized(f) /\ ~(f.min_items > 0)
    BY ONLY <2>1 DEF Unsized
  <2>3. f.const = ""
    BY DEF Ref, Field
  <2>4. f.requires = <<>>
    BY DEF Ref, Field
  <2> QED
    BY <2>2, <2>3, <2>4 DEF Lean
<1>3. t \in DOMAIN Surface => check_ref(f)
  BY <1>1, <1>2 DEF check_ref, Lean
<1>4. emit_checks(f) = <<Nested(n, t)>>
  BY <1>1, <1>2, EmitsNested
<1> QED
  BY <1>1, <1>3, <1>4

LEMMA RefsField ==
    ASSUME NEW n, NEW t, NEW f, f = Refs(n, t)
    PROVE  /\ f.name = n /\ ~f.required
           /\ t \in DOMAIN Surface => check_ref(f)
           /\ emit_checks(f) = <<Nested(n, t)>>
<1>1. f.name = n /\ f.kind = "refs" /\ ~f.required /\ f.of = t
  BY DEF Refs, Field
<1>2. Unsized(f) /\ Lean(f)
  <2>1. f.min_length = 0 /\ f.min_items = 0
    BY DEF Refs, Field
  <2>2. Unsized(f) /\ ~(f.min_items > 0)
    BY ONLY <2>1 DEF Unsized
  <2>3. f.const = ""
    BY DEF Refs, Field
  <2>4. f.requires = <<>>
    BY DEF Refs, Field
  <2> QED
    BY <2>2, <2>3, <2>4 DEF Lean
<1>3. t \in DOMAIN Surface => check_ref(f)
  BY <1>1, <1>2 DEF check_ref, Lean
<1>4. emit_checks(f) = <<Nested(n, t)>>
  BY <1>1, <1>2, EmitsNested
<1> QED
  BY <1>1, <1>3, <1>4

LEMMA FilledText ==
    ASSUME NEW n, NEW f, f = Filled(Text(n))
    PROVE  /\ f.name = n /\ ~f.required
           /\ check_ref(f)
           /\ emit_checks(f) = <<MinLength(n)>>
<1>1. f.name = n /\ f.kind = "string" /\ ~f.required
  BY DEF Filled, Text, Field
<1>2. f.min_length > 0 /\ ~(f.min_items > 0)
  <2>1. f.min_length = 1 /\ f.min_items = 0
    BY DEF Filled, Text, Field
  <2> QED
    BY <2>1
<1>3. f.const = ""
  BY DEF Filled, Text, Field
<1>4. f.requires = <<>>
  BY DEF Filled, Text, Field
<1>5. Lean(f)
  BY <1>2, <1>3, <1>4 DEF Lean
<1>6. check_ref(f)
  BY <1>1, <1>4 DEF check_ref
<1>7. emit_checks(f) = <<MinLength(n)>>
  BY <1>1, <1>2, <1>5, EmitsLength
<1> QED
  BY <1>1, <1>6, <1>7

LEMMA NeededRefs ==
    ASSUME NEW n, NEW t, NEW f, f = Needed(Some(Refs(n, t)))
    PROVE  /\ f.name = n /\ f.required
           /\ t \in DOMAIN Surface => check_ref(f)
           /\ emit_checks(f) = <<MinItems(n), Nested(n, t)>>
<1>1. f.name = n /\ f.kind = "refs" /\ f.required /\ f.of = t
  BY DEF Needed, Some, Refs, Field
<1>2. Unsized(f) /\ f.min_items > 0
  <2>1. f.min_length = 0 /\ f.min_items = 1
    BY DEF Needed, Some, Refs, Field
  <2> QED
    BY ONLY <2>1 DEF Unsized
<1>3. f.const = ""
  BY DEF Needed, Some, Refs, Field
<1>4. f.requires = <<>>
  BY DEF Needed, Some, Refs, Field
<1>5. t \in DOMAIN Surface => check_ref(f)
  BY <1>1, <1>4 DEF check_ref
<1>6. emit_checks(f) = <<MinItems(n), Nested(n, t)>>
  BY <1>1, <1>2, <1>3, <1>4, EmitsItems
<1> QED
  BY <1>1, <1>5, <1>6

Constant(f, c) == [f EXCEPT !.const = c]

LEMMA ConstText ==
    ASSUME NEW n, NEW c, c # "", NEW f, f = Constant(Needed(Text(n)), c)
    PROVE  /\ f.name = n /\ f.required
           /\ check_ref(f)
           /\ emit_checks(f) = <<Required(n), Const(n, c)>>
<1>1. f.name = n /\ f.kind = "string" /\ f.required
  BY DEF Constant, Needed, Text, Field
<1>2. Unsized(f) /\ ~(f.min_items > 0)
  <2>1. f.min_length = 0 /\ f.min_items = 0
    BY DEF Constant, Needed, Text, Field
  <2> QED
    BY ONLY <2>1 DEF Unsized
<1>3. f.const = c
  BY DEF Constant, Needed, Text, Field
<1>4. f.requires = <<>>
  BY DEF Constant, Needed, Text, Field
<1>5. check_ref(f)
  BY <1>1, <1>4 DEF check_ref
<1>6. emit_checks(f) = <<Required(n), Const(n, c)>>
  BY <1>1, <1>2, <1>3, <1>4, EmitsConst
<1> QED
  BY <1>1, <1>5, <1>6

Based(f, r) == [f EXCEPT !.requires = r]

LEMMA BasedRef ==
    ASSUME NEW n, NEW t, NEW a, NEW b, NEW c, NEW r, r = <<a, b, c>>,
           NEW f, f = Based(Ref(n, t), r)
    PROVE  /\ f.name = n /\ ~f.required
           /\ f.kind = "ref" /\ f.of = t /\ f.requires = <<a, b, c>>
           /\ emit_checks(f) = <<Base(n, a), Base(n, b), Base(n, c), Nested(n, t)>>
<1>1. f.name = n /\ f.kind = "ref" /\ ~f.required /\ f.of = t
  BY DEF Based, Ref, Field
<1>2. Unsized(f) /\ ~(f.min_items > 0)
  <2>1. f.min_length = 0 /\ f.min_items = 0
    BY DEF Based, Ref, Field
  <2> QED
    BY ONLY <2>1 DEF Unsized
<1>3. f.const = ""
  BY DEF Based, Ref, Field
<1>4. f.requires = <<a, b, c>>
  <2>1. f.requires = r
    BY DEF Based, Ref, Field
  <2> QED
    BY <2>1
<1>5. emit_checks(f) = <<Base(n, a), Base(n, b), Base(n, c), Nested(n, t)>>
  BY <1>1, <1>2, <1>3, <1>4, EmitsBases
<1> QED
  BY <1>1, <1>4, <1>5

-----------------------------------------------------------------------------
(* What the loops over the fields of a type write, for two, three, ... of  *)
(* them.                                                                   *)
ParameterOf(f) == When(f.required, f.name)
Checks(t) == FlattenSeq([i \in DOMAIN t.fields |-> emit_checks(t.fields[i])])
Groups(t) ==
    FlattenSeq([i \in DOMAIN t.exactly_one_of |->
                  <<ExactlyOne(t.exactly_one_of[i][1], t.exactly_one_of[i][2])>>])

LEMMA Loops2 ==
    ASSUME NEW t, NEW a, NEW b, t.fields = <<a, b>>
    PROVE  /\ Checks(t) = emit_checks(a) ++ emit_checks(b)
           /\ emit_new(t) = ParameterOf(a) ++ ParameterOf(b)
           /\ ToSet(t.fields) = {a, b}
<1>1. [i \in DOMAIN t.fields |-> emit_checks(t.fields[i])]
         = <<emit_checks(a), emit_checks(b)>>
  OBVIOUS
<1>2. [i \in DOMAIN t.fields |-> When(t.fields[i].required, t.fields[i].name)]
         = <<ParameterOf(a), ParameterOf(b)>>
  BY DEF ParameterOf
<1>3. ToSet(t.fields) = {a, b}
  BY DEF ToSet
<1>4. FlattenSeq(<<emit_checks(a), emit_checks(b)>>)
         = emit_checks(a) ++ emit_checks(b)
  BY Flat2
<1>5. FlattenSeq(<<ParameterOf(a), ParameterOf(b)>>)
         = ParameterOf(a) ++ ParameterOf(b)
  BY Flat2
<1> QED
  BY <1>1, <1>2, <1>3, <1>4, <1>5 DEF emit_new, Checks

LEMMA Loops3 ==
    ASSUME NEW t, NEW a, NEW b, NEW c, t.fields = <<a, b, c>>
    PROVE  /\ Checks(t) = emit_checks(a) ++ emit_checks(b) ++ emit_checks(c)
           /\ emit_new(t) = ParameterOf(a) ++ ParameterOf(b) ++ ParameterOf(c)
           /\ ToSet(t.fields) = {a, b, c}
<1>1. [i \in DOMAIN t.fields |-> emit_checks(t.fields[i])]
         = <<emit_checks(a), emit_checks(b), emit_checks(c)>>
  OBVIOUS
<1>2. [i \in DOMAIN t.fields |-> When(t.fields[i].required, t.fields[i].name)]
         = <<ParameterOf(a), ParameterOf(b), ParameterOf(c)>>
  BY DEF ParameterOf
<1>3. ToSet(t.fields) = {a, b, c}
  BY DEF ToSet
<1>4. FlattenSeq(<<emit_checks(a), emit_checks(b), emit_checks(c)>>)
         = emit_checks(a) ++ emit_checks(b) ++ emit_checks(c)
  BY Flat3
<1>5. FlattenSeq(<<ParameterOf(a), ParameterOf(b), ParameterOf(c)>>)
         = ParameterOf(a) ++ ParameterOf(b) ++ ParameterOf(c)
  BY Flat3
<1> QED
  BY <1>1, <1>2, <1>3, <1>4, <1>5 DEF emit_new, Checks

LEMMA Loops4 ==
    ASSUME NEW t, NEW a, NEW b, NEW c, NEW d, t.fields = <<a, b, c, d>>
    PROVE  /\ Checks(t) = emit_checks(a) ++ emit_checks(b) ++ emit_checks(c) ++ emit_checks(d)
           /\ emit_new(t) = ParameterOf(a) ++ ParameterOf(b) ++ ParameterOf(c) ++ ParameterOf(d)
           /\ ToSet(t.fields) = {a, b, c, d}
<1>1. [i \in DOMAIN t.fields |-> emit_checks(t.fields[i])]
         = <<emit_checks(a), emit_checks(b), emit_checks(c), emit_checks(d)>>
  OBVIOUS
<1>2. [i \in DOMAIN t.fields |-> When(t.fields[i].required, t.fields[i].name)]
         = <<ParameterOf(a), ParameterOf(b), ParameterOf(c), ParameterOf(d)>>
  BY DEF ParameterOf
<1>3. ToSet(t.fields) = {a, b, c, d}
  BY DEF ToSet
<1>4. FlattenSeq(<<emit_checks(a), emit_checks(b), emit_checks(c), emit_checks(d)>>)
         = emit_checks(a) ++ emit_checks(b) ++ emit_checks(c) ++ emit_checks(d)
  BY Flat4
<1>5. FlattenSeq(<<ParameterOf(a), ParameterOf(b), ParameterOf(c), ParameterOf(d)>>)
         = ParameterOf(a) ++ ParameterOf(b) ++ ParameterOf(c) ++ ParameterOf(d)
  BY Flat4
<1> QED
  BY <1>1, <1>2, <1>3, <1>4, <1>5 DEF emit_new, Checks

LEMMA Loops5 ==
    ASSUME NEW t, NEW a, NEW b, NEW c, NEW d, NEW e, t.fields = <<a, b, c, d, e>>
    PROVE  /\ Checks(t) = emit_checks(a) ++ emit_checks(b) ++ emit_checks(c) ++ emit_checks(d)
                  ++ emit_checks(e)
           /\ emit_new(t) = ParameterOf(a) ++ ParameterOf(b) ++ ParameterOf(c)
                  ++ ParameterOf(d) ++ ParameterOf(e)
           /\ ToSet(t.fields) = {a, b, c, d, e}
<1>1. [i \in DOMAIN t.fields |-> emit_checks(t.fields[i])]
         = <<emit_checks(a), emit_checks(b), emit_checks(c), emit_checks(d), emit_checks(e)>>
  OBVIOUS
<1>2. [i \in DOMAIN t.fields |-> When(t.fields[i].required, t.fields[i].name)]
         = <<ParameterOf(a), ParameterOf(b), ParameterOf(c), ParameterOf(d), ParameterOf(e)>>
  BY DEF ParameterOf
<1>3. ToSet(t.fields) = {a, b, c, d, e}
  BY DEF ToSet
<1>4. FlattenSeq(<<emit_checks(a), emit_checks(b), emit_checks(c), emit_checks(d),
          emit_checks(e)>>)
         = emit_checks(a) ++ emit_checks(b) ++ emit_checks(c) ++ emit_checks(d) ++ emit_checks(e)
  BY Flat5
<1>5. FlattenSeq(<<ParameterOf(a), ParameterOf(b), ParameterOf(c), ParameterOf(d),
          ParameterOf(e)>>)
         = ParameterOf(a) ++ ParameterOf(b) ++ ParameterOf(c) ++ ParameterOf(d) ++ ParameterOf(e)
  BY Flat5
<1> QED
  BY <1>1, <1>2, <1>3, <1>4, <1>5 DEF emit_new, Checks

LEMMA Loops6 ==
    ASSUME NEW t, NEW a, NEW b, NEW c, NEW d, NEW e, NEW f, t.fields = <<a, b, c, d, e, f>>
    PROVE  /\ Checks(t) = emit_checks(a) ++ emit_checks(b) ++ emit_checks(c) ++ emit_checks(d)
                  ++ emit_checks(e) ++ emit_checks(f)
           /\ emit_new(t) = ParameterOf(a) ++ ParameterOf(b) ++ ParameterOf(c)
                  ++ ParameterOf(d) ++ ParameterOf(e) ++ ParameterOf(f)
           /\ ToSet(t.fields) = {a, b, c, d, e, f}
<1>1. [i \in DOMAIN t.fields |-> emit_checks(t.fields[i])]
         = <<emit_checks(a), emit_checks(b), emit_checks(c), emit_checks(d), emit_checks(e),
             emit_checks(f)>>
  OBVIOUS
<1>2. [i \in DOMAIN t.fields |-> When(t.fields[i].required, t.fields[i].name)]
         = <<ParameterOf(a), ParameterOf(b), ParameterOf(c), ParameterOf(d), ParameterOf(e),
             ParameterOf(f)>>
  BY DEF ParameterOf
<1>3. ToSet(t.fields) = {a, b, c, d, e, f}
  BY DEF ToSet
<1>4. FlattenSeq(<<emit_checks(a), emit_checks(b), emit_checks(c), emit_checks(d), emit_checks(e),
          emit_checks(f)>>)
         = emit_checks(a) ++ emit_checks(b) ++ emit_checks(c) ++ emit_checks(d)
             ++ emit_checks(e) ++ emit_checks(f)
  BY Flat6
<1>5. FlattenSeq(<<ParameterOf(a), ParameterOf(b), ParameterOf(c), ParameterOf(d), ParameterOf(e),
          ParameterOf(f)>>)
         = ParameterOf(a) ++ ParameterOf(b) ++ ParameterOf(c) ++ ParameterOf(d)
             ++ ParameterOf(e) ++ ParameterOf(f)
  BY Flat6
<1> QED
  BY <1>1, <1>2, <1>3, <1>4, <1>5 DEF emit_new, Checks

LEMMA Loops8 ==
    ASSUME NEW t, NEW a, NEW b, NEW c, NEW d, NEW e, NEW f, NEW g, NEW h, t.fields
               = <<a, b, c, d, e, f, g, h>>
    PROVE  /\ Checks(t) = emit_checks(a) ++ emit_checks(b) ++ emit_checks(c) ++ emit_checks(d)
                  ++ emit_checks(e) ++ emit_checks(f) ++ emit_checks(g) ++ emit_checks(h)
           /\ emit_new(t) = ParameterOf(a) ++ ParameterOf(b) ++ ParameterOf(c)
                  ++ ParameterOf(d) ++ ParameterOf(e) ++ ParameterOf(f) ++ ParameterOf(g)
                  ++ ParameterOf(h)
           /\ ToSet(t.fields) = {a, b, c, d, e, f, g, h}
<1>1. [i \in DOMAIN t.fields |-> emit_checks(t.fields[i])]
         = <<emit_checks(a), emit_checks(b), emit_checks(c), emit_checks(d), emit_checks(e),
             emit_checks(f), emit_checks(g), emit_checks(h)>>
  OBVIOUS
<1>2. [i \in DOMAIN t.fields |-> When(t.fields[i].required, t.fields[i].name)]
         = <<ParameterOf(a), ParameterOf(b), ParameterOf(c), ParameterOf(d), ParameterOf(e),
             ParameterOf(f), ParameterOf(g), ParameterOf(h)>>
  BY DEF ParameterOf
<1>3. ToSet(t.fields) = {a, b, c, d, e, f, g, h}
  BY DEF ToSet
<1>4. FlattenSeq(<<emit_checks(a), emit_checks(b), emit_checks(c), emit_checks(d), emit_checks(e),
          emit_checks(f), emit_checks(g), emit_checks(h)>>)
         = emit_checks(a) ++ emit_checks(b) ++ emit_checks(c) ++ emit_checks(d)
             ++ emit_checks(e) ++ emit_checks(f) ++ emit_checks(g) ++ emit_checks(h)
  BY Flat8
<1>5. FlattenSeq(<<ParameterOf(a), ParameterOf(b), ParameterOf(c), ParameterOf(d), ParameterOf(e),
          ParameterOf(f), ParameterOf(g), ParameterOf(h)>>)
         = ParameterOf(a) ++ ParameterOf(b) ++ ParameterOf(c) ++ ParameterOf(d)
             ++ ParameterOf(e) ++ ParameterOf(f) ++ ParameterOf(g) ++ ParameterOf(h)
  BY Flat8
<1> QED
  BY <1>1, <1>2, <1>3, <1>4, <1>5 DEF emit_new, Checks

LEMMA NoGroups ==
    ASSUME NEW t, t.exactly_one_of = <<>>
    PROVE  Groups(t) = <<>>
<1>1. [i \in DOMAIN t.exactly_one_of |->
         <<ExactlyOne(t.exactly_one_of[i][1], t.exactly_one_of[i][2])>>] = <<>>
  OBVIOUS
<1>2. FlattenSeq(<<>>) = <<>>
  BY DEF FlattenSeq
<1> QED
  BY <1>1, <1>2 DEF Groups

LEMMA Validates ==
    ASSUME NEW t
    PROVE  emit_validate(t) = Groups(t) ++ Checks(t)
BY DEF emit_validate, Groups, Checks, ++

LEMMA ParsesLean ==
    ASSUME NEW t, t.fields # <<>>, t.exactly_one_of = <<>>,
           \A i, j \in DOMAIN t.fields : t.fields[i].name = t.fields[j].name => i = j,
           \A x \in ToSet(t.fields) : check_ref(x)
    PROVE  parse_type(t)
<1>1. ToSet(t.exactly_one_of) = {}
  BY DEF ToSet
<1> QED
  BY <1>1 DEF parse_type

LEMMA KnownNames ==
    /\ DOMAIN Surface = DOMAIN Types
    /\ DOMAIN Surface = {"approval_clause", "approval_requirement", "authzen_action",
          "authzen_bulk", "authzen_envelope", "authzen_error", "authzen_request",
          "authzen_resource", "authzen_response", "authzen_response_context",
          "authzen_subject", "identifier", "obligation"}
    /\ DOMAIN Enumerations = DOMAIN Enums
    /\ DOMAIN Enumerations = {"authzen_error_code", "category", "identifier_kind",
          "obligation_type", "operational_state", "reason_code"}
BY DEF Surface, Types, Enumerations, Enums

LEMMA Rests1 ==
    ASSUME NEW a
    PROVE  <<a>> ++ <<>> = <<a>> /\ <<>> ++ <<a>> = <<a>>
<1>1. PICK s, T : s = <<a>> /\ T = {a}
  OBVIOUS
<1>2. s \in Seq(T)
  BY <1>1
<1>3. s ++ <<>> = s /\ <<>> ++ s = s
  BY <1>2 DEF ++
<1> QED
  BY <1>1, <1>3

LEMMA Rests2 ==
    ASSUME NEW a, NEW b
    PROVE  <<a, b>> ++ <<>> = <<a, b>> /\ <<>> ++ <<a, b>> = <<a, b>>
<1>1. PICK s, T : s = <<a, b>> /\ T = {a, b}
  OBVIOUS
<1>2. s \in Seq(T)
  BY <1>1
<1>3. s ++ <<>> = s /\ <<>> ++ s = s
  BY <1>2 DEF ++
<1> QED
  BY <1>1, <1>3

LEMMA Rests3 ==
    ASSUME NEW a, NEW b, NEW c
    PROVE  <<a, b, c>> ++ <<>> = <<a, b, c>> /\ <<>> ++ <<a, b, c>> = <<a, b, c>>
<1>1. PICK s, T : s = <<a, b, c>> /\ T = {a, b, c}
  OBVIOUS
<1>2. s \in Seq(T)
  BY <1>1
<1>3. s ++ <<>> = s /\ <<>> ++ s = s
  BY <1>2 DEF ++
<1> QED
  BY <1>1, <1>3

LEMMA Rests4 ==
    ASSUME NEW a, NEW b, NEW c, NEW d
    PROVE  <<a, b, c, d>> ++ <<>> = <<a, b, c, d>> /\ <<>> ++ <<a, b, c, d>> = <<a, b, c, d>>
<1>1. PICK s, T : s = <<a, b, c, d>> /\ T = {a, b, c, d}
  OBVIOUS
<1>2. s \in Seq(T)
  BY <1>1
<1>3. s ++ <<>> = s /\ <<>> ++ s = s
  BY <1>2 DEF ++
<1> QED
  BY <1>1, <1>3

LEMMA Rests5 ==
    ASSUME NEW a, NEW b, NEW c, NEW d, NEW e
    PROVE  <<a, b, c, d, e>> ++ <<>> = <<a, b, c, d, e>>
           /\ <<>> ++ <<a, b, c, d, e>> = <<a, b, c, d, e>>
<1>1. PICK s, T : s = <<a, b, c, d, e>> /\ T = {a, b, c, d, e}
  OBVIOUS
<1>2. s \in Seq(T)
  BY <1>1
<1>3. s ++ <<>> = s /\ <<>> ++ s = s
  BY <1>2 DEF ++
<1> QED
  BY <1>1, <1>3

LEMMA Rests6 ==
    ASSUME NEW a, NEW b, NEW c, NEW d, NEW e, NEW f
    PROVE  <<a, b, c, d, e, f>> ++ <<>> = <<a, b, c, d, e, f>>
           /\ <<>> ++ <<a, b, c, d, e, f>> = <<a, b, c, d, e, f>>
<1>1. PICK s, T : s = <<a, b, c, d, e, f>> /\ T = {a, b, c, d, e, f}
  OBVIOUS
<1>2. s \in Seq(T)
  BY <1>1
<1>3. s ++ <<>> = s /\ <<>> ++ s = s
  BY <1>2 DEF ++
<1> QED
  BY <1>1, <1>3

LEMMA Rests7 ==
    ASSUME NEW a, NEW b, NEW c, NEW d, NEW e, NEW f, NEW g
    PROVE  <<a, b, c, d, e, f, g>> ++ <<>> = <<a, b, c, d, e, f, g>>
           /\ <<>> ++ <<a, b, c, d, e, f, g>> = <<a, b, c, d, e, f, g>>
<1>1. PICK s, T : s = <<a, b, c, d, e, f, g>> /\ T = {a, b, c, d, e, f, g}
  OBVIOUS
<1>2. s \in Seq(T)
  BY <1>1
<1>3. s ++ <<>> = s /\ <<>> ++ s = s
  BY <1>2 DEF ++
<1> QED
  BY <1>1, <1>3

LEMMA Rests8 ==
    ASSUME NEW a, NEW b, NEW c, NEW d, NEW e, NEW f, NEW g, NEW h
    PROVE  <<a, b, c, d, e, f, g, h>> ++ <<>> = <<a, b, c, d, e, f, g, h>>
           /\ <<>> ++ <<a, b, c, d, e, f, g, h>> = <<a, b, c, d, e, f, g, h>>
<1>1. PICK s, T : s = <<a, b, c, d, e, f, g, h>> /\ T = {a, b, c, d, e, f, g, h}
  OBVIOUS
<1>2. s \in Seq(T)
  BY <1>1
<1>3. s ++ <<>> = s /\ <<>> ++ s = s
  BY <1>2 DEF ++
<1> QED
  BY <1>1, <1>3

(* Type by type: parse_surface takes it, and what emit makes of it is the  *)
(* committed one.                                                          *)
LEMMA ApprovalClauseCurrent ==
    parse_type(Surface.approval_clause) /\ emit_type(Surface.approval_clause) = approval_clause
<1>1. PICK t, a, b :
         /\ t = Surface.approval_clause
         /\ a = Plain0("quorum", "int")
         /\ b = Needed(Some(Refs("eligible", "identifier")))
  OBVIOUS
<1>2. t.fields = <<a, b>> /\ t.exactly_one_of = <<>>
  BY <1>1 DEF Surface, Fields
<1>a. /\ a.name = "quorum" /\ a.required /\ check_ref(a)
      /\ emit_checks(a) = <<>>
  BY <1>1, PlainField
<1>b. /\ b.name = "eligible" /\ b.required /\ check_ref(b)
      /\ emit_checks(b) = <<MinItems("eligible"), Nested("eligible", "identifier")>>
  BY <1>1, NeededRefs, KnownNames
<1>3. /\ emit_validate(t) = <<>> ++ (emit_checks(a) ++ emit_checks(b))
      /\ emit_new(t) = ParameterOf(a) ++ ParameterOf(b)
      /\ ToSet(t.fields) = {a, b}
  BY <1>2, Loops2, NoGroups, Validates
<1>4. emit_validate(t) = approval_clause.checks
  <2>1. PICK x1, x2 :
           /\ x1 = MinItems("eligible")
           /\ x2 = Nested("eligible", "identifier")
    OBVIOUS
  <2>2. <<>> ++ <<x1, x2>> = <<x1, x2>>
    BY Rests2
  <2>3. <<>> ++ <<x1, x2>> = <<x1, x2>>
    BY Rests2
  <2>4. approval_clause.checks = <<x1, x2>>
    BY <2>1 DEF approval_clause, Type
  <2>5. /\ emit_checks(a) = <<>>
        /\ emit_checks(b) = <<x1, x2>>
    BY <1>a, <1>b, <2>1
  <2> QED
    BY <1>3, <2>2, <2>3, <2>4, <2>5
<1>5. emit_new(t) = approval_clause.new
  <2>1. PICK n1, n2 : /\ n1 = "quorum"
                      /\ n2 = "eligible"
    OBVIOUS
  <2>2. <<n1>> ++ <<n2>> = <<n1, n2>>
    BY Grows1
  <2>3. /\ ParameterOf(a) = <<n1>>
        /\ ParameterOf(b) = <<n2>>
    BY <1>a, <1>b, <2>1 DEF ParameterOf, When
  <2>4. approval_clause.new = <<n1, n2>>
    BY <2>1 DEF approval_clause, Type
  <2> QED
    BY <1>3, <2>2, <2>3, <2>4
<1>6. {y.name : y \in {w \in ToSet(t.fields) : ~w.required}} = approval_clause.may
  <2>1. approval_clause.may = {}
    BY DEF approval_clause, Type
  <2> QED
    BY <1>3, <1>a, <1>b, <2>1
<1>7. parse_type(t)
  <2>1. \A i, j \in DOMAIN t.fields : t.fields[i].name = t.fields[j].name => i = j
    BY <1>2, <1>a, <1>b
  <2>2. t.fields # <<>>
    BY <1>2
  <2>3. \A x \in ToSet(t.fields) : check_ref(x)
    BY <1>3, <1>a, <1>b
  <2> QED
    BY <1>2, <2>1, <2>2, <2>3, ParsesLean
<1>8. approval_clause = Type(approval_clause.new, approval_clause.may, approval_clause.checks)
  BY DEF approval_clause, Type
<1> QED
  BY <1>1, <1>4, <1>5, <1>6, <1>7, <1>8 DEF emit_type

LEMMA ApprovalRequirementCurrent ==
    parse_type(Surface.approval_requirement)
    /\ emit_type(Surface.approval_requirement) = approval_requirement
<1>1. PICK t, a, b, c :
         /\ t = Surface.approval_requirement
         /\ a = Needed(Some(Refs("all_of", "approval_clause")))
         /\ b = Plain0("separation_of_duties", "bool")
         /\ c = Needed(Text("expires_at"))
  OBVIOUS
<1>2. t.fields = <<a, b, c>> /\ t.exactly_one_of = <<>>
  BY <1>1 DEF Surface, Fields
<1>a. /\ a.name = "all_of" /\ a.required /\ check_ref(a)
      /\ emit_checks(a) = <<MinItems("all_of"), Nested("all_of", "approval_clause")>>
  BY <1>1, NeededRefs, KnownNames
<1>b. /\ b.name = "separation_of_duties" /\ b.required /\ check_ref(b)
      /\ emit_checks(b) = <<>>
  BY <1>1, PlainField
<1>c. /\ c.name = "expires_at" /\ c.required /\ check_ref(c)
      /\ emit_checks(c) = <<Required("expires_at")>>
  BY <1>1, NeededText
<1>3. /\ emit_validate(t) = <<>> ++ (emit_checks(a) ++ emit_checks(b) ++ emit_checks(c))
      /\ emit_new(t) = ParameterOf(a) ++ ParameterOf(b) ++ ParameterOf(c)
      /\ ToSet(t.fields) = {a, b, c}
  BY <1>2, Loops3, NoGroups, Validates
<1>4. emit_validate(t) = approval_requirement.checks
  <2>1. PICK x1, x2, x3 :
           /\ x1 = MinItems("all_of")
           /\ x2 = Nested("all_of", "approval_clause")
           /\ x3 = Required("expires_at")
    OBVIOUS
  <2>2. <<x1, x2>> ++ <<>> = <<x1, x2>>
    BY Rests2
  <2>3. <<x1, x2>> ++ <<x3>> = <<x1, x2, x3>>
    BY Grows2
  <2>4. <<>> ++ <<x1, x2, x3>> = <<x1, x2, x3>>
    BY Rests3
  <2>5. approval_requirement.checks = <<x1, x2, x3>>
    BY <2>1 DEF approval_requirement, Type
  <2>6. /\ emit_checks(a) = <<x1, x2>>
        /\ emit_checks(b) = <<>>
        /\ emit_checks(c) = <<x3>>
    BY <1>a, <1>b, <1>c, <2>1
  <2> QED
    BY <1>3, <2>2, <2>3, <2>4, <2>5, <2>6
<1>5. emit_new(t) = approval_requirement.new
  <2>1. PICK n1, n2, n3 : /\ n1 = "all_of"
                          /\ n2 = "separation_of_duties"
                          /\ n3 = "expires_at"
    OBVIOUS
  <2>2. <<n1>> ++ <<n2>> = <<n1, n2>>
    BY Grows1
  <2>3. <<n1, n2>> ++ <<n3>> = <<n1, n2, n3>>
    BY Grows2
  <2>4. /\ ParameterOf(a) = <<n1>>
        /\ ParameterOf(b) = <<n2>>
        /\ ParameterOf(c) = <<n3>>
    BY <1>a, <1>b, <1>c, <2>1 DEF ParameterOf, When
  <2>5. approval_requirement.new = <<n1, n2, n3>>
    BY <2>1 DEF approval_requirement, Type
  <2> QED
    BY <1>3, <2>2, <2>3, <2>4, <2>5
<1>6. {y.name : y \in {w \in ToSet(t.fields) : ~w.required}} = approval_requirement.may
  <2>1. approval_requirement.may = {}
    BY DEF approval_requirement, Type
  <2> QED
    BY <1>3, <1>a, <1>b, <1>c, <2>1
<1>7. parse_type(t)
  <2>1. \A i, j \in DOMAIN t.fields : t.fields[i].name = t.fields[j].name => i = j
    BY <1>2, <1>a, <1>b, <1>c
  <2>2. t.fields # <<>>
    BY <1>2
  <2>3. \A x \in ToSet(t.fields) : check_ref(x)
    BY <1>3, <1>a, <1>b, <1>c
  <2> QED
    BY <1>2, <2>1, <2>2, <2>3, ParsesLean
<1>8. approval_requirement
          = Type(approval_requirement.new, approval_requirement.may, approval_requirement.checks)
  BY DEF approval_requirement, Type
<1> QED
  BY <1>1, <1>4, <1>5, <1>6, <1>7, <1>8 DEF emit_type

LEMMA AuthzenActionCurrent ==
    parse_type(Surface.authzen_action) /\ emit_type(Surface.authzen_action) = authzen_action
<1>1. PICK t, a, b :
         /\ t = Surface.authzen_action
         /\ a = Word("name")
         /\ b = Object("properties")
  OBVIOUS
<1>2. t.fields = <<a, b>> /\ t.exactly_one_of = <<>>
  BY <1>1 DEF Surface, Fields
<1>a. /\ a.name = "name" /\ a.required /\ check_ref(a)
      /\ emit_checks(a) = <<Required("name")>>
  BY <1>1, WordField
<1>b. /\ b.name = "properties" /\ ~b.required /\ check_ref(b)
      /\ emit_checks(b) = <<Bag("properties")>>
  BY <1>1, ObjectField
<1>3. /\ emit_validate(t) = <<>> ++ (emit_checks(a) ++ emit_checks(b))
      /\ emit_new(t) = ParameterOf(a) ++ ParameterOf(b)
      /\ ToSet(t.fields) = {a, b}
  BY <1>2, Loops2, NoGroups, Validates
<1>4. emit_validate(t) = authzen_action.checks
  <2>1. PICK x1, x2 :
           /\ x1 = Required("name")
           /\ x2 = Bag("properties")
    OBVIOUS
  <2>2. <<x1>> ++ <<x2>> = <<x1, x2>>
    BY Grows1
  <2>3. <<>> ++ <<x1, x2>> = <<x1, x2>>
    BY Rests2
  <2>4. authzen_action.checks = <<x1, x2>>
    BY <2>1 DEF authzen_action, Type
  <2>5. /\ emit_checks(a) = <<x1>>
        /\ emit_checks(b) = <<x2>>
    BY <1>a, <1>b, <2>1
  <2> QED
    BY <1>3, <2>2, <2>3, <2>4, <2>5
<1>5. emit_new(t) = authzen_action.new
  <2>1. PICK n1 : /\ n1 = "name"
    OBVIOUS
  <2>2. <<n1>> ++ <<>> = <<n1>>
    BY Rests1
  <2>3. /\ ParameterOf(a) = <<n1>>
        /\ ParameterOf(b) = <<>>
    BY <1>a, <1>b, <2>1 DEF ParameterOf, When
  <2>4. authzen_action.new = <<n1>>
    BY <2>1 DEF authzen_action, Type
  <2> QED
    BY <1>3, <2>2, <2>3, <2>4
<1>6. {y.name : y \in {w \in ToSet(t.fields) : ~w.required}} = authzen_action.may
  <2>1. authzen_action.may = {"properties"}
    BY DEF authzen_action, Type
  <2> QED
    BY <1>3, <1>a, <1>b, <2>1
<1>7. parse_type(t)
  <2>1. \A i, j \in DOMAIN t.fields : t.fields[i].name = t.fields[j].name => i = j
    BY <1>2, <1>a, <1>b
  <2>2. t.fields # <<>>
    BY <1>2
  <2>3. \A x \in ToSet(t.fields) : check_ref(x)
    BY <1>3, <1>a, <1>b
  <2> QED
    BY <1>2, <2>1, <2>2, <2>3, ParsesLean
<1>8. authzen_action = Type(authzen_action.new, authzen_action.may, authzen_action.checks)
  BY DEF authzen_action, Type
<1> QED
  BY <1>1, <1>4, <1>5, <1>6, <1>7, <1>8 DEF emit_type

LEMMA AuthzenBulkCurrent ==
    parse_type(Surface.authzen_bulk) /\ emit_type(Surface.authzen_bulk) = authzen_bulk
<1>1. PICK t, a, b, c, d, e :
         /\ t = Surface.authzen_bulk
         /\ a = Ref("subject", "authzen_subject")
         /\ b = Ref("action", "authzen_action")
         /\ c = Ref("resource", "authzen_resource")
         /\ d = Object("context")
         /\ e = Needed(Some(Refs("evaluations", "authzen_request")))
  OBVIOUS
<1>2. t.fields = <<a, b, c, d, e>> /\ t.exactly_one_of = <<>>
  BY <1>1 DEF Surface, Fields, Parts
<1>a. /\ a.name = "subject" /\ ~a.required /\ check_ref(a)
      /\ emit_checks(a) = <<Nested("subject", "authzen_subject")>>
  BY <1>1, RefField, KnownNames
<1>b. /\ b.name = "action" /\ ~b.required /\ check_ref(b)
      /\ emit_checks(b) = <<Nested("action", "authzen_action")>>
  BY <1>1, RefField, KnownNames
<1>c. /\ c.name = "resource" /\ ~c.required /\ check_ref(c)
      /\ emit_checks(c) = <<Nested("resource", "authzen_resource")>>
  BY <1>1, RefField, KnownNames
<1>d. /\ d.name = "context" /\ ~d.required /\ check_ref(d)
      /\ emit_checks(d) = <<Bag("context")>>
  BY <1>1, ObjectField
<1>e. /\ e.name = "evaluations" /\ e.required /\ check_ref(e)
      /\ emit_checks(e) = <<MinItems("evaluations"), Nested("evaluations", "authzen_request")>>
  BY <1>1, NeededRefs, KnownNames
<1>3. /\ emit_validate(t) = <<>> ++ (emit_checks(a) ++ emit_checks(b) ++ emit_checks(c)
             ++ emit_checks(d) ++ emit_checks(e))
      /\ emit_new(t) = ParameterOf(a) ++ ParameterOf(b) ++ ParameterOf(c) ++ ParameterOf(d)
             ++ ParameterOf(e)
      /\ ToSet(t.fields) = {a, b, c, d, e}
  BY <1>2, Loops5, NoGroups, Validates
<1>4. emit_validate(t) = authzen_bulk.checks
  <2>1. PICK x1, x2, x3, x4, x5, x6 :
           /\ x1 = Nested("subject", "authzen_subject")
           /\ x2 = Nested("action", "authzen_action")
           /\ x3 = Nested("resource", "authzen_resource")
           /\ x4 = Bag("context")
           /\ x5 = MinItems("evaluations")
           /\ x6 = Nested("evaluations", "authzen_request")
    OBVIOUS
  <2>2. <<x1>> ++ <<x2>> = <<x1, x2>>
    BY Grows1
  <2>3. <<x1, x2>> ++ <<x3>> = <<x1, x2, x3>>
    BY Grows2
  <2>4. <<x1, x2, x3>> ++ <<x4>> = <<x1, x2, x3, x4>>
    BY Grows3
  <2>5. <<x1, x2, x3, x4>> ++ <<x5, x6>> = <<x1, x2, x3, x4, x5, x6>>
    <3>1. PICK T, s : T = {x1, x2, x3, x4, x5, x6} /\ s = <<x1, x2, x3, x4>>
      OBVIOUS
    <3>2. s \in Seq(T) /\ x5 \in T /\ x6 \in T
      BY <3>1
    <3>3. s ++ <<x5, x6>> = s ++ <<x5>> ++ <<x6>>
      BY <3>2, GrowsByTwo
    <3> QED
      BY <3>1, <3>3, Grows4, Grows5
  <2>6. <<>> ++ <<x1, x2, x3, x4, x5, x6>> = <<x1, x2, x3, x4, x5, x6>>
    BY Rests6
  <2>7. authzen_bulk.checks = <<x1, x2, x3, x4, x5, x6>>
    BY <2>1 DEF authzen_bulk, Type
  <2>8. /\ emit_checks(a) = <<x1>>
        /\ emit_checks(b) = <<x2>>
        /\ emit_checks(c) = <<x3>>
        /\ emit_checks(d) = <<x4>>
        /\ emit_checks(e) = <<x5, x6>>
    BY <1>a, <1>b, <1>c, <1>d, <1>e, <2>1
  <2> QED
    BY <1>3, <2>2, <2>3, <2>4, <2>5, <2>6, <2>7, <2>8
<1>5. emit_new(t) = authzen_bulk.new
  <2>1. PICK n1 : /\ n1 = "evaluations"
    OBVIOUS
  <2>2. <<>> ++ <<>> = <<>>
    BY DEF ++
  <2>3. <<>> ++ <<n1>> = <<n1>>
    BY Rests1
  <2>4. /\ ParameterOf(a) = <<>>
        /\ ParameterOf(b) = <<>>
        /\ ParameterOf(c) = <<>>
        /\ ParameterOf(d) = <<>>
        /\ ParameterOf(e) = <<n1>>
    BY <1>a, <1>b, <1>c, <1>d, <1>e, <2>1 DEF ParameterOf, When
  <2>5. authzen_bulk.new = <<n1>>
    BY <2>1 DEF authzen_bulk, Type
  <2> QED
    BY <1>3, <2>2, <2>3, <2>4, <2>5
<1>6. {y.name : y \in {w \in ToSet(t.fields) : ~w.required}} = authzen_bulk.may
  <2>1. authzen_bulk.may = {"subject", "action", "resource", "context"}
    BY DEF authzen_bulk, Type
  <2> QED
    BY <1>3, <1>a, <1>b, <1>c, <1>d, <1>e, <2>1
<1>7. parse_type(t)
  <2>1. \A i, j \in DOMAIN t.fields : t.fields[i].name = t.fields[j].name => i = j
    BY <1>2, <1>a, <1>b, <1>c, <1>d, <1>e
  <2>2. t.fields # <<>>
    BY <1>2
  <2>3. \A x \in ToSet(t.fields) : check_ref(x)
    BY <1>3, <1>a, <1>b, <1>c, <1>d, <1>e
  <2> QED
    BY <1>2, <2>1, <2>2, <2>3, ParsesLean
<1>8. authzen_bulk = Type(authzen_bulk.new, authzen_bulk.may, authzen_bulk.checks)
  BY DEF authzen_bulk, Type
<1> QED
  BY <1>1, <1>4, <1>5, <1>6, <1>7, <1>8 DEF emit_type

LEMMA AuthzenErrorCurrent ==
    parse_type(Surface.authzen_error) /\ emit_type(Surface.authzen_error) = authzen_error
<1>1. PICK t, a, b, c, d, e :
         /\ t = Surface.authzen_error
         /\ a = Needed(Enum("code", "authzen_error_code"))
         /\ b = Text("pointer")
         /\ c = Word("message")
         /\ d = Field("supported", "array", "")
         /\ e = Text("request_id")
  OBVIOUS
<1>2. t.fields = <<a, b, c, d, e>> /\ t.exactly_one_of = <<>>
  BY <1>1 DEF Surface, Fields
<1>a. /\ a.name = "code" /\ a.required /\ check_ref(a)
      /\ emit_checks(a) = <<Required("code")>>
  BY <1>1, NeededEnum, KnownNames
<1>b. /\ b.name = "pointer" /\ ~b.required /\ check_ref(b)
      /\ emit_checks(b) = <<>>
  BY <1>1, TextField
<1>c. /\ c.name = "message" /\ c.required /\ check_ref(c)
      /\ emit_checks(c) = <<Required("message")>>
  BY <1>1, WordField
<1>d. /\ d.name = "supported" /\ ~d.required /\ check_ref(d)
      /\ emit_checks(d) = <<>>
  BY <1>1, OtherField
<1>e. /\ e.name = "request_id" /\ ~e.required /\ check_ref(e)
      /\ emit_checks(e) = <<>>
  BY <1>1, TextField
<1>3. /\ emit_validate(t) = <<>> ++ (emit_checks(a) ++ emit_checks(b) ++ emit_checks(c)
             ++ emit_checks(d) ++ emit_checks(e))
      /\ emit_new(t) = ParameterOf(a) ++ ParameterOf(b) ++ ParameterOf(c) ++ ParameterOf(d)
             ++ ParameterOf(e)
      /\ ToSet(t.fields) = {a, b, c, d, e}
  BY <1>2, Loops5, NoGroups, Validates
<1>4. emit_validate(t) = authzen_error.checks
  <2>1. PICK x1, x2 :
           /\ x1 = Required("code")
           /\ x2 = Required("message")
    OBVIOUS
  <2>2. <<x1>> ++ <<>> = <<x1>>
    BY Rests1
  <2>3. <<x1>> ++ <<x2>> = <<x1, x2>>
    BY Grows1
  <2>4. <<x1, x2>> ++ <<>> = <<x1, x2>>
    BY Rests2
  <2>5. <<>> ++ <<x1, x2>> = <<x1, x2>>
    BY Rests2
  <2>6. authzen_error.checks = <<x1, x2>>
    BY <2>1 DEF authzen_error, Type
  <2>7. /\ emit_checks(a) = <<x1>>
        /\ emit_checks(b) = <<>>
        /\ emit_checks(c) = <<x2>>
        /\ emit_checks(d) = <<>>
        /\ emit_checks(e) = <<>>
    BY <1>a, <1>b, <1>c, <1>d, <1>e, <2>1
  <2> QED
    BY <1>3, <2>2, <2>3, <2>4, <2>5, <2>6, <2>7
<1>5. emit_new(t) = authzen_error.new
  <2>1. PICK n1, n2 : /\ n1 = "code"
                      /\ n2 = "message"
    OBVIOUS
  <2>2. <<n1>> ++ <<>> = <<n1>>
    BY Rests1
  <2>3. <<n1>> ++ <<n2>> = <<n1, n2>>
    BY Grows1
  <2>4. <<n1, n2>> ++ <<>> = <<n1, n2>>
    BY Rests2
  <2>5. /\ ParameterOf(a) = <<n1>>
        /\ ParameterOf(b) = <<>>
        /\ ParameterOf(c) = <<n2>>
        /\ ParameterOf(d) = <<>>
        /\ ParameterOf(e) = <<>>
    BY <1>a, <1>b, <1>c, <1>d, <1>e, <2>1 DEF ParameterOf, When
  <2>6. authzen_error.new = <<n1, n2>>
    BY <2>1 DEF authzen_error, Type
  <2> QED
    BY <1>3, <2>2, <2>3, <2>4, <2>5, <2>6
<1>6. {y.name : y \in {w \in ToSet(t.fields) : ~w.required}} = authzen_error.may
  <2>1. authzen_error.may = {"pointer", "supported", "request_id"}
    BY DEF authzen_error, Type
  <2> QED
    BY <1>3, <1>a, <1>b, <1>c, <1>d, <1>e, <2>1
<1>7. parse_type(t)
  <2>1. \A i, j \in DOMAIN t.fields : t.fields[i].name = t.fields[j].name => i = j
    BY <1>2, <1>a, <1>b, <1>c, <1>d, <1>e
  <2>2. t.fields # <<>>
    BY <1>2
  <2>3. \A x \in ToSet(t.fields) : check_ref(x)
    BY <1>3, <1>a, <1>b, <1>c, <1>d, <1>e
  <2> QED
    BY <1>2, <2>1, <2>2, <2>3, ParsesLean
<1>8. authzen_error = Type(authzen_error.new, authzen_error.may, authzen_error.checks)
  BY DEF authzen_error, Type
<1> QED
  BY <1>1, <1>4, <1>5, <1>6, <1>7, <1>8 DEF emit_type

LEMMA AuthzenRequestCurrent ==
    parse_type(Surface.authzen_request) /\ emit_type(Surface.authzen_request) = authzen_request
<1>1. PICK t, a, b, c, d :
         /\ t = Surface.authzen_request
         /\ a = Ref("subject", "authzen_subject")
         /\ b = Ref("action", "authzen_action")
         /\ c = Ref("resource", "authzen_resource")
         /\ d = Object("context")
  OBVIOUS
<1>2. t.fields = <<a, b, c, d>> /\ t.exactly_one_of = <<>>
  BY <1>1 DEF Surface, Fields, Parts
<1>a. /\ a.name = "subject" /\ ~a.required /\ check_ref(a)
      /\ emit_checks(a) = <<Nested("subject", "authzen_subject")>>
  BY <1>1, RefField, KnownNames
<1>b. /\ b.name = "action" /\ ~b.required /\ check_ref(b)
      /\ emit_checks(b) = <<Nested("action", "authzen_action")>>
  BY <1>1, RefField, KnownNames
<1>c. /\ c.name = "resource" /\ ~c.required /\ check_ref(c)
      /\ emit_checks(c) = <<Nested("resource", "authzen_resource")>>
  BY <1>1, RefField, KnownNames
<1>d. /\ d.name = "context" /\ ~d.required /\ check_ref(d)
      /\ emit_checks(d) = <<Bag("context")>>
  BY <1>1, ObjectField
<1>3. /\ emit_validate(t) = <<>> ++ (emit_checks(a) ++ emit_checks(b) ++ emit_checks(c)
             ++ emit_checks(d))
      /\ emit_new(t) = ParameterOf(a) ++ ParameterOf(b) ++ ParameterOf(c) ++ ParameterOf(d)
      /\ ToSet(t.fields) = {a, b, c, d}
  BY <1>2, Loops4, NoGroups, Validates
<1>4. emit_validate(t) = authzen_request.checks
  <2>1. PICK x1, x2, x3, x4 :
           /\ x1 = Nested("subject", "authzen_subject")
           /\ x2 = Nested("action", "authzen_action")
           /\ x3 = Nested("resource", "authzen_resource")
           /\ x4 = Bag("context")
    OBVIOUS
  <2>2. <<x1>> ++ <<x2>> = <<x1, x2>>
    BY Grows1
  <2>3. <<x1, x2>> ++ <<x3>> = <<x1, x2, x3>>
    BY Grows2
  <2>4. <<x1, x2, x3>> ++ <<x4>> = <<x1, x2, x3, x4>>
    BY Grows3
  <2>5. <<>> ++ <<x1, x2, x3, x4>> = <<x1, x2, x3, x4>>
    BY Rests4
  <2>6. authzen_request.checks = <<x1, x2, x3, x4>>
    BY <2>1 DEF authzen_request, Type
  <2>7. /\ emit_checks(a) = <<x1>>
        /\ emit_checks(b) = <<x2>>
        /\ emit_checks(c) = <<x3>>
        /\ emit_checks(d) = <<x4>>
    BY <1>a, <1>b, <1>c, <1>d, <2>1
  <2> QED
    BY <1>3, <2>2, <2>3, <2>4, <2>5, <2>6, <2>7
<1>5. emit_new(t) = authzen_request.new
  <2>2. <<>> ++ <<>> = <<>>
    BY DEF ++
  <2>3. /\ ParameterOf(a) = <<>>
        /\ ParameterOf(b) = <<>>
        /\ ParameterOf(c) = <<>>
        /\ ParameterOf(d) = <<>>
    BY <1>a, <1>b, <1>c, <1>d DEF ParameterOf, When
  <2>4. authzen_request.new = <<>>
    BY DEF authzen_request, Type
  <2> QED
    BY <1>3, <2>2, <2>3, <2>4
<1>6. {y.name : y \in {w \in ToSet(t.fields) : ~w.required}} = authzen_request.may
  <2>1. authzen_request.may = {"subject", "action", "resource", "context"}
    BY DEF authzen_request, Type
  <2> QED
    BY <1>3, <1>a, <1>b, <1>c, <1>d, <2>1
<1>7. parse_type(t)
  <2>1. \A i, j \in DOMAIN t.fields : t.fields[i].name = t.fields[j].name => i = j
    BY <1>2, <1>a, <1>b, <1>c, <1>d
  <2>2. t.fields # <<>>
    BY <1>2
  <2>3. \A x \in ToSet(t.fields) : check_ref(x)
    BY <1>3, <1>a, <1>b, <1>c, <1>d
  <2> QED
    BY <1>2, <2>1, <2>2, <2>3, ParsesLean
<1>8. authzen_request = Type(authzen_request.new, authzen_request.may, authzen_request.checks)
  BY DEF authzen_request, Type
<1> QED
  BY <1>1, <1>4, <1>5, <1>6, <1>7, <1>8 DEF emit_type

LEMMA AuthzenResourceCurrent ==
    parse_type(Surface.authzen_resource) /\ emit_type(Surface.authzen_resource) = authzen_resource
<1>1. PICK t, a, b, c :
         /\ t = Surface.authzen_resource
         /\ a = Word("type")
         /\ b = Word("id")
         /\ c = Object("properties")
  OBVIOUS
<1>2. t.fields = <<a, b, c>> /\ t.exactly_one_of = <<>>
  BY <1>1 DEF Surface, Fields, Entity
<1>a. /\ a.name = "type" /\ a.required /\ check_ref(a)
      /\ emit_checks(a) = <<Required("type")>>
  BY <1>1, WordField
<1>b. /\ b.name = "id" /\ b.required /\ check_ref(b)
      /\ emit_checks(b) = <<Required("id")>>
  BY <1>1, WordField
<1>c. /\ c.name = "properties" /\ ~c.required /\ check_ref(c)
      /\ emit_checks(c) = <<Bag("properties")>>
  BY <1>1, ObjectField
<1>3. /\ emit_validate(t) = <<>> ++ (emit_checks(a) ++ emit_checks(b) ++ emit_checks(c))
      /\ emit_new(t) = ParameterOf(a) ++ ParameterOf(b) ++ ParameterOf(c)
      /\ ToSet(t.fields) = {a, b, c}
  BY <1>2, Loops3, NoGroups, Validates
<1>4. emit_validate(t) = authzen_resource.checks
  <2>1. PICK x1, x2, x3 :
           /\ x1 = Required("type")
           /\ x2 = Required("id")
           /\ x3 = Bag("properties")
    OBVIOUS
  <2>2. <<x1>> ++ <<x2>> = <<x1, x2>>
    BY Grows1
  <2>3. <<x1, x2>> ++ <<x3>> = <<x1, x2, x3>>
    BY Grows2
  <2>4. <<>> ++ <<x1, x2, x3>> = <<x1, x2, x3>>
    BY Rests3
  <2>5. authzen_resource.checks = <<x1, x2, x3>>
    BY <2>1 DEF authzen_resource, Type
  <2>6. /\ emit_checks(a) = <<x1>>
        /\ emit_checks(b) = <<x2>>
        /\ emit_checks(c) = <<x3>>
    BY <1>a, <1>b, <1>c, <2>1
  <2> QED
    BY <1>3, <2>2, <2>3, <2>4, <2>5, <2>6
<1>5. emit_new(t) = authzen_resource.new
  <2>1. PICK n1, n2 : /\ n1 = "type"
                      /\ n2 = "id"
    OBVIOUS
  <2>2. <<n1>> ++ <<n2>> = <<n1, n2>>
    BY Grows1
  <2>3. <<n1, n2>> ++ <<>> = <<n1, n2>>
    BY Rests2
  <2>4. /\ ParameterOf(a) = <<n1>>
        /\ ParameterOf(b) = <<n2>>
        /\ ParameterOf(c) = <<>>
    BY <1>a, <1>b, <1>c, <2>1 DEF ParameterOf, When
  <2>5. authzen_resource.new = <<n1, n2>>
    BY <2>1 DEF authzen_resource, Type
  <2> QED
    BY <1>3, <2>2, <2>3, <2>4, <2>5
<1>6. {y.name : y \in {w \in ToSet(t.fields) : ~w.required}} = authzen_resource.may
  <2>1. authzen_resource.may = {"properties"}
    BY DEF authzen_resource, Type
  <2> QED
    BY <1>3, <1>a, <1>b, <1>c, <2>1
<1>7. parse_type(t)
  <2>1. \A i, j \in DOMAIN t.fields : t.fields[i].name = t.fields[j].name => i = j
    BY <1>2, <1>a, <1>b, <1>c
  <2>2. t.fields # <<>>
    BY <1>2
  <2>3. \A x \in ToSet(t.fields) : check_ref(x)
    BY <1>3, <1>a, <1>b, <1>c
  <2> QED
    BY <1>2, <2>1, <2>2, <2>3, ParsesLean
<1>8. authzen_resource = Type(authzen_resource.new, authzen_resource.may, authzen_resource.checks)
  BY DEF authzen_resource, Type
<1> QED
  BY <1>1, <1>4, <1>5, <1>6, <1>7, <1>8 DEF emit_type

LEMMA AuthzenResponseCurrent ==
    parse_type(Surface.authzen_response) /\ emit_type(Surface.authzen_response) = authzen_response
<1>1. PICK t, a, b :
         /\ t = Surface.authzen_response
         /\ a = Plain0("decision", "bool")
         /\ b = Ref("context", "authzen_response_context")
  OBVIOUS
<1>2. t.fields = <<a, b>> /\ t.exactly_one_of = <<>>
  BY <1>1 DEF Surface, Fields
<1>a. /\ a.name = "decision" /\ a.required /\ check_ref(a)
      /\ emit_checks(a) = <<>>
  BY <1>1, PlainField
<1>b. /\ b.name = "context" /\ ~b.required /\ check_ref(b)
      /\ emit_checks(b) = <<Nested("context", "authzen_response_context")>>
  BY <1>1, RefField, KnownNames
<1>3. /\ emit_validate(t) = <<>> ++ (emit_checks(a) ++ emit_checks(b))
      /\ emit_new(t) = ParameterOf(a) ++ ParameterOf(b)
      /\ ToSet(t.fields) = {a, b}
  BY <1>2, Loops2, NoGroups, Validates
<1>4. emit_validate(t) = authzen_response.checks
  <2>1. PICK x1 :
           /\ x1 = Nested("context", "authzen_response_context")
    OBVIOUS
  <2>2. <<>> ++ <<x1>> = <<x1>>
    BY Rests1
  <2>3. <<>> ++ <<x1>> = <<x1>>
    BY Rests1
  <2>4. authzen_response.checks = <<x1>>
    BY <2>1 DEF authzen_response, Type
  <2>5. /\ emit_checks(a) = <<>>
        /\ emit_checks(b) = <<x1>>
    BY <1>a, <1>b, <2>1
  <2> QED
    BY <1>3, <2>2, <2>3, <2>4, <2>5
<1>5. emit_new(t) = authzen_response.new
  <2>1. PICK n1 : /\ n1 = "decision"
    OBVIOUS
  <2>2. <<n1>> ++ <<>> = <<n1>>
    BY Rests1
  <2>3. /\ ParameterOf(a) = <<n1>>
        /\ ParameterOf(b) = <<>>
    BY <1>a, <1>b, <2>1 DEF ParameterOf, When
  <2>4. authzen_response.new = <<n1>>
    BY <2>1 DEF authzen_response, Type
  <2> QED
    BY <1>3, <2>2, <2>3, <2>4
<1>6. {y.name : y \in {w \in ToSet(t.fields) : ~w.required}} = authzen_response.may
  <2>1. authzen_response.may = {"context"}
    BY DEF authzen_response, Type
  <2> QED
    BY <1>3, <1>a, <1>b, <2>1
<1>7. parse_type(t)
  <2>1. \A i, j \in DOMAIN t.fields : t.fields[i].name = t.fields[j].name => i = j
    BY <1>2, <1>a, <1>b
  <2>2. t.fields # <<>>
    BY <1>2
  <2>3. \A x \in ToSet(t.fields) : check_ref(x)
    BY <1>3, <1>a, <1>b
  <2> QED
    BY <1>2, <2>1, <2>2, <2>3, ParsesLean
<1>8. authzen_response = Type(authzen_response.new, authzen_response.may, authzen_response.checks)
  BY DEF authzen_response, Type
<1> QED
  BY <1>1, <1>4, <1>5, <1>6, <1>7, <1>8 DEF emit_type

LEMMA AuthzenResponseContextCurrent ==
    parse_type(Surface.authzen_response_context)
    /\ emit_type(Surface.authzen_response_context) = authzen_response_context
<1>1. PICK t, a, b, c, d, e, f, g, h :
         /\ t = Surface.authzen_response_context
         /\ a = Constant(Needed(Text("profile")), AUTHZEN_PROFILE_V1)
         /\ b = Needed(Enum("state", "operational_state"))
         /\ c = Needed(Enum("category", "category"))
         /\ d = Enum("reason", "reason_code")
         /\ e = Refs("obligations", "obligation")
         /\ f = Ref("approval", "approval_requirement")
         /\ g = Word("decision_id")
         /\ h = Word("schema_version")
  OBVIOUS
<1>2. t.fields = <<a, b, c, d, e, f, g, h>> /\ t.exactly_one_of = <<>>
  BY <1>1 DEF Surface, Fields, Constant
<1>a. /\ a.name = "profile" /\ a.required /\ check_ref(a)
      /\ emit_checks(a) = <<Required("profile"), Const("profile", AUTHZEN_PROFILE_V1)>>
  <2>1. PICK n, v : n = "profile" /\ v = AUTHZEN_PROFILE_V1
    OBVIOUS
  <2>2. v # ""
    BY <2>1 DEF AUTHZEN_PROFILE_V1
  <2>3. a = Constant(Needed(Text(n)), v)
    BY <1>1, <2>1
  <2>4. /\ a.name = n /\ a.required /\ check_ref(a)
        /\ emit_checks(a) = <<Required(n), Const(n, v)>>
    BY ONLY <2>2, <2>3, ConstText
  <2> QED
    BY <2>1, <2>4
<1>b. /\ b.name = "state" /\ b.required /\ check_ref(b)
      /\ emit_checks(b) = <<Required("state")>>
  BY <1>1, NeededEnum, KnownNames
<1>c. /\ c.name = "category" /\ c.required /\ check_ref(c)
      /\ emit_checks(c) = <<Required("category")>>
  BY <1>1, NeededEnum, KnownNames
<1>d. /\ d.name = "reason" /\ ~d.required /\ check_ref(d)
      /\ emit_checks(d) = <<>>
  BY <1>1, EnumField, KnownNames
<1>e. /\ e.name = "obligations" /\ ~e.required /\ check_ref(e)
      /\ emit_checks(e) = <<Nested("obligations", "obligation")>>
  BY <1>1, RefsField, KnownNames
<1>f. /\ f.name = "approval" /\ ~f.required /\ check_ref(f)
      /\ emit_checks(f) = <<Nested("approval", "approval_requirement")>>
  BY <1>1, RefField, KnownNames
<1>g. /\ g.name = "decision_id" /\ g.required /\ check_ref(g)
      /\ emit_checks(g) = <<Required("decision_id")>>
  BY <1>1, WordField
<1>h. /\ h.name = "schema_version" /\ h.required /\ check_ref(h)
      /\ emit_checks(h) = <<Required("schema_version")>>
  BY <1>1, WordField
<1>3. /\ emit_validate(t) = <<>> ++ (emit_checks(a) ++ emit_checks(b) ++ emit_checks(c)
             ++ emit_checks(d) ++ emit_checks(e) ++ emit_checks(f) ++ emit_checks(g)
             ++ emit_checks(h))
      /\ emit_new(t) = ParameterOf(a) ++ ParameterOf(b) ++ ParameterOf(c) ++ ParameterOf(d)
             ++ ParameterOf(e) ++ ParameterOf(f) ++ ParameterOf(g) ++ ParameterOf(h)
      /\ ToSet(t.fields) = {a, b, c, d, e, f, g, h}
  BY <1>2, Loops8, NoGroups, Validates
<1>4. emit_validate(t) = authzen_response_context.checks
  <2>1. PICK x1, x2, x3, x4, x5, x6, x7, x8 :
           /\ x1 = Required("profile")
           /\ x2 = Const("profile", AUTHZEN_PROFILE_V1)
           /\ x3 = Required("state")
           /\ x4 = Required("category")
           /\ x5 = Nested("obligations", "obligation")
           /\ x6 = Nested("approval", "approval_requirement")
           /\ x7 = Required("decision_id")
           /\ x8 = Required("schema_version")
    OBVIOUS
  <2>2. <<x1, x2>> ++ <<x3>> = <<x1, x2, x3>>
    BY Grows2
  <2>3. <<x1, x2, x3>> ++ <<x4>> = <<x1, x2, x3, x4>>
    BY Grows3
  <2>4. <<x1, x2, x3, x4>> ++ <<>> = <<x1, x2, x3, x4>>
    BY Rests4
  <2>5. <<x1, x2, x3, x4>> ++ <<x5>> = <<x1, x2, x3, x4, x5>>
    BY Grows4
  <2>6. <<x1, x2, x3, x4, x5>> ++ <<x6>> = <<x1, x2, x3, x4, x5, x6>>
    BY Grows5
  <2>7. <<x1, x2, x3, x4, x5, x6>> ++ <<x7>> = <<x1, x2, x3, x4, x5, x6, x7>>
    BY Grows6
  <2>8. <<x1, x2, x3, x4, x5, x6, x7>> ++ <<x8>> = <<x1, x2, x3, x4, x5, x6, x7, x8>>
    BY Grows7
  <2>9. <<>> ++ <<x1, x2, x3, x4, x5, x6, x7, x8>> = <<x1, x2, x3, x4, x5, x6, x7, x8>>
    BY Rests8
  <2>10. authzen_response_context.checks = <<x1, x2, x3, x4, x5, x6, x7, x8>>
    BY <2>1 DEF authzen_response_context, Type
  <2>11. /\ emit_checks(a) = <<x1, x2>>
         /\ emit_checks(b) = <<x3>>
         /\ emit_checks(c) = <<x4>>
         /\ emit_checks(d) = <<>>
         /\ emit_checks(e) = <<x5>>
         /\ emit_checks(f) = <<x6>>
         /\ emit_checks(g) = <<x7>>
         /\ emit_checks(h) = <<x8>>
    BY <1>a, <1>b, <1>c, <1>d, <1>e, <1>f, <1>g, <1>h, <2>1
  <2> QED
    BY <1>3, <2>2, <2>3, <2>4, <2>5, <2>6, <2>7, <2>8, <2>9, <2>10, <2>11
<1>5. emit_new(t) = authzen_response_context.new
  <2>1. PICK n1, n2, n3, n4, n5 : /\ n1 = "profile"
                                  /\ n2 = "state"
                                  /\ n3 = "category"
                                  /\ n4 = "decision_id"
                                  /\ n5 = "schema_version"
    OBVIOUS
  <2>2. <<n1>> ++ <<n2>> = <<n1, n2>>
    BY Grows1
  <2>3. <<n1, n2>> ++ <<n3>> = <<n1, n2, n3>>
    BY Grows2
  <2>4. <<n1, n2, n3>> ++ <<>> = <<n1, n2, n3>>
    BY Rests3
  <2>5. <<n1, n2, n3>> ++ <<n4>> = <<n1, n2, n3, n4>>
    BY Grows3
  <2>6. <<n1, n2, n3, n4>> ++ <<n5>> = <<n1, n2, n3, n4, n5>>
    BY Grows4
  <2>7. /\ ParameterOf(a) = <<n1>>
        /\ ParameterOf(b) = <<n2>>
        /\ ParameterOf(c) = <<n3>>
        /\ ParameterOf(d) = <<>>
        /\ ParameterOf(e) = <<>>
        /\ ParameterOf(f) = <<>>
        /\ ParameterOf(g) = <<n4>>
        /\ ParameterOf(h) = <<n5>>
    BY <1>a, <1>b, <1>c, <1>d, <1>e, <1>f, <1>g, <1>h, <2>1 DEF ParameterOf, When
  <2>8. authzen_response_context.new = <<n1, n2, n3, n4, n5>>
    BY <2>1 DEF authzen_response_context, Type
  <2> QED
    BY <1>3, <2>2, <2>3, <2>4, <2>5, <2>6, <2>7, <2>8
<1>6. {y.name : y \in {w \in ToSet(t.fields) : ~w.required}} = authzen_response_context.may
  <2>1. authzen_response_context.may = {"reason", "obligations", "approval"}
    BY DEF authzen_response_context, Type
  <2> QED
    BY <1>3, <1>a, <1>b, <1>c, <1>d, <1>e, <1>f, <1>g, <1>h, <2>1
<1>7. parse_type(t)
  <2>1. \A i, j \in DOMAIN t.fields : t.fields[i].name = t.fields[j].name => i = j
    BY <1>2, <1>a, <1>b, <1>c, <1>d, <1>e, <1>f, <1>g, <1>h
  <2>2. t.fields # <<>>
    BY <1>2
  <2>3. \A x \in ToSet(t.fields) : check_ref(x)
    BY <1>3, <1>a, <1>b, <1>c, <1>d, <1>e, <1>f, <1>g, <1>h
  <2> QED
    BY <1>2, <2>1, <2>2, <2>3, ParsesLean
<1>8. authzen_response_context
          = Type(authzen_response_context.new, authzen_response_context.may,
          authzen_response_context.checks)
  BY DEF authzen_response_context, Type
<1> QED
  BY <1>1, <1>4, <1>5, <1>6, <1>7, <1>8 DEF emit_type

LEMMA AuthzenSubjectCurrent ==
    parse_type(Surface.authzen_subject) /\ emit_type(Surface.authzen_subject) = authzen_subject
<1>1. PICK t, a, b, c :
         /\ t = Surface.authzen_subject
         /\ a = Word("type")
         /\ b = Word("id")
         /\ c = Object("properties")
  OBVIOUS
<1>2. t.fields = <<a, b, c>> /\ t.exactly_one_of = <<>>
  BY <1>1 DEF Surface, Fields, Entity
<1>a. /\ a.name = "type" /\ a.required /\ check_ref(a)
      /\ emit_checks(a) = <<Required("type")>>
  BY <1>1, WordField
<1>b. /\ b.name = "id" /\ b.required /\ check_ref(b)
      /\ emit_checks(b) = <<Required("id")>>
  BY <1>1, WordField
<1>c. /\ c.name = "properties" /\ ~c.required /\ check_ref(c)
      /\ emit_checks(c) = <<Bag("properties")>>
  BY <1>1, ObjectField
<1>3. /\ emit_validate(t) = <<>> ++ (emit_checks(a) ++ emit_checks(b) ++ emit_checks(c))
      /\ emit_new(t) = ParameterOf(a) ++ ParameterOf(b) ++ ParameterOf(c)
      /\ ToSet(t.fields) = {a, b, c}
  BY <1>2, Loops3, NoGroups, Validates
<1>4. emit_validate(t) = authzen_subject.checks
  <2>1. PICK x1, x2, x3 :
           /\ x1 = Required("type")
           /\ x2 = Required("id")
           /\ x3 = Bag("properties")
    OBVIOUS
  <2>2. <<x1>> ++ <<x2>> = <<x1, x2>>
    BY Grows1
  <2>3. <<x1, x2>> ++ <<x3>> = <<x1, x2, x3>>
    BY Grows2
  <2>4. <<>> ++ <<x1, x2, x3>> = <<x1, x2, x3>>
    BY Rests3
  <2>5. authzen_subject.checks = <<x1, x2, x3>>
    BY <2>1 DEF authzen_subject, Type
  <2>6. /\ emit_checks(a) = <<x1>>
        /\ emit_checks(b) = <<x2>>
        /\ emit_checks(c) = <<x3>>
    BY <1>a, <1>b, <1>c, <2>1
  <2> QED
    BY <1>3, <2>2, <2>3, <2>4, <2>5, <2>6
<1>5. emit_new(t) = authzen_subject.new
  <2>1. PICK n1, n2 : /\ n1 = "type"
                      /\ n2 = "id"
    OBVIOUS
  <2>2. <<n1>> ++ <<n2>> = <<n1, n2>>
    BY Grows1
  <2>3. <<n1, n2>> ++ <<>> = <<n1, n2>>
    BY Rests2
  <2>4. /\ ParameterOf(a) = <<n1>>
        /\ ParameterOf(b) = <<n2>>
        /\ ParameterOf(c) = <<>>
    BY <1>a, <1>b, <1>c, <2>1 DEF ParameterOf, When
  <2>5. authzen_subject.new = <<n1, n2>>
    BY <2>1 DEF authzen_subject, Type
  <2> QED
    BY <1>3, <2>2, <2>3, <2>4, <2>5
<1>6. {y.name : y \in {w \in ToSet(t.fields) : ~w.required}} = authzen_subject.may
  <2>1. authzen_subject.may = {"properties"}
    BY DEF authzen_subject, Type
  <2> QED
    BY <1>3, <1>a, <1>b, <1>c, <2>1
<1>7. parse_type(t)
  <2>1. \A i, j \in DOMAIN t.fields : t.fields[i].name = t.fields[j].name => i = j
    BY <1>2, <1>a, <1>b, <1>c
  <2>2. t.fields # <<>>
    BY <1>2
  <2>3. \A x \in ToSet(t.fields) : check_ref(x)
    BY <1>3, <1>a, <1>b, <1>c
  <2> QED
    BY <1>2, <2>1, <2>2, <2>3, ParsesLean
<1>8. authzen_subject = Type(authzen_subject.new, authzen_subject.may, authzen_subject.checks)
  BY DEF authzen_subject, Type
<1> QED
  BY <1>1, <1>4, <1>5, <1>6, <1>7, <1>8 DEF emit_type

LEMMA IdentifierCurrent ==
    parse_type(Surface.identifier) /\ emit_type(Surface.identifier) = identifier
<1>1. PICK t, a, b, c, d :
         /\ t = Surface.identifier
         /\ a = Needed(Enum("kind", "identifier_kind"))
         /\ b = Needed(Text("type"))
         /\ c = Text("qualifier")
         /\ d = Word("local")
  OBVIOUS
<1>2. t.fields = <<a, b, c, d>> /\ t.exactly_one_of = <<>>
  BY <1>1 DEF Surface, Fields
<1>a. /\ a.name = "kind" /\ a.required /\ check_ref(a)
      /\ emit_checks(a) = <<Required("kind")>>
  BY <1>1, NeededEnum, KnownNames
<1>b. /\ b.name = "type" /\ b.required /\ check_ref(b)
      /\ emit_checks(b) = <<Required("type")>>
  BY <1>1, NeededText
<1>c. /\ c.name = "qualifier" /\ ~c.required /\ check_ref(c)
      /\ emit_checks(c) = <<>>
  BY <1>1, TextField
<1>d. /\ d.name = "local" /\ d.required /\ check_ref(d)
      /\ emit_checks(d) = <<Required("local")>>
  BY <1>1, WordField
<1>3. /\ emit_validate(t) = <<>> ++ (emit_checks(a) ++ emit_checks(b) ++ emit_checks(c)
             ++ emit_checks(d))
      /\ emit_new(t) = ParameterOf(a) ++ ParameterOf(b) ++ ParameterOf(c) ++ ParameterOf(d)
      /\ ToSet(t.fields) = {a, b, c, d}
  BY <1>2, Loops4, NoGroups, Validates
<1>4. emit_validate(t) = identifier.checks
  <2>1. PICK x1, x2, x3 :
           /\ x1 = Required("kind")
           /\ x2 = Required("type")
           /\ x3 = Required("local")
    OBVIOUS
  <2>2. <<x1>> ++ <<x2>> = <<x1, x2>>
    BY Grows1
  <2>3. <<x1, x2>> ++ <<>> = <<x1, x2>>
    BY Rests2
  <2>4. <<x1, x2>> ++ <<x3>> = <<x1, x2, x3>>
    BY Grows2
  <2>5. <<>> ++ <<x1, x2, x3>> = <<x1, x2, x3>>
    BY Rests3
  <2>6. identifier.checks = <<x1, x2, x3>>
    BY <2>1 DEF identifier, Type
  <2>7. /\ emit_checks(a) = <<x1>>
        /\ emit_checks(b) = <<x2>>
        /\ emit_checks(c) = <<>>
        /\ emit_checks(d) = <<x3>>
    BY <1>a, <1>b, <1>c, <1>d, <2>1
  <2> QED
    BY <1>3, <2>2, <2>3, <2>4, <2>5, <2>6, <2>7
<1>5. emit_new(t) = identifier.new
  <2>1. PICK n1, n2, n3 : /\ n1 = "kind"
                          /\ n2 = "type"
                          /\ n3 = "local"
    OBVIOUS
  <2>2. <<n1>> ++ <<n2>> = <<n1, n2>>
    BY Grows1
  <2>3. <<n1, n2>> ++ <<>> = <<n1, n2>>
    BY Rests2
  <2>4. <<n1, n2>> ++ <<n3>> = <<n1, n2, n3>>
    BY Grows2
  <2>5. /\ ParameterOf(a) = <<n1>>
        /\ ParameterOf(b) = <<n2>>
        /\ ParameterOf(c) = <<>>
        /\ ParameterOf(d) = <<n3>>
    BY <1>a, <1>b, <1>c, <1>d, <2>1 DEF ParameterOf, When
  <2>6. identifier.new = <<n1, n2, n3>>
    BY <2>1 DEF identifier, Type
  <2> QED
    BY <1>3, <2>2, <2>3, <2>4, <2>5, <2>6
<1>6. {y.name : y \in {w \in ToSet(t.fields) : ~w.required}} = identifier.may
  <2>1. identifier.may = {"qualifier"}
    BY DEF identifier, Type
  <2> QED
    BY <1>3, <1>a, <1>b, <1>c, <1>d, <2>1
<1>7. parse_type(t)
  <2>1. \A i, j \in DOMAIN t.fields : t.fields[i].name = t.fields[j].name => i = j
    BY <1>2, <1>a, <1>b, <1>c, <1>d
  <2>2. t.fields # <<>>
    BY <1>2
  <2>3. \A x \in ToSet(t.fields) : check_ref(x)
    BY <1>3, <1>a, <1>b, <1>c, <1>d
  <2> QED
    BY <1>2, <2>1, <2>2, <2>3, ParsesLean
<1>8. identifier = Type(identifier.new, identifier.may, identifier.checks)
  BY DEF identifier, Type
<1> QED
  BY <1>1, <1>4, <1>5, <1>6, <1>7, <1>8 DEF emit_type

LEMMA ObligationCurrent ==
    parse_type(Surface.obligation) /\ emit_type(Surface.obligation) = obligation
<1>1. PICK t, a, b, c, d, e, f :
         /\ t = Surface.obligation
         /\ a = Needed(Enum("type", "obligation_type"))
         /\ b = Filled(Text("target"))
         /\ c = Field("params", "map", "")
         /\ d = Plain0("mandatory", "bool")
         /\ e = Word("source_policy")
         /\ f = Plain0("schema_version", "int")
  OBVIOUS
<1>2. t.fields = <<a, b, c, d, e, f>> /\ t.exactly_one_of = <<>>
  BY <1>1 DEF Surface, Fields
<1>a. /\ a.name = "type" /\ a.required /\ check_ref(a)
      /\ emit_checks(a) = <<Required("type")>>
  BY <1>1, NeededEnum, KnownNames
<1>b. /\ b.name = "target" /\ ~b.required /\ check_ref(b)
      /\ emit_checks(b) = <<MinLength("target")>>
  BY <1>1, FilledText
<1>c. /\ c.name = "params" /\ ~c.required /\ check_ref(c)
      /\ emit_checks(c) = <<>>
  BY <1>1, OtherField
<1>d. /\ d.name = "mandatory" /\ d.required /\ check_ref(d)
      /\ emit_checks(d) = <<>>
  BY <1>1, PlainField
<1>e. /\ e.name = "source_policy" /\ e.required /\ check_ref(e)
      /\ emit_checks(e) = <<Required("source_policy")>>
  BY <1>1, WordField
<1>f. /\ f.name = "schema_version" /\ f.required /\ check_ref(f)
      /\ emit_checks(f) = <<>>
  BY <1>1, PlainField
<1>3. /\ emit_validate(t) = <<>> ++ (emit_checks(a) ++ emit_checks(b) ++ emit_checks(c)
             ++ emit_checks(d) ++ emit_checks(e) ++ emit_checks(f))
      /\ emit_new(t) = ParameterOf(a) ++ ParameterOf(b) ++ ParameterOf(c) ++ ParameterOf(d)
             ++ ParameterOf(e) ++ ParameterOf(f)
      /\ ToSet(t.fields) = {a, b, c, d, e, f}
  BY <1>2, Loops6, NoGroups, Validates
<1>4. emit_validate(t) = obligation.checks
  <2>1. PICK x1, x2, x3 :
           /\ x1 = Required("type")
           /\ x2 = MinLength("target")
           /\ x3 = Required("source_policy")
    OBVIOUS
  <2>2. <<x1>> ++ <<x2>> = <<x1, x2>>
    BY Grows1
  <2>3. <<x1, x2>> ++ <<>> = <<x1, x2>>
    BY Rests2
  <2>4. <<x1, x2>> ++ <<x3>> = <<x1, x2, x3>>
    BY Grows2
  <2>5. <<x1, x2, x3>> ++ <<>> = <<x1, x2, x3>>
    BY Rests3
  <2>6. <<>> ++ <<x1, x2, x3>> = <<x1, x2, x3>>
    BY Rests3
  <2>7. obligation.checks = <<x1, x2, x3>>
    BY <2>1 DEF obligation, Type
  <2>8. /\ emit_checks(a) = <<x1>>
        /\ emit_checks(b) = <<x2>>
        /\ emit_checks(c) = <<>>
        /\ emit_checks(d) = <<>>
        /\ emit_checks(e) = <<x3>>
        /\ emit_checks(f) = <<>>
    BY <1>a, <1>b, <1>c, <1>d, <1>e, <1>f, <2>1
  <2> QED
    BY <1>3, <2>2, <2>3, <2>4, <2>5, <2>6, <2>7, <2>8
<1>5. emit_new(t) = obligation.new
  <2>1. PICK n1, n2, n3, n4 : /\ n1 = "type"
                              /\ n2 = "mandatory"
                              /\ n3 = "source_policy"
                              /\ n4 = "schema_version"
    OBVIOUS
  <2>2. <<n1>> ++ <<>> = <<n1>>
    BY Rests1
  <2>3. <<n1>> ++ <<n2>> = <<n1, n2>>
    BY Grows1
  <2>4. <<n1, n2>> ++ <<n3>> = <<n1, n2, n3>>
    BY Grows2
  <2>5. <<n1, n2, n3>> ++ <<n4>> = <<n1, n2, n3, n4>>
    BY Grows3
  <2>6. /\ ParameterOf(a) = <<n1>>
        /\ ParameterOf(b) = <<>>
        /\ ParameterOf(c) = <<>>
        /\ ParameterOf(d) = <<n2>>
        /\ ParameterOf(e) = <<n3>>
        /\ ParameterOf(f) = <<n4>>
    BY <1>a, <1>b, <1>c, <1>d, <1>e, <1>f, <2>1 DEF ParameterOf, When
  <2>7. obligation.new = <<n1, n2, n3, n4>>
    BY <2>1 DEF obligation, Type
  <2> QED
    BY <1>3, <2>2, <2>3, <2>4, <2>5, <2>6, <2>7
<1>6. {y.name : y \in {w \in ToSet(t.fields) : ~w.required}} = obligation.may
  <2>1. obligation.may = {"target", "params"}
    BY DEF obligation, Type
  <2> QED
    BY <1>3, <1>a, <1>b, <1>c, <1>d, <1>e, <1>f, <2>1
<1>7. parse_type(t)
  <2>1. \A i, j \in DOMAIN t.fields : t.fields[i].name = t.fields[j].name => i = j
    BY <1>2, <1>a, <1>b, <1>c, <1>d, <1>e, <1>f
  <2>2. t.fields # <<>>
    BY <1>2
  <2>3. \A x \in ToSet(t.fields) : check_ref(x)
    BY <1>3, <1>a, <1>b, <1>c, <1>d, <1>e, <1>f
  <2> QED
    BY <1>2, <2>1, <2>2, <2>3, ParsesLean
<1>8. obligation = Type(obligation.new, obligation.may, obligation.checks)
  BY DEF obligation, Type
<1> QED
  BY <1>1, <1>4, <1>5, <1>6, <1>7, <1>8 DEF emit_type

(* The one type with a group of members and with members its part must     *)
(* have.                                                                   *)
LEMMA AuthzenEnvelopeCurrent ==
    parse_type(Surface.authzen_envelope) /\ emit_type(Surface.authzen_envelope) = authzen_envelope
<1>0. PICK n1, n2, p1, p2, p3, ps :
         /\ n1 = "evaluation" /\ n2 = "evaluations"
         /\ p1 = "action" /\ p2 = "resource" /\ p3 = "subject"
         /\ ps = <<p1, p2, p3>>
  OBVIOUS
<1>1. PICK t, a, b, g :
         /\ t = Surface.authzen_envelope
         /\ a = Based(Ref(n1, "authzen_request"), ps)
         /\ b = Ref(n2, "authzen_bulk")
         /\ g = <<n1, n2>>
  OBVIOUS
<1>2. t.fields = <<a, b>> /\ t.exactly_one_of = <<g>>
  BY <1>0, <1>1 DEF Surface, Based
<1>a. /\ a.name = n1 /\ ~a.required
      /\ a.kind = "ref" /\ a.of = "authzen_request" /\ a.requires = <<p1, p2, p3>>
      /\ emit_checks(a) = <<Base(n1, p1), Base(n1, p2), Base(n1, p3),
                            Nested(n1, "authzen_request")>>
  BY <1>0, <1>1, BasedRef
<1>b. /\ b.name = n2 /\ ~b.required /\ check_ref(b)
      /\ emit_checks(b) = <<Nested(n2, "authzen_bulk")>>
  BY <1>1, RefField, KnownNames
<1>c. check_ref(a)
  <2>1. PICK r, u, v, w, x :
           /\ r = Surface["authzen_request"]
           /\ u = Ref("subject", "authzen_subject") /\ v = Ref("action", "authzen_action")
           /\ w = Ref("resource", "authzen_resource") /\ x = Object("context")
    OBVIOUS
  <2>2. r.fields = <<u, v, w, x>>
    BY <2>1 DEF Surface, Fields, Parts
  <2>3. u.name = p3 /\ v.name = p1 /\ w.name = p2
    BY <1>0, <2>1, RefField
  <2>4. u \in ToSet(r.fields) /\ v \in ToSet(r.fields) /\ w \in ToSet(r.fields)
    BY <2>2 DEF ToSet
  <2>5. ToSet(a.requires) \subseteq {p1, p2, p3}
    BY <1>a DEF ToSet
  <2>6. ToSet(a.requires) \subseteq {y.name : y \in ToSet(Surface[a.of].fields)}
    BY <1>a, <2>1, <2>3, <2>4, <2>5
  <2>7. a.of \in DOMAIN Surface
    BY <1>a, KnownNames
  <2> QED
    BY <1>a, <2>6, <2>7 DEF check_ref
<1>3. Checks(t) = emit_checks(a) ++ emit_checks(b)
      /\ emit_new(t) = ParameterOf(a) ++ ParameterOf(b)
      /\ ToSet(t.fields) = {a, b}
  BY <1>2, Loops2
<1>4. Groups(t) = <<ExactlyOne(n1, n2)>>
  <2>1. PICK x, ss : x = <<ExactlyOne(n1, n2)>> /\ ss = <<x>>
    OBVIOUS
  <2>2. [i \in DOMAIN t.exactly_one_of |->
           <<ExactlyOne(t.exactly_one_of[i][1], t.exactly_one_of[i][2])>>] = ss
    BY <1>1, <1>2, <2>1
  <2>3. PICK upto : Flattens(upto, ss, 1) /\ FlattenSeq(ss) = upto[1]
    <3>1. 1 \in 1 .. 8 /\ Len(ss) = 1
      BY <2>1
    <3> QED
      BY <3>1, Flattening
  <2>4. upto[1] = x
    BY <2>1, <2>3 DEF Flattens
  <2> QED
    BY <2>1, <2>2, <2>3, <2>4 DEF Groups
<1>5. emit_validate(t) = authzen_envelope.checks
  <2>1. PICK x1, x2, x3, x4, x5, x6 :
           /\ x1 = ExactlyOne(n1, n2)
           /\ x2 = Base(n1, p1) /\ x3 = Base(n1, p2) /\ x4 = Base(n1, p3)
           /\ x5 = Nested(n1, "authzen_request") /\ x6 = Nested(n2, "authzen_bulk")
    OBVIOUS
  <2>2. emit_checks(a) = <<x2, x3, x4, x5>> /\ emit_checks(b) = <<x6>> /\ Groups(t) = <<x1>>
    BY <1>a, <1>b, <1>4, <2>1
  <2>3. <<x2, x3, x4, x5>> ++ <<x6>> = <<x2, x3, x4, x5, x6>>
    BY Grows4
  <2>4. <<x1>> ++ <<x2, x3, x4, x5, x6>> = <<x1, x2, x3, x4, x5, x6>>
    <3>1. PICK T, s, r : /\ T = {x1, x2, x3, x4, x5, x6}
                         /\ s = <<x1>> /\ r = <<x2, x3, x4, x5, x6>>
      OBVIOUS
    <3>2. s \in Seq(T) /\ r \in Seq(T) /\ Len(s) = 1 /\ Len(r) = 5
      BY <3>1
    <3>3. PICK u : u = s \o r
      OBVIOUS
    <3>4. /\ u \in Seq(T) /\ Len(u) = 6
          /\ u[1] = x1 /\ u[2] = x2 /\ u[3] = x3 /\ u[4] = x4 /\ u[5] = x5 /\ u[6] = x6
      BY <3>1, <3>2, <3>3
    <3>5. u = <<x1, x2, x3, x4, x5, x6>>
      BY <3>4
    <3> QED
      BY <3>1, <3>3, <3>5 DEF ++
  <2>5. authzen_envelope.checks = <<x1, x2, x3, x4, x5, x6>>
    BY <1>0, <2>1 DEF authzen_envelope, Type
  <2>6. emit_validate(t) = Groups(t) ++ Checks(t)
    BY Validates
  <2> QED
    BY <1>3, <2>2, <2>3, <2>4, <2>5, <2>6
<1>6. emit_new(t) = authzen_envelope.new
  <2>1. ParameterOf(a) = <<>> /\ ParameterOf(b) = <<>>
    BY <1>a, <1>b DEF ParameterOf, When
  <2>2. <<>> ++ <<>> = <<>>
    BY DEF ++
  <2>3. authzen_envelope.new = <<>>
    BY DEF authzen_envelope, Type
  <2> QED
    BY <1>3, <2>1, <2>2, <2>3
<1>7. {y.name : y \in {w \in ToSet(t.fields) : ~w.required}} = authzen_envelope.may
  <2>1. authzen_envelope.may = {n1, n2}
    BY <1>0 DEF authzen_envelope, Type
  <2> QED
    BY <1>3, <1>a, <1>b, <2>1
<1>8. parse_type(t)
  <2>1. \A i, j \in DOMAIN t.fields : t.fields[i].name = t.fields[j].name => i = j
    <3>1. n1 # n2
      BY <1>0
    <3>2. t.fields[1].name = n1 /\ t.fields[2].name = n2 /\ DOMAIN t.fields = {1, 2}
      BY <1>2, <1>a, <1>b
    <3> QED
      BY <3>1, <3>2
  <2>2. t.fields # <<>>
    BY <1>2
  <2>3. \A x \in ToSet(t.fields) : check_ref(x)
    BY <1>3, <1>b, <1>c
  <2>4. ToSet(t.exactly_one_of) = {g}
    BY <1>2 DEF ToSet
  <2>5. Len(g) >= 2 /\ ToSet(g) \subseteq {y.name : y \in ToSet(t.fields)}
    <3>1. Len(g) = 2 /\ ToSet(g) = {n1, n2}
      BY <1>1 DEF ToSet
    <3> QED
      BY <1>3, <1>a, <1>b, <3>1
  <2> QED
    BY <2>1, <2>2, <2>3, <2>4, <2>5 DEF parse_type
<1>9. authzen_envelope = Type(authzen_envelope.new, authzen_envelope.may, authzen_envelope.checks)
  BY DEF authzen_envelope, Type
<1> QED
  BY <1>1, <1>5, <1>6, <1>7, <1>8, <1>9 DEF emit_type

(* Every type, and every enum.                                             *)
LEMMA TypesCurrent ==
    ASSUME NEW t \in DOMAIN Surface
    PROVE  parse_type(Surface[t]) /\ emit_type(Surface[t]) = Types[t]
<1>1. /\ Types.approval_clause = approval_clause
      /\ Types.approval_requirement = approval_requirement
      /\ Types.authzen_action = authzen_action
      /\ Types.authzen_bulk = authzen_bulk
      /\ Types.authzen_envelope = authzen_envelope
      /\ Types.authzen_error = authzen_error
      /\ Types.authzen_request = authzen_request
  BY DEF Types
<1>2. /\ Types.authzen_resource = authzen_resource
      /\ Types.authzen_response = authzen_response
      /\ Types.authzen_response_context = authzen_response_context
      /\ Types.authzen_subject = authzen_subject
      /\ Types.identifier = identifier
      /\ Types.obligation = obligation
  BY DEF Types
<1>3. CASE t \in {"approval_clause", "approval_requirement", "authzen_action", "authzen_bulk"}
  BY <1>1, <1>3, ApprovalClauseCurrent, ApprovalRequirementCurrent, AuthzenActionCurrent,
     AuthzenBulkCurrent
<1>4. CASE t \in {"authzen_envelope", "authzen_error", "authzen_request"}
  BY <1>1, <1>4, AuthzenEnvelopeCurrent, AuthzenErrorCurrent, AuthzenRequestCurrent
<1>5. CASE t \in {"authzen_resource", "authzen_response", "authzen_response_context"}
  BY <1>2, <1>5, AuthzenResourceCurrent, AuthzenResponseCurrent, AuthzenResponseContextCurrent
<1>6. CASE t \in {"authzen_subject", "identifier", "obligation"}
  BY <1>2, <1>6, AuthzenSubjectCurrent, IdentifierCurrent, ObligationCurrent
<1> QED
  BY <1>3, <1>4, <1>5, <1>6, KnownNames

LEMMA EnumsCurrent ==
    ASSUME NEW e \in DOMAIN Enumerations
    PROVE  /\ Enumerations[e] # <<>> /\ IsInjective(Enumerations[e])
           /\ emit_enum(Enumerations[e]) = Enums[e]
<1>1. CASE e = "authzen_error_code"
  BY <1>1 DEF Enumerations, IsInjective, emit_enum, ToSet, Enums, authzen_error_code
<1>2. CASE e = "category"
  BY <1>2 DEF Enumerations, IsInjective, emit_enum, ToSet, Enums, category
<1>3. CASE e = "identifier_kind"
  BY <1>3 DEF Enumerations, IsInjective, emit_enum, ToSet, Enums, identifier_kind
<1>4. CASE e = "obligation_type"
  BY <1>4 DEF Enumerations, IsInjective, emit_enum, ToSet, Enums, obligation_type
<1>5. CASE e = "operational_state"
  BY <1>5 DEF Enumerations, IsInjective, emit_enum, ToSet, Enums, operational_state
<1>6. CASE e = "reason_code"
  BY <1>6 DEF Enumerations, IsInjective, emit_enum, ToSet, Enums, reason_code
<1> QED
  BY <1>1, <1>2, <1>3, <1>4, <1>5, <1>6, KnownNames

(* What is generated from the artifact is what is committed.               *)
LEMMA RenderedIsCommitted == check
<1>1. parse_surface(Artifact)
  <2>1. Artifact.method = "POST" /\ Artifact.profile_header # ""
    BY DEF Artifact
  <2>2. PICK p, a, b, c, d, e : /\ p = Artifact.path
                                /\ a = "" /\ b = "api" /\ c = "v1" /\ d = "access"
                                   /\ e = "evaluation"
    OBVIOUS
  <2>3. Len(p) > 1 /\ Head(p) = "" /\ Last(p) # ""
    <3>1. p = <<a, b, c, d, e>>
      BY <2>2 DEF Artifact
    <3>2. Len(p) = 5 /\ Head(p) = a /\ p[5] = e
      BY <3>1
    <3>3. Last(p) = e
      BY <3>2 DEF Last
    <3>4. a = "" /\ e # ""
      BY <2>2
    <3>5. 5 > 1
      OBVIOUS
    <3> QED
      BY <3>2, <3>3, <3>4, <3>5
  <2> QED
    BY <2>1, <2>2, <2>3, TypesCurrent, EnumsCurrent DEF parse_surface
<1>2. /\ DOMAIN Surface # {} /\ DOMAIN Enumerations # {}
      /\ Artifact.artifact = "axonflow-authzen-surface" /\ Artifact.artifact_version = 1
  <2>1. "obligation" \in DOMAIN Surface /\ "category" \in DOMAIN Enumerations
    BY KnownNames
  <2> QED
    BY <2>1 DEF Artifact
<1>3. write_header(Artifact) = Committed.header
  BY DEF write_header, Artifact, Committed, AUTHZEN_PROFILE_V1, AUTHZEN_CONTRACT_SCHEMA_VERSION,
         AUTHZEN_PATH, AUTHZEN_PROFILE_HEADER
<1>4. [e \in DOMAIN Enumerations |-> emit_enum(Enumerations[e])] = Enums
  <2>1. Enums = [e \in DOMAIN Enums |-> Enums[e]]
    BY DEF Enums
  <2> QED
    BY <2>1, EnumsCurrent, KnownNames
<1>5. [t \in DOMAIN Surface |-> emit_type(Surface[t])] = Types
  <2>1. Types = [t \in DOMAIN Types |-> Types[t]]
    BY DEF Types
  <2> QED
    BY <2>1, TypesCurrent, KnownNames
<1>6. Committed = [header |-> Committed.header, enums |-> Enums, types |-> Types]
  BY DEF Committed
<1>7. emit(Artifact) = <<[header |-> write_header(Artifact),
                          enums |-> [e \in DOMAIN Enumerations |-> emit_enum(Enumerations[e])],
                          types |-> [t \in DOMAIN Surface |-> emit_type(Surface[t])]]>>
  BY <1>1, <1>2 DEF emit
<1> QED
  BY <1>3, <1>4, <1>5, <1>6, <1>7 DEF check, render

-----------------------------------------------------------------------------
(* What the committed types, enums and header say is what the generator    *)
(* makes of the platform's artifact, and the generator takes the artifact: *)
(* the gate that reads a decision checks what the platform's surface asks. *)
THEOREM SessionGeneratedIsCurrent == SessionSpec => []GeneratedIsCurrent
<1>1. GeneratedIsCurrent
  BY RenderedIsCommitted DEF GeneratedIsCurrent
<1> QED
  BY <1>1, PTL

=============================================================================
