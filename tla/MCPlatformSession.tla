------------------------- MODULE MCPlatformSession -------------------------
(* A small platform for PlatformSession: one client that may act for       *)
(* somebody, every operation of the surfaces, and what may answer at the   *)
(* endpoint instead of the platform.                                       *)
EXTENDS PlatformSession

MCTokens == {" bob ", "mal\nory"}
MCUnusable == {"mal\nory"}
MCTrim(t) == IF t = " bob " THEN "bob" ELSE t

Url(scheme, host, port) == [scheme |-> scheme, host |-> host, port |-> port]

MCHome == Url("https", "agent", 0)

MCTargets ==
    {Url("https", "agent", 443), Url("http", "agent", 0), Url("https", "other", 0),
     Url("https", "agent", 8443)}

Simple(surface, name, method, writes) ==
    [surface |-> surface, call |-> name, method |-> method, writes |-> writes,
     override |-> <<>>, id |-> "an id"]

ReadsOps ==
    {[Simple("reads", name, "GET", FALSE) EXCEPT !.override = override] :
       name \in {"explain", "list"}, override \in {<<>>, <<"">>, <<" bob ">>, <<"mal\nory">>}}
    \cup {[Simple("reads", "explain", "GET", FALSE) EXCEPT !.id = ""]}

TypedOps ==
    {Simple("typed", name, "GET", FALSE) : name \in {"edition", "active", "system"}}
    \cup {Simple("typed", "validate", "POST", FALSE)}
    \cup {Simple("typed", name, "POST", TRUE) : name \in {"publish", "activate"}}

CheckedOps ==
    LET called(name) == Simple("checked", name, Operation[name].method, Operation[name].writes)
    IN {called(name) : name \in DOMAIN Operation}
       \cup {[called(name) EXCEPT !.id = ""] : name \in {n \in DOMAIN Operation : Operation[n].needs}}

AuthzenOps ==
    {Evaluation("single", lacks) : lacks \in {"none", "id", "action"}}
    \cup {Evaluation("entry", lacks) : lacks \in {"none", "entries"}}
    \cup {Evaluation("shared", "none")}

MCOps == ReadsOps \cup TypedOps \cup CheckedOps \cup AuthzenOps

MCRank(type) ==
    CHOOSE i \in 1 .. 3 : <<"field_encrypt", "field_mask", "field_redact">>[i] = type

Mask == <<"field_mask", 1>>
Redact == <<"field_redact", 1>>

MCSpelling(name) ==
    CASE name = "gateway" -> [bytes |-> 7, first |-> "lower", tail |-> {"lower", "mark"}]
      [] name = "https://pep" -> [bytes |-> 11, first |-> "lower", tail |-> {"lower", "uri"}]
      [] name = "" -> [bytes |-> 0, first |-> "none", tail |-> {}]
      [] name = "P" -> [bytes |-> 1, first |-> "upper", tail |-> {}]
      [] name = "-p" -> [bytes |-> 2, first |-> "mark", tail |-> {"lower"}]
      [] name = "longest" -> [bytes |-> 128, first |-> "upper", tail |-> {"lower"}]
      [] name = "too long" -> [bytes |-> 129, first |-> "lower", tail |-> {"lower"}]

Draft(pep_id, audience, capabilities) ==
    [pep_id |-> pep_id, audience |-> audience, capabilities |-> capabilities]

MCDrafts ==
    {Draft("gateway", "https://pep", c) :
       c \in {<<>>, <<Redact, Mask>>, <<Mask, Redact>>, <<Mask, Redact, Mask>>,
              <<<<"field_mask", 0>>>>, <<<<"field_encrypt", 1>>>>,
              <<Mask, Redact, <<"field_mask", 2>>, <<"field_redact", 2>>>>}}
    \cup {Draft("gateway", "longest", <<Redact, Mask>>), Draft("gateway", "-p", <<>>)}
    \cup {Draft(name, "https://pep", <<>>) : name \in {"", "P", "too long", "https://pep"}}

MCNames == {" LangChain ", "langchain", "litellm", "crewai", " ", "of 65 bytes"}

MCnormalized(name) ==
    CASE name = " LangChain " -> "langchain"
      [] name = " " -> ""
      [] OTHER -> name

MCsize(name) ==
    CASE name = " LangChain " -> 11
      [] name = "langchain" -> 9
      [] name = "litellm" -> 7
      [] name = "crewai" -> 6
      [] name = " " -> 1
      [] name = "" -> 0
      [] name = "of 65 bytes" -> 65

Alphabetical ==
    <<"", " ", " LangChain ", "crewai", "langchain", "litellm", "of 65 bytes">>

Place(name) == CHOOSE i \in DOMAIN Alphabetical : Alphabetical[i] = name

MCEarlier(a, b) == Place(a) < Place(b)

Context(state) ==
    [profile |-> <<AUTHZEN_PROFILE_V1>>, state |-> <<state>>, category |-> <<"allowed">>,
     decision_id |-> <<"d">>, schema_version |-> <<"s">>]

Obligation ==
    [type |-> <<"field_redact">>, mandatory |-> <<TRUE>>, source_policy |-> <<"p">>,
     schema_version |-> <<1>>]

Approver == [kind |-> <<"principal">>, type |-> <<"user">>, local |-> <<"bob">>]

Clause(eligible) == [quorum |-> <<1>>, eligible |-> eligible]

Approval(clauses) ==
    [all_of |-> clauses, separation_of_duties |-> <<TRUE>>, expires_at |-> <<"t">>]

Owing(obligations) == With(Context("ALLOW"), "obligations", obligations)

Challenged(state, clauses) == With(Context(state), "approval", <<Approval(clauses)>>)

Contexts ==
    {Context(state) : state \in {"ALLOW", "DENY", "ERROR", "ALLOW_ONCE", ""}}
    \cup {Owing(<<Obligation>>), Owing(<<Obligation, [Obligation EXCEPT !.source_policy = <<"">>]>>),
          Owing(<<With(Obligation, "target", <<"">>)>>),
          Owing(<<[Obligation EXCEPT !.type = <<"field_encrypt">>]>>),
          Challenged("CHALLENGE", <<Clause(<<Approver>>)>>),
          Challenged("ALLOW", <<>>),
          Challenged("ALLOW", <<Clause(<<Approver>>), Clause(<<>>)>>),
          Challenged("ALLOW", <<Clause(<<[Approver EXCEPT !.local = <<"">>]>>)>>),
          With(Context("ALLOW"), "conditions", <<"until noon">>),
          [Context("ALLOW") EXCEPT !.profile = <<"a newer profile">>],
          [Context("ALLOW") EXCEPT !.decision_id = <<"">>],
          Restrict(Context("ALLOW"), {"profile", "state", "decision_id"})}

MCVerdicts ==
    {[decision |-> <<TRUE>>, context |-> <<c>>] : c \in Contexts}
    \cup {[decision |-> <<FALSE>>, context |-> <<Context(state)>>] :
             state \in {"ALLOW", "DENY", "ERROR"}}
    \cup {[decision |-> <<TRUE>>]}

Gateway(status) == Plain(status, "gateway", "transient")

MCStrays ==
    {Plain(200, "page_html", "done"), Plain(200, "object", "done"),
     Plain(200, "acknowledgement", "done"), Plain(404, "page_html", "final"),
     Gateway(502), Gateway(429)}
=============================================================================
