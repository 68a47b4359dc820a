# A formal model of the AxonFlow Rust SDK

TLA+ modules, TLC configurations and TLAPS proofs for `axonflow-sdk-rust`.
Paths are relative to the repository unless they begin with `tla/`; `client.rs`
stands for `src/client.rs`, and so on.

## 1. Inventory

The SDK is a client library: an application holds an `AxonFlowClient`, and every
method is an `async` exchange with the governance platform. There is no thread
of its own and nothing is persisted but one stamp file. What is hard is what
happens at an `await`: the caller can drop the future there, other calls of the
process run there, the exchange can fail there, and other processes of the
machine run all the time.

| Component | State | Operations | Interacts with | Hard behaviour |
|---|---|---|---|---|
| Telemetry heartbeat, `heartbeat.rs` | process-wide `GateInner`, the machine's stamp file, the adapter registry | claim, stamp check, `/health` probe, POST, `record_attempt`, `write_stamp`, slot release, `register_adapter` | called inside `dispatch` by every request of every client | races for the slot, dropped passes, lost answers, restarts, unwritable stamps, stepped clocks, backoff |
| Governed call, `client.rs`, `error.rs` | loop variable and last error of a call | `proxy_llm_call`, `execute_with_retry`, `execute_request`, `dispatch`, fail-open, `query_connector`, `generate_plan`, `execute_plan` | cache, platform, heartbeat | mutations executed twice, refusals overtaken by later errors, answers cut off |
| Response cache, `client.rs` | `moka` cache shared by the clients `as_user` derives | get, insert, eviction | governed call | identity in the key, racing and dropped insertions, what may be stored |
| Enforcement point, `pep.rs` | the loop's content and `did_redact` | `decide`, `fulfill_request`, `decide_and_fulfill`, `has_request_redaction` | platform's `/decide` and redaction engine | an obligation skipped, an engine that did not run, a policy that changes in between |
| Request funnel, `client.rs`, `error.rs` | the client's identity and declaration; the request under way | `as_user`, `with_pep_handshake`, `dispatch`, `stamp_identity`, `redirect_policy`, `check_status`, `is_retryable` | every operation below goes through it | redirects, answers from something that is not the platform, lost answers, repetitions, whose identity goes out |
| PEP handshake, `pep_handshake.rs` | none (a validated value) | `PEPHandshake::new` | carried by some routes only | validation order, canonical form, the encoding's length |
| Read identity and decisions, `read_identity.rs`, `decisions.rs` | none | list and explain decisions under a read scope | platform | an empty answer means "nothing" or "nothing you may see" |
| AuthZEN, `authzen/` | attribute maps | record, insert, validate, evaluate | platform | an unknown attribute must not turn into an absent one; an answer must be readable whole |
| AuthZEN generator, `tools/gen-authzen-types` | none | parse the artifact, emit types and checks | a committed file | a check the artifact prescribes and the file lacks |
| Typed policies, `typed_policies.rs` | none | edition, validate, publish, activate, active, system corpus | platform | which refusals may be retried, what "nothing active" means |
| Approvals, `hitl.rs` | none | create, get, list, approve, reject, stats | platform | paging a queue that moves, reviews that do not look at the answer |
| Connector, plan and audit helpers, `client.rs` | none | seven exchanges | platform | foreign documents that decode |
| Interceptors, `interceptors/` | none | check, model call, spawned audit | governed call | audit lost or attributed to a cached request |
| Types, configuration, examples | plain data | | | |

What makes each correct: the heartbeat holds its slot for exactly one live pass,
keeps its cadence, backs off and stays visible; a governed call executes a
mutation once, ends at a refusal and hands a caller only its own verdict; the
cache holds only successes of the platform; the enforcement point forwards only
what the engine evaluated for every obligation; a request speaks for the person
the application named and for nobody after a redirect; an application that
repeats what is called retryable repeats nothing final; a change reported with
its record is one the platform made; an allow is acted on only when all that qualifies it could
be read; a model is called only on a verdict of one's own, and what the audit
trail lacks has a reason.

## 2. Modules

| Module | Role |
|---|---|
| `PingCadence` | abstract: what the heartbeat promises each process |
| `HeartbeatGate` | the heartbeat of the processes of one machine |
| `MCHeartbeatGate` | instances of it for TLC |
| `HeartbeatGateProofs` | theorems about it |
| `GovernedPromise` | abstract: what a governed call promises its caller |
| `GovernedCall` | calls, shared cache, retry loop, platform |
| `MCGovernedCall`, `GovernedCallProofs` | instances, theorems |
| `Interceptor`, `MCInterceptor`, `InterceptorProofs` | the wrapped LLM clients over `GovernedCall`, instance, theorems |
| `Pep`, `MCPep`, `PepProofs` | the enforcement point, instances, theorem |
| `CallPromise` | abstract: what one call of the client promises the application |
| `Exchange`, `ExchangeProofs` | one call through the request funnel, with the surface a parameter; theorems |
| `Documents` | the members without which the client does not decode a document |
| `Reads`, `TypedPolicies`, `Checked`, `Authzen` | the surfaces put into `Exchange` |
| `AttributeMap`, `AuthzenTypes`, `Generator` | the attribute bags, the generated types and checks, what the artifact prescribes |
| `Handshake` | the capability declaration |
| `PingPass`, `PingPassProofs` | one heartbeat pass from the inside; theorems |
| `Adapters` | the adapter registry and what a ping reports of it |
| `HitlWalk`, `HitlWalkProofs` | paging through the approval queue; theorem |
| `Ordering` | a finite set listed in an order, for `Handshake` and `Adapters` |
| `PlatformSession`, `MCPlatformSession`, `PlatformSessionProofs` | all of these composed, instance, theorems |

`Interceptor` extends `GovernedCall` and adds a layer over its calls.
`PlatformSession` extends `Exchange` with its four surfaces, `PingPass`,
`Adapters` and `HitlWalk`: the heartbeat pass sits between a call's gate and its
sending, as it does in `dispatch`, and reports the adapters declared meanwhile.

Definitions named `Mutant...` are broken variants of the definition that follows
them; each run's properties were seen to fail under one of them. They are used by
no specification.

### HeartbeatGate

State: the four fields of `GateInner` for each process, `AXONFLOW_TELEMETRY`, the
place `pc` of each call's pass, the stamp's age, whether the checkpoint service
is reachable, and what an observer would record (`sinceAccepted`, `known`,
`sinceAttempt`, `lost`). Time is discrete; an instant is kept as its age,
saturated at `HEARTBEAT_INTERVAL`, the largest bound the code compares with.
`consecutive_failures` is kept up to 16 (`MAX_DOUBLINGS`), beyond which the code
does not look at it.

| Action | Code |
|---|---|
| `Claim` | `prepare_heartbeat`, `claim_gate_slot` |
| `StampFresh` | `gated_send` returning at the fresh stamp |
| `Probe`, `Post`, `ClientBuildFails` | `send_heartbeat` up to each await |
| `Delivered`, `Undelivered` | its result, and `record_attempt` |
| `write_stamp` | `write_stamp`, and the end of the pass (`GateSlot::drop`) |
| `Cancel` | the future dropped: by the caller, the outer timeout, a runtime shutting a spawned pass down. A file write already handed to the blocking pool may still land |
| `Restart`, `Tick`, `ClockStep`, `Outage`, `SetTelemetry`, `Accept` | the process, time, wall clock, network, environment, checkpoint service |

`Faults` says which of the surroundings' actions may happen, so a run states what
a property needs and the proofs hold for any set.

### GovernedCall

One member of `Calls` is one call. `pc` is where its future is suspended: the
telemetry gate in `dispatch` (`gated`), the response head (`waiting`), the body
(`reading`), the backoff (`sleeping`), the cache insertion (`filling`). The
answer of the platform is a member of `Answers`, one for each way
`execute_request` treats a response:

| Answer | Response |
|---|---|
| `allow`, `refuse`, `blocked` | 2xx with success; 2xx without; an explicit blocked verdict (also 402/403) |
| `denied`, `client_error` | 402/403 without one; another 4xx |
| `cap_header`, `cap_body` | 429 of the Hosted cap, told by its header or its body |
| `busy`, `fault`, `garbled`, `moved` | 429, 5xx, 2xx that does not parse, 3xx |

`Ask`, `ServeFromCache`, `Fill` are `proxy_llm_call`; `Send`, `RejectToken`,
`Unreachable` are `dispatch`; `Head`, `HearResponse`, `HearError`, `TimeOut`,
`Reset` are `execute_request`; `FailAttempt`, `Wake` are `execute_with_retry`,
with the fail-open decision where the loop ends; `Return` adds what
`generate_plan` and `execute_plan` make of a response without data. The platform
takes a request up (`Handle`) at any time after it was sent, also when the client
has given it up (`HandleStray`): that is what makes `MutationOnce` a property of
the client's retries and not of a lucky order.

### Pep

Content is the set of PII items it still carries. The engine masks what its
policy detects at the moment the request reaches it; an administrator may change
the policy between any two steps. `path` is either `decide_and_fulfill` or a
caller that first asks `has_request_redaction`; `Ask` to `Decided` are `decide`,
`Skip`, `Refuse`, `Submit` and `Finish` the turns of `fulfill_request`,
`Fulfilled`, `NotFulfilled` and `BodyLost` the ends of `fulfill_via_check_input`. `ran` records the policy under
which each obligation was evaluated.

### Interceptor

`CallModel` goes ahead on any check that came back without an error and is not
blocked, as the wrapper does; `ModelAnswers` spawns the audit if the response has a
`request_id`, which a verdict from the cache brings along from the call it was
given to; `audit_llm_call` is the spawned task, and `Exit` ends the process with
the tasks on it. Both providers' files have this control.

### Exchange and its surfaces

`client` is the client called on: `as_user` and `with_pep_handshake` derive
another. `Begin` and `Call` are an operation and what it refuses locally; `Send` is
`dispatch` with `stamp_identity`; `TooManyRedirects`, `FollowRedirect` and
`StopRedirect` are `redirect_policy` as the HTTP library calls it (a followed POST
may become a GET without its body); `Handle` is the operation's handler, or
whatever else answers there (`Strays`); `GatewayAnswers`, `Unreachable` and `Lose`
are the ways an answer is replaced or lost; `Arrive` is what the operation makes of
it. `Retry` is the application that repeats a call while `is_retryable` says so.
Every answer carries what the platform meant by it (`done`, `final`, `transient`),
which the code cannot see and the properties compare with.

`CallPromise` has no tokens, redirects, bodies or status codes: a call is made for
somebody, speaks, is acted on or answered in its place, and is told to the
application. `Telling` maps `Exchange` to it: `NamedFor` is the person named for the
call, `SpeaksFor` whoever the request on the wire speaks for, `Meant` what the last
answer means (a 429 is a word of its own, since a surface may take it for final or
for passing), and `Informed` what the result comes to for an application: a change
reported with its record, the bare claim of one, another success, a failure to
repeat, a failure. The platform acting
more than once on a call, or a repetition after it acted, is a step of the
abstraction only when an answer was lost.

| Module | Supplies | From |
|---|---|---|
| `Reads` | `explain_decision_as`, `list_decisions_as`, `parse` of the scope header in every spelling | `decisions.rs`, `read_identity.rs` |
| `TypedPolicies` | `refusal`, `object`, `active`, `retry_after` | `typed_policies.rs` |
| `Checked` | a row for each operation that is one exchange: method, whether it writes, the document it decodes, whether it reads the body or declares | `client.rs`, `hitl.rs`, `pep.rs` |
| `Authzen` | `with_query`, `with_correlation`, insertions into a bag, `evaluate_envelope`, `from_response` | `authzen/mod.rs` |
| `AttributeMap` | `record_nested`, `insert`, `unreadable`: known, absent, unknown | `authzen/attribute.rs` |
| `AuthzenTypes` | each generated type's constructor, optional members and checks in order; `validate` and `decodes` interpret them | `authzen/types_gen.rs` |
| `Generator` | `parse_surface`, `emit_validate` and the rest on the artifact's types; `check` compares with the committed types | `tools/gen-authzen-types` |
| `Documents` | the required members of each decoded type, and what an application finds in a document that decodes | `types/` |

Answers that are not the platform's are decoded as serde does it. A type whose
members all have defaults takes any JSON object, and reads `success` out of it:
`cancel_plan`, `audit_llm_call` and `activate` return `Ok` with `success = true` on a
gateway's 200 `{"success": true}`, although nothing was done (`Found`: `claimed`), and
with `success = false` on any other object (`unsuccessful`). Such a document has no
`audit_id`, no `plan_id` and no activation record: they are empty. What the platform
did comes back with them (`Reported`), and so does whatever has a required member
(`create_hitl_request`, `publish`). That difference is all an application can go by,
and it is what `SuccessIsPerformed` and `CallKeepsPromise` speak of: `success` alone is
nobody's word.

A document is its set of members, or a record of those the checks tell apart.
`validate` and `decodes` go through a value by the depth of its types
(`validate_1` to `validate_4`), as the generated methods call one another; no type
nests deeper than five. An attribute bag holds an object of scalars at most, which
is as deep as the builders write (`record_nested`). So no module declares a
`RECURSIVE` operator and all of them can be reasoned about. Where the prover is the
reason for a form, the form says the same: sorting is `Ordering!InOrder` and a
member added to an object is `With`, because `SortSeq` and `@@` are opaque to the
provers; `parse` and `found` choose with `IF` where arms of a `CASE` would overlap,
because the value of such a `CASE` is not determined.

### Handshake, PingPass, Adapters, HitlWalk

`Handshake.new` checks names, capabilities, order, repeats and the encoded length
in the code's order; of a name its length and classes of bytes are kept.
`Readable` states the platform's own rule, written apart from `new`.

`PingPass` opens what `HeartbeatGate` has as `Probe` and `Post`: the deadline the
probe and the POST share, the relayed members, the redirect that is not followed.
`Stall` takes any time from a pass once, wherever the scheduler leaves it.

`Adapters` is the registry: `register_adapter` may be called while a pass is under
way, `ReportAdapters` is `HeartbeatContext::payload` reading it. `HitlWalk` is an
application that lists with the next offset until `has_more` is false, while
requests arrive and reviewers take them; it may leave the limit to the platform,
and the platform may leave the offset out of its answer. Any page may be the
document of somebody else (`Envelopes`): `data`, `meta` and its members have defaults, so
a 200 `{}` is an empty page of a total of 0 that has no more, and the walk is over. A
page that fails, or does not decode, is asked for again.

## 3. Runs

Each finishes within a minute with two workers, `shared_cache` and
`platform_session` within two; together the passing runs take every action and every disjunct.

| Run | Shows | Bounds |
|---|---|---|
| `gate_faults` | `TypeOK`, `OneLiveSlot`, `OnlyAttemptsWiden`, and `ProcessCadence` (refines `PingCadence`) | 1 process, 3 calls, all faults; interval 4, guard 1, 3 doublings |
| `shared_stamp` | `StampRecordsAcceptance`, `OverlapOnly` | 2 processes, 3 calls; interval 3; outages, build failures, restarts |
| `outage_recovery` | `UnreachableBacksOff`, `StaysVisible` (fair) | interval 9, 4 doublings, so that every width 1, 2, 4, 8, 9 occurs; lost answers, unwritable stamp, restarts, opt-out |
| `retry_ladder` | `TypeOK`, `MutationOnce`, `RefusalStands`, `AttemptsBounded`, `KeepsPromise` (refines `GovernedPromise`) | production; query and plan, 3 attempts, all answers, all breaks |
| `shared_cache` | `OwnVerdict`, `CacheHoldsSuccess`, `ModelGoverned`, `AuditAttribution`, `UnauditedIsExplained` | `Interceptor` over 3 calls, two of them wrapped, one of those without a `request_id`; 2 identities, 2 attempts |
| `sandbox_returns` | `EveryCallReturns` (fair), in sandbox mode | 3 calls, so that one is served from the cache; 2 attempts, one unusable identity, an answer of each kind, timeouts and resets |
| `fulfills_obligations` | `TypeOK`, `ForwardsScrubbed`, `TellsRedaction`, `Ends` (fair) | up to 2 obligations of 7 shapes, 2 items, every policy, both callers |
| `platform_session` | see the next table | one call after the other, 2 attempts each |

`platform_session` checks, for every operation of the surfaces:

| Property | What it says |
|---|---|
| `SpeaksForItsUser`, `DeclaredWhereRead` | whose identity and declaration a request carries, through derivations, redirects and repetitions |
| `RetryAdviceIsTrue` | nothing final is called retryable, and what will pass is, but for the 429 of two surfaces |
| `SuccessIsPerformed`, `LossExplains` | a change reported with its record was made by the platform; done twice, or done and not so reported, only after a lost answer |
| `CallKeepsPromise` | each call refines `CallPromise`: one person to the end, sent again only while nothing was done or an answer was lost, told in agreement with what the platform did and meant |
| `ScopeIsTold` | an empty page or a miss is blamed on the read scope exactly when that is so |
| `NothingActiveIsItsWord` | "nothing active" is only ever the platform's word |
| `DeclarationIsCanonical` | a declaration sent is one the platform's decoder takes |
| `UnknownNeverWeighed` | a request with an attribute that could not be read is not sent |
| `AllowIsWhole` | an allow comes with all that constrains it |
| `GeneratedIsCurrent` | the types this rests on are those of the artifact |
| `RoomForThePost`, `DeliveredMeansPosted`, `AdaptersAreReported` | the heartbeat pass on the way of a call |
| `WalkComplete` | a walk of the queue that ends on a page with a total misses at most one request for each one taken; where offsets are echoed, a page after which there is more has shown something |

Two things `WalkComplete` leaves to the application, because the code does. A last page
with a total of 0 may be a foreign document, and the walk may then have missed
everything; from the platform it means that the queue is empty. And to a platform that
does not echo the offset a walk past the end gets empty pages with `has_more` set, over
and over: `has_more` is computed from the echoed offset, 0 by default, and not from the
one that was asked for.

Its bounds: a call may be made twice (`MaxTries`), which is a first attempt and a
repetition. The redirect limit is 3 for 10: two redirects
are followed and a third is refused. Two attributes are written on a request (`MaxBuild`):
the second can overwrite, nest into or shadow the first. A declaration has at most
3 capabilities for 64 and 300 bytes for 4096, so that both caps are crossed by some
draft and met by another. Of five requests for approval a page shows 2, or 3 when
the limit is left to the platform, so a walk has a first, a middle and a last page.
Two features are reported for 32, of three adapters. The unit of time in a pass is
250 ms: 12 for the timeout, 4 for the probe's cap, 1 for the minimum of 100 ms
rounded up. Attributes, a pass (on the way of one operation's first attempt,
`PingCalls`) and paging are followed for a client that acts for nobody and declares
nothing (`Bare`), since they read neither; paging makes no other call.

The decisions the platform may send (`Verdicts`) are, in this run, whole ones of
each kind and those that lack, blank or add a part; the proofs take any documents
whose parts are JSON.

`GeneratedIsCurrent` compares two values and needs no behaviour; it is here because
`UnknownNeverWeighed` and `AllowIsWhole` mean what the artifact says only if it holds.

Why the other bounds are enough: one hour is the unit because the code compares
instants only with the guard interval, its doublings and the 7 days; an interval
between two powers of two of the guard exercises every doubling and the cap. Three
calls are what a race for one slot or one cache key needs (a holder, a
competitor, a late one). Three attempts make a first, a middle and a last one.
Two obligations let the second undo, repeat or fail after the first. Deadlock is
checked except in the governed-call runs, where every call of the finite set ends.

### Where the code and its documents disagree

Each of these runs ends in the violation of a statement quoted from the
repository (PROJECT.json, `findings`).

| Run | Statement | What happens |
|---|---|---|
| `two_processes` | one ping per machine per 7 days | two processes check the stamp before either writes it (`OverlapOnly` shows that this is the only way) |
| `cap_cut_off` | the cap is terminal even with a truncated body | a body broken off on the wire is an `HttpError` before the header is looked at, and is retried |
| `branching_caller` | branch on `has_request_redaction` | it is false for an obligation that must fail closed |
| `redirected_review` | a review method approves the request | a redirect within the origin turns the POST into a GET without a body, and any 2xx is `Ok(())` |

Four smaller ones are visible in the model and have no run of their own: an
attempt whose caller drops the request is not recorded and does not widen the
interval (`Cancel`; README.md:442); a 3xx and an unparseable 2xx are retried
besides what `execute_with_retry` documents (`ends_the_loop`; client.rs:877);
production mode does not catch every `HttpError` (`is_retryable`;
docs/ERROR_HANDLING.md:71); an engine answer broken off in its body is
`HttpError`, not `ObligationNotFulfillable` (`BodyLost`; pep.rs:237).

## 4. Fairness

- `HeartbeatGate`: weak fairness of each pass's own steps, because every await of
  a pass lies within the 3 s budget or the outer timeout; weak fairness of some
  call of each process claiming an open gate, because `StaysVisible` is about a
  process that keeps issuing requests; strong fairness of `Tick`, because passes
  interrupt time in the model (a pass takes seconds, a tick an hour) but do not
  stop it. The checkpoint service has no fairness: that it is reachable for good
  is the premise.
- `GovernedCall`: weak fairness of `Proceed(c)`. The runtime polls a future that
  can go on, and reqwest's timeout ends each exchange, answered or not. The
  platform has no fairness.
- `Pep`: weak fairness of `Proceed` for the same reason; none for the engine.
- `PlatformSession` and `Interceptor` are checked for safety only. A call of
  theirs is one exchange under the HTTP library's timeout, whose end
  `EveryCallReturns` shows for the governed call; an audit is owed by nobody, for
  its task dies with the process.

## 5. What is proved

TLAPS checks these for every value of the constants that meets the named
assumptions, which TLC evaluates on every run:

- `GateAssumption`, `CallAssumption`, `WrappedAssumption`, `PepAssumption`,
  `WalkAssumption`, `LimitsAssumption`, and `BoundsAssumption`, `TokenAssumption` and
  `AnswersAssumption` of `Exchange`: what kind of value each constant is, that the two
  intervals are positive, that `max_attempts` is not 0 (`AxonFlowClient::new`), that
  trimming twice is trimming once, and that only the platform's handler performs an
  operation.
- `BudgetAssumption`: what the code's own test of the time budget checks.
- `AdaptersAssumption`: that a name is cut so that it fits the feature's length, and
  that features are totally ordered, as the strings of a `BTreeSet` are.
- `DraftsAssumption`: that a draft is a list of capabilities with a name and a
  version, and that the alphabetical order of names tells different names apart.
- `OpsAssumption`: that an operation is one of its surface's, with that surface's
  word for whether it writes. `StraysAssumption`: that what answers in the platform's
  place is not one of the platform's documents, and says by its status whether it
  will pass.
- `VerdictsAssumption`: that every member of a decision the platform sends is a list of
  values and every part of it an object, which is what a JSON parser hands over.

**HeartbeatGateProofs.** `TypeCorrect`. `SlotIsExact` is inductive with `TypeOK`:
each action either leaves `inFlight` and the idle/busy status of every pass alone
(`SlotMoves`), claims, or ends one (`SlotEnds`). `BackoffCountsAttempts`:
`OnlyAttemptsWiden` alone is not inductive, for `Undelivered` adds a failure while
the attempt was counted earlier, in `Probe`. `Widens` therefore charges the
attempts under way: failures plus the pending pass is at most `lost`, saturated.
`GateImplementsCadence`: every step maps to a step of `PingCadence` or a stutter;
the strengthening `DueInv` says that no delivery is known within the interval as
long as a pass is before its delivery, and that `last_delivered` equals what the
process knows.

Three of its theorems hold under some faults only, and name them.
`StampTellsLastAcceptance` and `SecondPingOverlaps` assume `PassesComplete`: every
process can write the stamp, no answer is lost, no pass dropped, killed with its
process or suspended for hours, and the wall clock is not stepped. Without it they are false: a pass that is dropped between the
acceptance and the write leaves a stamp that tells of an earlier ping, and so does a
read-only home. Outages, failing clients, restarts and opting out remain. `StampInv`
adds that a ping is recorded in the hour it is accepted and that a pass about to
send is due, or another was accepted in this hour.
`UnreachableIsSpaced` assumes `PassesPrompt`, that no pass is dropped or suspended
for hours; a dropped attempt is not counted by the code and the spacing would
really not widen (section 3). `SpacingInv` says that the attempts made are the
failures counted and the one under way, and that `last_checked`, which the gate
reads, is never older than the last attempt, which the property is about.

**GovernedCallProofs.** The type invariant with the phase of each call is `Typed`.
`Counted` relates requests on the wire, requests taken up and strays to the loop
variable in every phase; `RetryBudget` and `MutationsRunOnce` follow.
`RefusalsAreFinal` is inductive as it stands. `StoreInv` says that a stored or
served response was heard by its author's call and asked the same;
`CacheIsFaithful` and `VerdictsAreOwn` follow. `CallsKeepPromise` uses all of them
and `AllOpen` (a call not done has no outcome) to map every step to
`GovernedPromise`, in production and in sandbox mode.

**PepProofs.** `PepTypeCorrect`, `FulfilledIsScrubbed` and `RedactionIsTold`, for
any decision, any number of obligations and any policy changes. `ForwardsScrubbed`
says nothing of the loop; `LoopInv` says that every redaction before turn `i` was
evaluated and the content is clean of it, `Honest` what an answer on its way may
contain, `Told` that content only shrinks and `did_redact` says whether it has. So
a later turn cannot undo an earlier one.

**InterceptorProofs.** `WrappedIsGoverned`: every behaviour of the wrapper is one of
`GovernedCall`, so `Typed`, `StoreInv` and `OwnVerdict` carry over
(`WrappedVerdictsAreOwn`), and so does the refinement (`WrappedKeepsPromise`). `RulingInv` adds that the response of a call that came
back was let through or blocked and is of its author's question; `WrapperInv` ties
`model` and `audit` to the outcome. `ModelIsGoverned`, `AuditsAreAttributed` and
`GapsAreExplained` follow, for any number of calls and wrapped clients.

**ExchangeProofs.** About `Exchange!Spec`, for any surface that meets the
assumptions. `WireIsCall` says that what is on the wire was stamped for this call
on this client: `OneUser` and `DeclaredToReaders` follow. `OnlyLossRepeats` needs
`ActsOnce`, which counts what was performed against the attempts and the answer
under way: without a loss a performed operation is reported with its record and not
repeated. Its hypothesis `ReadsSuccess`, that a surface reads the answer of a
performed operation so, is a matter of each surface's tables and is
discharged for all four of them in `PlatformSessionProofs`. The steps are lemmas of
the funnel alone, so that the composition can use them.

**PingPassProofs.** `PassTypes`; `PostHasRoom` from `OnSchedule`, which adds up what
has elapsed and what the request under way has left; `DeliveryIsPosted` from
`PostedIsMade`.

**HitlWalkProofs.** `WalkMissesOnlyTaken`, for any queue, arrivals and page sizes.
`WalkComplete` compares two counts at the end of a walk and is far from inductive.
`WalkInv` follows the places of the queue instead: of those up to the offset, at
most one for each request taken out holds nothing the walk has seen
(`SkipsAreTaken`), for taking one out moves one place over the offset; what is
pending and was not taken is still in line (`StillInLine`), and a walk that ended on
a page with a total has gone past all of it (`WentPast`). So what was missed stands
on a skipped place, and no two on the same. `ListedIsNext` says for either kind of page,
the platform's and the foreign one, that it moves the offset by what it shows.

**PlatformSessionProofs.** About `SessionSpec`, the composition. `Exchange` leaves
its surface to constants (`Refusal`, `Answers`, `Read`, ...), and the theorems that
depend on it have the hypothesis `Surfaces`: that those constants are the four
surfaces of `PlatformSession`, which is how the .cfg files set them. It is a
hypothesis and not an ASSUME because it ranges over everything that could be an
operation, which TLC cannot enumerate.

- `SessionSteps` shows that every step of the composition is one of the funnel with
  an attribute written, a pass or a walk beside it, or leaves the funnel alone. What
  `ExchangeProofs`, `PingPassProofs` and `HitlWalkProofs` establish carries over:
  `SessionTypes`, `SessionSpeaksForItsUser`, `SessionDeclaresWhereRead`,
  `SessionPostHasRoom`, `SessionDeliveryIsPosted`, `SessionWalkMissesOnlyTaken`.
- `CallsAreRead` is the inductive invariant of what a call ends with: the answer is
  one that may come to this operation (`Possible`), the result is what the operation
  makes of it, and an answer that says so was given by one who performed it.
  `SessionLossExplains`, `SessionAdvises`, `SessionSuccessIsPerformed`,
  `SessionTellsScope`, `SessionNothingIsItsWord` and `SessionAllowIsWhole` follow from
  it and from lemmas about each surface's reading of each kind of answer.
- `SessionReportsAdapters`: a ping reports the adapters registered when it reads the
  registry, and what the cut leaves out comes later in the order than all it keeps.
  It rests on lemmas of `InOrder` for any strict total order: it lists the set,
  each element once and in order.
- `SessionDeclaresCanonically`: what `new` constructs is `Readable`, the platform's own
  rule, for any drafts: sorting capabilities without a repeat gives the one sorted
  form, and the bounds checked before it are those of the result. `DeclaresReadable`
  carries that through the derivation of clients.
- `SessionNeverWeighsUnknown`: `UnreadInv` says that an attribute the application
  could not read, and has not replaced, is still in the bag it was put in, or in an
  object there (`UnreadIsCarried`), whatever was written since; and that an
  evaluation of which that is so has not left the client (`UnreadIsRefused`). Each
  form of envelope then validates no such bag or does not serialise.
- `SessionAllowIsWhole`: what `validate` finds valid has every nested value valid
  (`Validated`) and what decodes has every nested value decoded (`Decoded`), level by
  level; `ContextIsWhole` says what that is for a decision's context. The decisions are the
  constant `Verdicts`: `AllowedIsWhole` needs of one only that its parts are JSON
  (`Documented`), so the theorem is about any platform, older, newer or behind a proxy.
- `SessionKeepsCallPromise`: the composition implements `CallPromise`. `Promising` is
  what the mapping rests on: `CallsAreRead` and `WireIsCall`, and the theorems
  `RetryAdviceIsTrue`, `SuccessIsPerformed` and `LossExplains`, which the step to
  `Tell` needs in the state it leads to. `Send` maps to `Speak`, `Handle` and
  `StopRedirect` to `Act` or `AnswerInItsPlace`, `GatewayAnswers` to `Supplant`,
  `Arrive` to `Tell`, `Lose` to `Lose`, what ends a call unanswered to `Fail` or
  `Refuse`, `Retry` to `Again`, `Finish` to `Close`; a followed redirect, a builder's
  write, the pass and the walk are stutters. A repetition is a step of the promise
  because a result that is retryable without a loss comes of an operation that was
  not performed (`LossExplains`).
- `SessionGeneratedIsCurrent`: the committed types are what the generator makes of the
  artifact. It is a formula on two tables, computed by the prover: `Flattening`
  follows the recursion of `FlattenSeq`, by which the generator writes a part for
  each field, for up to the eight fields the longest type has; a lemma for each
  constructor of a field says what checks it gets; and one for each type (`...Current`)
  puts them in line.

Only model-checked:

- Liveness (`StaysVisible`, `EveryCallReturns`, `Ends`): it needs fairness and
  ENABLED, which are out of the prover's reach.
- The hypothesis `Surfaces` itself, by the .cfg that fixes the constants.

## 6. What is not modelled

- In `GovernedCall`, redirects within the configured origin are part of one
  exchange and a redirect that leaves it is the answer `moved`; `Exchange` has
  them step by step.
- Digests of different cache keys are taken to differ (a 64-bit hash in the code).
- A response that is at once successful and blocked, which the types allow, is not
  among the answers; nor is the content of payloads.
- A poisoned mutex: every lock of the heartbeat recovers from it.
- The heartbeat's call inside `dispatch` delays a call and changes nothing else of
  it: `PlatformSession` has the pass there, while `HeartbeatGate` and
  `GovernedCall` are separate, and a dropped call is `Drop` in one and `Cancel` in
  the other.
- `maybe_send_heartbeat`, the spawned entry: its pass is that of `HeartbeatGate`,
  cancelled when the runtime shuts down.
- What a ping says of the machine (endpoint class, deployment mode, versions), the
  wording and pointers of errors, the filters of decision and approval lists, the
  escaping of path segments: no property depends on them.
- The Rust text the generator writes: names, documentation, line widths. Its
  members, checks and constants are modelled.
- `types/policies.rs`, types of older routes no operation uses; examples and
  end-to-end harnesses, which are callers of the library.
- A bulk evaluation is answered by one decision; a walk never goes back a page.

## 7. Plan

Done: `HeartbeatGate`, `GovernedCall`, `Pep` with their abstract specifications and
theorems; `Interceptor`; `Exchange` with the four surfaces, implementing
`CallPromise`; `Handshake`, `PingPass`, `Adapters`, `HitlWalk`, their composition and
its theorems. Every safety property that a passing run checks is a theorem, and so is
every refinement.

Left: `OverlapOnly` with passes that are dropped. Then the stamp may be older than
the last acceptance, and what remains is that a delivered ping is recorded.
