# A TLA+ model of HopWhy

HopWhy inspects one HTTP(S) request under a strict budget and explains where progress
stopped. It resolves the endpoint, connects, validates TLS, sends bounded requests,
follows redirects by hand, and seals what it saw in a report. The program is sequential;
what makes it hard is the world it talks to: a clock that runs between any two of its
steps, a resolver that may answer differently every time, calls that fail or time out, and
a server that chooses the redirects. These modules model that, model-check it with TLC on
small instances and prove parts of it with TLAPS for every instance.

Paths are relative to the root of the repository.

## Inventory

| component | state | operations | hard behaviour | what makes it correct |
|---|---|---|---|---|
| budget tracker (`src/engine.rs`, `Tracker`) | start instant, deadline, probe limit, ledger of probes, body bytes | `new`, `remaining`, `start_probe`, `finish_probe` | the budget runs out between two calls; an early `?` drops a probe that was begun | the ledger stays in budget, without gaps and overlap |
| inspection engine (`inspect_with_backend`, `resolve_addresses`, `connect_first`, `probe_tls`, `run_http`, `response_to_hop`, `finalize_report`) | phases, selected address, current URL and proxy of a redirect loop, hops | one call after the other, early returns at every level | answers that change between lookups, stale locals of the redirect loop, timeouts that outlive the deadline, partial results dropped on an error | contacts permitted, endpoints handed over, redirects accounted for, conclusions borne out, an end is reached |
| target, proxy and address policy (`src/policy.rs`) | none (reads the environment) | `parse_target`, `resolve_proxy`, `is_ip_permitted`, `no_proxy_matches`, `redact_url`, `address_for_report` | precedence of variables, overlapping address classes, port suffixes, what a redirect's URL discloses | the decision is that of the documented tables, and nothing is shown that was not asked for |
| report digest and hypotheses | none | `digest_report`, `hypotheses_for`, `ruled_out_for` | conclusions drawn after the fact from phases alone | they agree with the ledger |
| dry-run plan (`plan`) | none | `plan` | a probe that depends on scheme, proxy and redirects | every probe of an inspection is one the plan names |
| offline reports (`src/offline.rs`) | a file somebody may be writing | `load_report`, `verify_report`, `compare`, `replay` | metadata read before the bytes | a bounded, untampered report or an error |
| command line (`src/cli.rs`, `src/main.rs`, `src/error.rs`) | options merged from a spec and flags | `run`, `apply_overrides`, `load_spec`, `render`, `write_stdout`, `write_error` | a spec that changes while read or turns into a FIFO, a closed or full pipe, usage errors before the format is known | the exit code and the output agree with the outcome |
| contract documents (`src/contract.rs`) | none | `capabilities`, `schema_document` | | constant data |
| v1 evidence verifier (`scripts/verify_v1_evidence.py`) | none | validation of release evidence | dates and counts at their limits | |
| benchmarks (`benchmarks/`) | measured runs | percentile, thresholds | nearest rank at the boundary | |
| fuzzing, tests, CI, release scripts | | | | read as specification, not modelled |

Interactions: `main` calls `cli::run`, which calls `plan` or `inspect`; `inspect` calls the
engine's backend functions in a fixed order; all of them share the tracker by `&mut` and
call the policy; `offline` recomputes the engine's digest.

## Modules

| module | models | notes |
|---|---|---|
| `Policy` | `src/policy.rs` | pure operators; an error is its code, `""` is Ok |
| `Tracker` | `struct Tracker`, `ActiveProbe` | state and methods; `TrackerSpec` is what any caller can do with them; EXTENDed by the engine |
| `Engine` | the live inspection | one action per call made, per answer received and per early return |
| `Options` | `InspectionOptions`: defaults, a spec file, `apply_overrides`, `validate_options` | pure operators |
| `Plan` | `plan` and the probes it lists | pure operators; `PlanKept` holds every inspection against them |
| `PhaseLadder` | what an inspection promises about its phases | abstract specification, `settled` and `verdict` |
| `EngineProperties` | properties of `Engine` | invariants, the two refinements, termination, and what the repository says and the code does not do |
| `MCEngine` | instances for TLC | inputs, environments and responses |
| `Documents` | `src/offline.rs` on texts: the seal, its verification, `compare`, `replay` | pure operators |
| `Command` | one run of the command, from its arguments to its exit code: `src/main.rs`, `src/cli.rs`, `load_report`, `src/error.rs` | EXTENDs `Documents`; other processes write its files and read its output |
| `CommandProperties` | properties of `Command` | invariants, the end of a run, and what the repository says and the code does not do |
| `MCCommand` | an instance for TLC | command lines, files and reports |
| `AddressClasses` | `classify_ip` and its prefixes, on octets and segments | pure operators |
| `AddressRegistry` | what `docs/SAFETY.md` and the IANA registry say of the same addresses, as blocks | the reference `AddressClasses` is held against; the most specific block decides |
| `NoProxyText` | `no_proxy_matches` and `socket_destination` on texts | pure operators |
| `Disclosure` | `redact_url`, `address_for_report`, headers and body of a hop | pure operators |
| `Admission` | the policy decisions of one hop in their order, over these four and `Options` | one action per decision and per refusal |
| `AdmissionProperties`, `MCAdmission` | properties of `Admission`, an instance for TLC | |
| `TrackerProofs`, `EngineProofs`, `EndpointProofs`, `ReportProofs`, `LedgerProofs`, `CommandProofs`, `AddressProofs`, `AdmissionProofs` | proofs | |

`Engine` and `Command` are two halves that meet in the report: `Command` takes from
`Engine` that an inspection ends in a rejection before its first probe or in a sealed
report, and that the phases of a sealed report climb the ladder (`ClimbsLadder`), which
`SealAssumption` of `Documents` states through `PhaseLadder`.

`Engine` and `Admission` look at the same policy from two sides. `Engine` has everything
that can happen between two decisions, and therefore only as much of hosts, patterns and
addresses as the decisions tell apart: which addresses are public (`Public`), which host
lies in which domain (`Subdomains`). `Admission` has the decisions themselves, over names,
ports, octets and segments, and nothing fails there but the policy.

### How the model corresponds to the code

- `pc` names the step the program is about to take. `dns`, `tcp`, `tls`, `build`, `http`,
  `hop` are the points where `resolve_addresses`, the loop of `connect_first`, `probe_tls`,
  `build_http_client`, `start_probe` of a request and the top of the redirect loop begin.
  A probe then goes through its steps one reading of the clock at a time: `_start`, where
  `start_probe` has checked the budget and not yet stamped the probe; `_cap`, where the time
  left is read again for a timeout; `_dial`, where the timeout is measured and the call not
  yet begun. A name ending in `_wait`, `_connect`, `_io`, or `body`, is a call in progress,
  whose answer is chosen by the environment.
- The clock `now` counts from `Tracker::new` and advances (`Tick`) at every point, so also
  between a check of the budget and what the check is for, but never beyond the timeout of a
  call that has one (`op.limit`). `op.capped` is the instant a timeout was measured at: for
  a request that is when its client was built. `to_socket_addrs` has no timeout.
  `ReadProgress` renews the timeout of a read in the TLS handshake and the body, as those
  timeouts apply to single reads.
- `active` is the `ActiveProbe` a caller holds. `drop_probe` is a `?` before
  `finish_probe`; the slot is then free because `start_probe` counts the records.
- `resolve_addresses` is one set of actions for both its callers: `hops = <<>>` in the
  initial lookup, and not in `run_http`. `ResolveFailed` is what each does with an error.
- `FinishHttp` is `run_http` returning `Ok`, with the Http, Redirects and Assertions
  phases pushed by one step; `HttpFail` is it returning `Err`, which loses the hops.
- A socket address is a number, its rank in the order the engine sorts by; `Public` are
  those `classify_ip` calls public. A URL is the record of what the policy looks at. An
  answer of the resolver is any subset of `Addresses`, the de-duplicated set.
- `wire` is a history variable: every network action begun, with the probe slot it was
  begun under, its address and its time. No guard reads it.
- Left out of `Engine`: durations of phases, TLS metadata, HTTP methods. Observations,
  redaction, headers and the body's contents are in `Disclosure`.

For the policy decisions:

- `request` is what a user asks for and the environment it is asked in: the options of a
  spec file (any may be missing), the flags, the target, the entries of NO_PROXY, whether
  a proxy is set. `refused` is an error before the report or, for the two errors of
  `Resolve`, a report that failed at DNS.
- A host or the text of a NO_PROXY entry is the sequence of its dots, colons, brackets and
  the words between them, which is all that `strip_suffix`, `rsplit_once(':')`,
  `trim_start_matches` and `ends_with` can see of it; `Numerals` are the words of ASCII
  digits. Splitting at commas, trimming and case folding are done before.
- An entry is the record of what its writer wrote, and `text_of` the text of it that the
  program is given. `is_entry` has the forms: nothing, `*`, a domain, an IPv4 address or a
  bracketed IPv6 literal after any dots and with or without a port, and an IPv6 literal
  without brackets. An entry that is only a port, only dots or the tail of an address is not
  one of them: nobody can say what it asks for.
- An IPv4 address is its octets, an IPv6 address its segments. A mask of a `u128` compares
  the segments under it, the last of them by integer division.
- `--budget` is a duration in microseconds, and may be longer than `u64` milliseconds
  (`MaxMillis`); the limits of `validate_options` are constants.
- A digest is the set of what is digested, which says that digests are equal exactly when
  the digested things are. `observations` is a set, since equal addresses give equal
  observations and the engine de-duplicates.
- `sanitize_header_value` keeps 512 characters; the replacement of control characters in
  it does nothing, as `to_str` has let none pass.

For the command:

- A text is two pieces, head and tail, in the order the serialized report has its fields.
  `fs::read` is not atomic, so a file rewritten in place while it is read may yield the
  head of one document and the tail of another (`ReadHead`, `ReadTail`). The metadata is
  read before (`MetadataAccepted`), and the path is opened again for reading.
- SHA-256 is taken to be injective, so the digest of a report is the report without its
  seal. Whoever edits a report does not compute its seal anew (`SealAssumption`); a file
  sealed anew by its editor is, to this program, a sealed report.
- `load_spec` and `load_report` are one set of actions: they differ in their limit, their
  error codes and in what `parse_error` checks of the bytes.
- `Invocation` is a command line by what the parser makes of it; `joined` is
  `--format=json` as a single argument, which `requested_format` does not see.
- A file may be replaced by a FIFO after its metadata was checked; `ReadPipe` is `fs::read`
  once somebody writes to it. It waits until then.
- Standard output is a document that is written as a whole or in part, then its line end.
  Either stream may stop taking bytes (`Stall`) and take them again (`Resume`), as a pipe
  does whose reader is open and does not read; a write waits meanwhile. A write to standard
  error that fails is ignored by the code and not modelled.
- A report has the error codes of its phases and the URLs of its hops, which `compare` does
  not read, besides what it does read.
- Left out of `Command`: the wording and layout of what is printed, and the hypotheses
  that `replay` repeats. Which option wins when a spec and flags set it is in `Options`.

## Runs

The first eight runs use `MCEngine`. Time is in units: a timeout cap is 1 or 2, a budget
1 or 2, which is enough for the budget to run out before, during and after every call, and
between any two steps, since `Tick` may happen anywhere. In `Direct` the cap of the TLS
handshake is smaller than the budget, and those of connections and requests are not. The
clock stops at `MaxNow`, one unit after the largest budget of the run: 3, and 2 in
`Redirects`.

| run | bounds | shows |
|---|---|---|
| `Direct` | 3 addresses (1 denied), 3 inputs (HTTP and HTTPS, probe limits 3 and 6, redirect limits 0 to 2, address limits 1 and 2, private addresses allowed or not), 3 responses, no proxy | twelve invariants, both refinements and that every step uses up one of the steps left, on every path through the four kinds of probe |
| `Redirects` | 10 inputs of which 8 are rejected by options or target, 4 environments (proxy, NO_PROXY, invalid and unsupported proxies), 6 responses, 2 addresses; `FairSpec` | hops bound to their own endpoint under proxies, chains accounted for, no probe beyond the plan, termination |
| `ActionListed` | as `Direct` | violation: a TLS connection missing from the ledger |
| `NoResponseClaim` | as `Direct` | violation: "received no response" although one was |
| `WaitDeadline` | as `Direct` | violation: a lookup begun in time outlasts the deadline |
| `ReadDeadline` | as `Direct` | violation: the reads of a handshake or a body outlast the deadline |
| `RedirectClaim` | as `Direct` | violation: "violated policy or budget" for a resolver failure |
| `SkippedRedirect` | as `Redirects` | violation: "did not request a redirect" for an unreadable Location |
| `Commands` | 12 command lines (every command, valid and invalid), 2 files in 3 initial states, 5 sealed and 3 altered reports, 6 pieces, at most 2 edits, a FIFO in the place of a file, an output that fails, is closed or fills up; `FairSpec` | sealed reports only, exact comparisons, exit codes, and that every run ends unless others hold it up |
| `SpecInput` | as `Commands` | violation: a spec beyond its limit is accepted |
| `UsageFormat` | as `Commands` | violation: a usage error for people with `--format=json` |
| `Policies` | durations around the limits of a budget, every other option at, below and above its limit, spec against flag; 4 hosts (two names, an IPv4 and an IPv6 literal) on 2 ports under each of 103 NO_PROXY entries (nothing, `*`, 5 bare IPv6 literals, and 8 hosts after up to 2 dots without a port or with one of 3), or none or two; URLs with credentials, query and fragment, 4 responses; 16 answers of mixed addresses, and all combinations of octets and segments at the edges of the blocks of code and registry | options, proxy, addresses and disclosure are as asked for |

`Policies` uses `MCAdmission`: the requests vary one concern at a time, as the decisions do
not depend on each other beyond the options they share; its 64,395 states are mostly single
addresses, because a classification is decided by the edges of its blocks.

`Commands` and the two after it use `MCCommand`. Two edits are what it takes to replace
both pieces of a file between the check of its size and the end of its reading, or one piece
of each of two reports; edits after the last file was read change nothing, so `Edit` stops
there. The sealed reports are two that stopped at DNS with different error codes, two that
were answered with different statuses, and one whose chain of redirects failed; the altered
ones have another target, no seal, and another schema.

Deadlock is checked in every run: the only states without a successor of the program are
those of `Terminated`, `Exited` and `Decided`, which stutter. A command that is held up
is not deadlocked in this sense, as its reader or another process may still act; what it is
held up by is `Blocked`, and `CommandEnds` is about that.

What the properties say, beyond their comments in the modules of properties:

- `LedgerInBudget`, `AttemptsBounded`, `BytesAccounted`, `OverrunBounded` are the budgets.
  The clock may pass the deadline between a check and what it is for, so that neither "no
  probe begins after the deadline" nor "no connection attempt outlives it" is true of the
  program. What is true, since each check is made after the end of the probe before: only
  the last probe recorded may begin or end late, only the last network action may begin
  late, and a connection attempt or a request outlives the deadline by no more than the time
  lost between the measuring of its timeout and its beginning.
- `ContactsPermitted`, `PinnedToThisHop`, `EndpointProvenFirst` are the hand-over of the
  endpoint from lookup to connection to handshake to request, for each hop.
- `ListedOrDropped`, `ConclusionsSound`, `RedirectsAccounted` relate the sealed report to
  what happened, `PlanKept` relates it to the plan of the same input: what the plan
  refuses is refused with the same code, and the kinds of action it lists without condition
  are the only ones, each begun in its order unless a phase fails first.
- `ConclusionsSound` asks of a hypothesis what its claim says where it is of a response, of
  the resolver, of TCP or of TLS, and always that the cited phases ended as cited and that
  what is ruled out is refuted by the ledger. Of a failed `Http` or `Redirects` phase it asks
  only that earlier phases progressed, or that a redirect was asked for: the rest of these
  two claims is false of the program, which `NoResponseClaim` and `RedirectClaim` show.
- `ClimbsLadder` and `DrivesTracker` are refinements: the engine implements `PhaseLadder`
  under the mapping `settled <- names and statuses of the phases`, `verdict <- failed_at`
  once sealed, and implements `TrackerSpec` under the identity.
- `Terminates` needs `WF_vars(Step)`: the program keeps running and every call it waits for
  returns. That is what timeouts give for connections and requests; for a body it is the
  `take(limit + 1)` of `response_to_hop`, for the handshake that it is finite, and for the
  system resolver an assumption on the platform. `ReadProgress` and `Tick` are not fair: an
  inspection must end without their help. The bound on the clock plays no part: when it
  stops, every guard that needs time left still has its complement. It presupposes that
  calls return, and says nothing of a resolver or a peer that holds one up.
- `RunsDown` is what `Terminates` owes to the code alone, without fairness: `StepsLeft` is a
  number of steps that the next step of the program always reduces, and waiting, slow bytes
  and the clock never raise. A redirect followed beyond the limit, or an address tried
  twice, would not reduce it.
- `LoadedWasSealed` holds although `fs::read` may return a mixture: the seal is in the
  tail and covers the head.
- `ComparisonExact` says what a comparison finds and what it does not: reports that differ in
  no more than the error code of a phase or the URL of a hop are without difference to it.
  It needs the ladder: `compare` puts the phases into maps, which loses their order, and
  only as the phases of a sealed report are distinct and in the ladder's order do equal maps
  mean equal sequences, and different verdicts different statuses at the earlier one.
- `ExitAgrees` ties the exit code to the output across failures of either of its writes
  and a reader that leaves at any time. Help and version are exempt: the result of
  printing them is ignored (`src/main.rs:18`).
- `CommandEnds` needs `WF_vars(~Blocked /\ Step)` of `Command`: the command goes on when it
  is not waiting for another process. Edits, readers and writers are not fair, so the
  property is conditional: the command ends if from some time on nothing holds it up
  (`<>[]~Blocked`). A reader that never reads a full pipe, or a FIFO that nobody writes to,
  may hold it up for ever, and the code has no timeout against either.

- `AdmittedIsReachable` and `NothingReachableDenied` hold `classify_ip` against the
  registry from both sides. The chain of `classify_ipv6` decides by the first branch and
  the registry by the most specific block, so a branch in the wrong place violates one of
  the two. The second is claimed for IPv6 only: `documentation_or_benchmark` denies all of
  198.51.0.0/16 and of 192.0.0.0 to 192.0.2.255, more than the documentation blocks, with
  the anycast addresses 192.0.0.9 and 192.0.0.10 among them, which fails closed.
  192.88.99.0/24 counts as public, and no document says otherwise. A mapped address is
  judged by the IPv4 address it carries, as the code's comment asks, although the registry
  lists `::ffff:0:0/96` itself as not globally reachable.
- `BypassAsAsked` holds the cutting of texts against what entries mean: `AsksFor` looks at
  the host and the port an entry was written with, and never at its text. A connection is
  direct only if an entry asks for it; no tail of a name or of an IPv6 literal taken for a
  port makes it so. The other direction, that an entry which asks for it is heeded, leaves
  out IPv6 literals without brackets. `no_proxy_matches` compares them with a host in
  brackets, so they are never applied, whether cut or not, and no document says which form is
  meant. The property is silent on entries that are not written as one of the forms. The code
  takes some of them for suffixes: `0.1` bypasses the proxy for an IPv4 address that ends in
  it, and `.` or `:443` for a host with a trailing dot.
- `OnlyAskedIsShown` is a statement about two runs: the report of a request and response
  equals that of the same with everything masked that was not asked for. The digest of the
  body is exempt, as the report always has it.

### Disagreements found

1. `src/engine.rs:653`: a TLS connection that was made appears in no probe when the budget
   runs out before the handshake; `CONCEPT.md:35` promises that every network action is
   listed (`ActionListed`). `ListedOrDropped` shows that it is the only such case.
2. `src/engine.rs:1088`: "received no response" is said also when the body could not be
   read, and when a later hop failed (`NoResponseClaim`).
3. `src/engine.rs:544`: a lookup has no timeout (`WaitDeadline`), and the reads of a
   handshake and a body, `src/engine.rs:631` and `865`, renew theirs (`ReadDeadline`);
   `docs/ARCHITECTURE.md:47` says per-operation timeouts are capped by the remaining
   deadline.
4. `src/engine.rs:1093`: "violated policy or budget", confidence 1.0, for a resolver
   failure (`RedirectClaim`).
5. `src/engine.rs:754`: a Location that is not text is read as none, and the report says
   no redirect was requested (`SkippedRedirect`).
6. `src/cli.rs:344`: the size of a spec is checked in its metadata only, so one that grows
   before it is read exceeds the 1 MiB of `docs/SAFETY.md:70` (`SpecInput`).
7. `src/main.rs:60`: with `--format=json` a usage error is not the `hopwhy.error.v1` of
   `docs/CONTRACT.md:64` (`UsageFormat`).

## Proofs

The proof modules are checked by TLAPS for every value of the constants that satisfies the
assumptions of the modules. For the engine these are `AddressAssumption`, `InputAssumption`,
`OptionLimitAssumption` and `LimitAssumption`: the inputs, environments and responses are
of their types, the limits are naturals, and a redirect's URL has been parsed. Only the
count of connections needs `FiniteAssumption`, that there are finitely many addresses.

- `TrackerKeepsBudget` (`TrackerSpec => []LedgerInBudget`). `LedgerInBudget` is not
  inductive: it says nothing of the probe in progress. `TrackerInv` adds that it holds the
  next slot, that everything recorded before it had ended in time, as its check was made
  afterwards, and that neither it nor the clock lies before the end of the last record.
- `TypeCorrect` (`Spec => []TypeOK`). `TypeOK` is not inductive either: a step that
  finishes a probe needs one in progress. `Control` adds at which steps there is one, that
  its `started` instant is not in the future, and that a body is read from a response.
- `EngineDrivesTracker` (`Spec => DrivesTracker`). By `TypeInv`, every step of the engine
  is a step of the tracker or leaves it alone, one case per action.
- `EngineKeepsBudget` (`Spec => []LedgerInBudget`) from the two results above.
- `NoDeniedContact` (`Spec => []ContactsPermitted`). `ContactsInv` adds that every address
  still to be tried, and the selected one where it is in use, is permitted.
- `RequestsPinned` (`Spec => []PinnedToThisHop`). `EndpointInv` follows the endpoint of the
  current hop: from the selection of the proxy on it is what policy selects for `current`,
  from the lookup on the lookup is the one made for it, and the addresses to try and the
  selected one are among its answers.
- `CallsBounded` (`Spec => []OverrunBounded`). `CallsInv` adds that all actions were sent by
  now and all but the last in time, that all of them were where a check has just been passed
  (`CheckedInTime`, `SendAfterCheck`), and that a timeout is at most what remained at
  `op.capped`, so that a call ends late by at most what was lost since.
- `AttemptsAreBounded` (`Spec => []AttemptsBounded`). `AttemptsInv` counts: of requests as
  many as hops, and one more while one is under way; of connections and addresses left to
  try together no more than were taken. That `permitted_addresses` takes at most
  `max_addresses` is `PermittedBound`, from the lemma `TakeBound` on finite sets of
  numbers: the rank of an element is an injection into `0 .. n - 1`.

- `InspectionRunsDown` (`Spec => RunsDown`, that `Step` always reduces `StepsLeft`, and what
  it is in the beginning). `StepMoves` gives where each action leads and what it does to the
  addresses and redirects left; `LeadsOnCounts` and `LoopsCount` compare the steps on either
  side. That `StepsLeft` never falls below zero is `AttemptsInv` again: there are redirects
  left in the loop, and no more addresses to try than the options allow. With it, termination
  depends on nothing but that `Step` is not disabled or put off forever. An inspection takes
  at most 19 steps, 5 more for each address and 9 more for each redirect allowed.

What a report says is proved from the course of an inspection (`StepCourse`): what a step of
each phase may do to `phases`, `hops`, the outcomes in the ledger and the report.

- `InspectionClimbs` (`Spec => ClimbsLadder`). `LadderInv` gives the number of settled
  phases at each `pc`, says that each phase is one its rung may have, and that none failed
  before `finalize`; there either the last phase failed or all eight are settled.
- `ConclusionsAreSound` (`Spec => []ConclusionsSound`). `Borne` relates outcomes to phases:
  which outcomes the ledger holds, or cannot hold, for each number of settled phases.
  `SealSound` reads the claim, the cited phases and `ruled_out` off it when the report is
  sealed, as far as `ConclusionsSound` asks for them.
- `RedirectsAreAccounted` (`Spec => []RedirectsAccounted`). `RedirectsInv`: every hop but
  the last names the next, and the last one names another until the chain ends, or the
  redirects phase has failed.

What became of the network actions is proved from a second reading of the same actions
(`StepTraffic`): a step waits, decides, starts a probe, sends, ends a call with its outcome,
or drops a probe in progress, and each of these treats the network, the ledger and the
selected address alike.

- `ActionsAreListed` (`Spec => []ListedOrDropped`). `LedgerInv`: every action sent has its
  record, but for the last one while its call is under way, when it is that of the probe in
  progress, or after it was dropped. A probe that is dropped before anything is sent owes
  the ledger nothing, which leaves the one drop at the handshake loop; `TlsVerdict` turns it
  into what the report says.
- `EndpointIsProvenFirst` (`Spec => []EndpointProvenFirst`). `ProvenInv` carries what the
  selected address has proven from step to step: a connection from the TLS steps on, a
  validated handshake from `build` on where the route is direct. Once there is a hop there
  has been a request, so that a later one is not the first (`FirstKept`); until then the
  route is the one of the target (`Routed`).
- `PlanIsKept` (`Spec => []PlanKept`). `PlanInv` puts the kinds in order: a lookup first, a
  connection before every handshake, both before every request, and a handshake only where
  the dry run promises one. A report without a failure, or with one of its redirects, has
  hops (`NoHopsVerdict`) and therefore a request; `PlanFollowed` compares the two.
- `BytesAreAccounted` (`Spec => []BytesAccounted`). `BytesInv`: until the inspection is over
  the bytes are the sum over the hops, and at most the sample limit for each; a failure of
  the http phase, which loses the hops, is known by its six phases. That the recursive
  function `BytesOf` computes sums at all is `BytesUnfold`: partial sums exist and agree
  (`SumsExist`, `SumsAgree`), each by the least number for which they would not (`LeastNat`).

For the command the assumptions are `SealAssumption`, `SizeAssumption` and
`CommandAssumption`: command lines and files are of their types, and reports are sealed or
edited as described above.

- `CommandTypeCorrect` (`Spec => []CommandTypeOK`). `CommandInv` adds that a command that
  is reading has a file left to read; without it `path` has no value.
- `LoadedAreSealed` (`Spec => []LoadedWasSealed`). The heart is the lemma
  `VerifiedIsSealed`: of a text whose seal verifies, the seal is that of some sealed
  report, the digests are equal, and so are the reports, whatever documents the two pieces
  came from. Only `ParseAccepted` adds a text.
- `ExitCodeAgrees` (`Spec => []ExitAgrees`). `ExitInv` adds that a command that has not
  ended has not written its whole output, and that a broken pipe means the reader left.
- `ComparisonsAreExact` (`Spec => []ComparisonExact`). `ComparedInv`: what a comparison
  prints is `compare` of two reports that are loaded, hence sealed. A sealed report has
  climbed the ladder, which makes its phases distinct rungs in order: the map of its phases
  has their statuses at these rungs and nothing elsewhere (`StatusAtRung`), so that equal
  maps come from equal sequences (`CoursesAgree`). At most the last phase failed and the
  verdict is its name, so that where the verdicts differ, the report that failed earlier has
  a status at that rung which the other has not (`VerdictsDiffer`).

For addresses there is nothing to assume: the theorems are about all 2^32 and 2^128 of them.

- `Ipv6Decided`: `classify_ipv6(a) = "public" <=> Reachable6(a)`. Both sides are shown equal
  to `Public6`, a condition on the first three segments: the chain in `ClassifiedPublic`, the
  registry in `RegisteredPublic`. The lemmas `Prefix0` to `Prefix128` turn a prefix of each
  length that occurs into comparisons of segments.
- `Ipv4Sound`: no IPv4 address of a denied range is classified public.
- `PermittedIsReachable`: what `is_ip_permitted` lets pass is reachable, from the two.

For the policy decisions the assumptions are `RequestAssumption` (specs, flags and targets
are of their types, entries are of the forms of `is_entry`, a host with a colon ends in a
bracket and a port is written as a number), `NumeralAssumption` (a number is none of the
signs between words), `AnswerAssumption` (the resolver returns finite sets of addresses, and
is asked for no other endpoints), `ResponseAssumption` (a response has at most one Location,
and of the fields it has) and `OptionLimitAssumption`.

- `AdmissionTypeCorrect` (`Spec => []TypeOK`). Two of its conjuncts are more than types. That
  at most `max_addresses` addresses are permitted is `TakenBound`: `Before` is a strict
  total order (`BeforeTransitive`, `BeforeTotal`), so that the number of allowed addresses
  before one is an injection of the addresses taken into `0 .. max_addresses - 1`. That
  there are as many observations as addresses is `ObservationsDiffer`: shown or digested,
  different addresses give different observations.
- `AdmissionReachable` (`Spec => []AdmittedIsReachable`). `AdmissionInv` adds that an
  option that is set was asked for and that an admitted address was let pass under the
  merged options; `PermittedIsReachable` does the rest.
- `RefusalsAreDue` (`Spec => []NothingReachableDenied`). By `Ipv6Decided` a reachable IPv6
  address is allowed, and by `NoneTaken` some allowed address is taken if there is one:
  `FirstAddress` shows that the engine's order has a first one in every set of addresses,
  by taking the least first part, of those the least second part, and so on.
- `ReportsShowOnlyAsked` (`Spec => []OnlyAskedIsShown`). `ShownInv` keeps that an option
  that shows something was asked for and that what is shown was made under these options.
  `MaskedUrlShown` and `MaskedHopShown` compare the two reports: masking a URL, a Location,
  headers or a body changes nothing that `redact_url` and `hop_shown` have left.
- `ProxyBypassedAsAsked` (`Spec => []BypassAsAsked`). What the code makes of the text of an
  entry is what its writer meant: the dots in front are cut and no more (`DotsCut`); the text
  of a host ends in a colon and a number only if that is its port (`NoPort`, `PortEnds`),
  since a domain and an IPv4 address have no colon and a bracketed literal ends in a bracket.
  Hence `HostMatches`: such an entry matches exactly the hosts it names, on its port. An
  IPv6 literal without brackets, cut or not, keeps a colon and ends in no bracket, and so
  names no host (`LiteralMatchesNone`). `RequestMatches` puts the forms together.

The proofs have one step per action; the actions that leave the tracker alone, or only
finish a probe, share lemmas.

Every invariant, action property and refinement that the runs check is proved. Only
model-checked are the two liveness properties, `Terminates` and `CommandEnds`, because
liveness under fairness is out of the prover's reach, and the disagreements above, which TLC
finds by reaching them.

## Plan

Modules, in this order; the most important behaviour, the live inspection, came first. All
of them are written.

1. `Policy`, `Tracker`, `Engine`, `PhaseLadder` and their properties.
2. `Documents`: reports as texts, their seal, `compare` and `replay`.
3. `Command`: one run of the command with files and output shared with others.
4. `Options` and `Plan`: merged options, and the dry-run plan against the probes of `Engine`.
5. `AddressClasses`, `AddressRegistry`, `NoProxyText`, `Disclosure` and `Admission`, which
   composes them.

Left to do: the outcomes of `TlsUnusable` by the host they depend on (an IPv6 literal, see
below), and the timestamps of probes against the durations a report gives of its phases.

## Not modelled

`capabilities`, schemas and completions are constant or generated text. Rendering for
people, and the contents of TLS and HTTP messages beyond status, Location, headers and
body, are text that no decision depends on. The release evidence verifier and the
benchmarks are scripts about the project and no part of the program; tests, fuzzing and CI
were read as its specification. In `Policy`, `missing_target_host`, `missing_target_port`,
`missing_proxy_host` and `missing_proxy_port` do not occur: an HTTP(S) URL that the URL
parser accepts has a host and a default port. An HTTPS target that is an IPv6 literal
reaches `ServerName::try_from` with its brackets (`src/engine.rs:640`); `Engine` has the
failure of that call as one of the outcomes of a handshake and does not tie it to the host.
