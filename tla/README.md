# A verification project for io-pim-discovery

`io-pim-discovery` finds the services behind an e-mail address: mail, calendar,
contacts and provider APIs. Its sans-I/O coroutines each speak one mechanism
(Thunderbird autoconfig, PACC, RFC 6186, 6764, 8620, 8414, 9728, 9110). A
blocking driver pumps them over a stream pool, and a *compose* client runs them
side by side and reduces what they find to one list of configs. This directory
holds TLA+ models of that code, the TLC runs that check them and the TLAPS
proofs of what matters most. File and line numbers refer to `src/src/`.

## 1. Inventory

| Part | State | Operations | Where |
|---|---|---|---|
| Compose client | none between calls; one call keeps outputs, a collector and the time left | `compose_all`, `compose_all_within`, `compose_first`, `compose_raw`, and narrower calls | `compose/client.rs` |
| Deadline fan-out | one slot per task, an mpsc channel, a deadline | `collect_within` | `compose/client.rs:1400-1437` |
| Collector | the collected list, the requested services | `collect`, `finish` | `compose/collect.rs` |
| Config algebra | none | equivalence, subdomains, `refine_auth`, `add_resource_issuers`, `set_oauth_resource`, `from_*` | `compose/config.rs` |
| DNS exchange | bytes to write, or bytes read so far | `resume`, chained four times by the SRV coroutines | `shared/dns.rs`, `rfc6186/`, `rfc6764/discover.rs` |
| Stream pool | origin -> open stream, scheme -> factory | `get`, `insert`, `with_factory`, `without_factory` | `shared/pool.rs` |
| Driver | the buffer | `run` | `compose/client.rs:1326-1364` |
| Redirect walk | current URL, redirects followed | `resume` | `shared/walk.rs` |
| DAV resolve | SRV, TXT, well-known or context check, and the origin | `resume` | `rfc6764/resolve.rs` |
| JMAP resolve | SRV or well-known, and the origin | `resume` | `rfc8620/` |
| Mechanism runners | none; calls made one after the other | `run_isp*`, `run_mailconf`, `run_mx*`, `run_pacc`, `oauth_server`, `oauth_resource` | `compose/client.rs:337-365, 957-1213` |
| Autoconfig, PACC, OAuth metadata | one exchange at a time | `resume` | `autoconfig/`, `pacc/`, `rfc8414.rs`, `rfc9728.rs`, `rfc9110.rs` |
| Fixed providers | none | `from_domain`, `from_mx`, two tables of configs | `compose/providers.rs` |
| Document types | none | serde shapes, read from XML and from JSON | `autoconfig/config.rs`, `pacc/config.rs` |
| Standard clients | one stream pool, kept between calls | one method per coroutine | `*/client.rs` |
| Command line | none | `email`, `calendar`, `contact`, `file`, `all`, `auth` | `cli/` |

**How they interact.** Within a call the compose client starts one thread per
task, six times in a row: resolver check, mechanisms, DAV context roots, endpoint
probes, resource metadata, issuers. A task owns its coroutine and its stream
pool; it shares nothing with others and answers once, over a channel
(`compose_all_within`, first three fan-outs) or through a scope join (everything
else). Coroutines nest by delegation: a resolve resumes a walk, a chain resumes
an exchange. They yield bytes and a URL to the driver, the driver asks the pool
for the stream of that URL. I/O errors reach the coroutine as an empty slice, the
end of the stream. A command of the command line checks the resolver, then asks
one mechanism after the other on its own thread, until one has something of its
domain of services.

**What is hard.**

- *Order.* Threads answer in any order and the result must depend on priority.
  The collected list does depend on the order of its input.
- *Time.* Three waits share one deadline; a task past it still runs; the passes
  after the deadline have none.
- *Failure.* A thread may panic, an exchange may break, a redirect may loop or
  leave HTTPS, a stream in the pool may have been closed by its peer.
- *Sequence.* Login methods, resource metadata, issuers and grants are rewritten
  by three passes whose order matters. Candidate roots are tried in turn, by a
  coroutine that reuses one state for two of them; so are the locations of an
  autoconfig document, up to three per mail host.
- *Framing.* A TCP answer arrives in pieces, on a stream used for several
  lookups, and for several calls by a standard client.
- *Shapes.* The same config is written as three kinds of document, four SRV names
  and two tables, each with its own defaults for port, security and login.

**What makes each part correct.** Fan-out: a slot is its own task's, only the
deadline loses a result, the caller always gets its slots back. Compose:
priority over completion, one budget, no plain endpoint in secure-only mode,
roots and metadata to the configs they belong to. Collector: nothing forgotten,
nothing invented, endpoints only improve. DNS: each answer whole and in its
place, all or nothing. Walk and resolve: bounded requests, every candidate in
order, a root that answered, no `http` stream in secure-only mode. Runners: the
first that fits in the order of preference, nothing skipped, nothing unverified,
nothing asked of a public suffix.
Conversions: an endpoint's port fits its security, the best SRV record is the one
shown, no plain endpoint in secure-only mode, a saved config reads back as itself.
Commands: a lazy search, no mechanism skipped or asked in vain.

The hazards in `PROJECT.json` list these at the line where each bites.

## 2. Modules

| Module | Models | State and actions against the code |
|---|---|---|
| `Gather` | what a fan-out promises, however built | `outcome` of the threads, `results` as the caller sees them |
| `CollectWithin` | `collect_within` | `chan` is the channel, `tx` the spare sender, `pc` where the loop is; `Poll`, `Recv`, `RecvErr` are `recv_timeout` and its two outcomes, `Send`/`Panic` the detached thread |
| `CollectWithinProofs` | | proofs, and the refinement of `Gather` |
| `Configs` | a config, endpoint equivalence, merging | `Collected(old, c, new)` is `collect` |
| `Auth` | authentication methods | the four rewriting operations, over sets |
| `Collector` | the collector as a state machine | `fed` is history: what the consumer handed over |
| `ConfigsProofs`, `CollectorProofs` | | proofs |
| `Compose` | one call of the compose client | extends `Configs` and `Auth`, instantiates `Gather` for its six fan-outs; one `Caller` action per stage |
| `ComposeProofs` | | proofs, on top of `ConfigsProofs` |
| `DnsLookups` | exchange, SRV chain, driver and pool over one stream, for several calls | `buffer`, `report` are the coroutine's; `stream` the pool's; `wire`, `lens` the resolver's; `Again` is a standard client called once more |
| `DnsLookupsProofs` | | proofs |
| `HttpWalk` | the redirect walk, with the pool below | `url`, `hops` as in the code; the terminal response is a verdict |
| `Resolve` | `DiscoveryDavResolve`, `DiscoveryJmapResolve` and the coroutines they chain | extends `HttpWalk`; `step` is the state enum, `candidate` the `Candidate` enum, `protocol` which of the two runs |
| `ResolveProofs` | | proofs |
| `Runners` | the mechanism runners and the probe of an endpoint, and the coroutines they run whole | `todo` is what the body of the runner has left to call, `log` what it called; one action per outcome of a call |
| `RunnersProofs` | | proofs |
| `Documents` | the provider tables, the `from_*` conversions, the choice of an SRV record, the JSON form of a config | operators only, one per function |
| `Search` | what a "first" command promises | `heard` is what the candidates asked so far found |
| `Commands` | a command of the command line, from the resolver check to its output | extends `Documents`; `left` is what the mechanism under way has left to ask, `got` its configs, `log` those of the mechanisms before |
| `CommandsProofs` | | proofs, and the refinement of `Search` |
| `AutoconfigJson` | the two readings of an autoconfig document | `saved` is its JSON form, `loaded` what is read back |

`MC*.tla` give the constants bounded values; each `.cfg` is one run.

**Composition.** `CollectWithin` implements `Gather` (refinement mapping in
`GatherSpec`: TLC on the instance, TLAPS for any number of tasks), and `Compose`
is built on `Gather`. `Collector` and `Compose` share the merge of `Configs`, so
what is proved of the merge is about the operator the compose model runs.
`Resolve` embeds `HttpWalk`. `Commands` runs the conversions of `Documents` and
implements `Search` (TLC on the instance, TLAPS in general). Compose takes what a mechanism finds as a constant
operator, `Found`; `Resolve` and `Runners` are the mechanisms behind it, each in
a task of its own, with nothing shared between two of them. What `Compose` assumes
of `Found` (`PublishedAssumption`: the two mechanisms that do not filter name
encrypted endpoints) is what `CommandsProofs` shows of the tables and of SRV
records (`FixedSecure`, `SrvSecure`).

**Abstractions.**

- A URL is scheme, host and path class; a text or an issuer is an atom. Ports
  are part of the host. `Subdomain` on hosts is a constant relation. The schemes
  are those a pool has a factory for: `tcp`, there for DNS lookups in either mode,
  `http`, which secure-only mode removes, and `https`. A URL of any other scheme
  is an exchange that fails. A `tcp` URL is taken to name a port, as it has no
  default one and opens nothing without.
- In `Compose` an output is kept under the priority of its mechanism, a position in
  `Priority`, and a filtered list keeps the positions of what is left of it
  (`Restrict`); only the flat list of `compose_raw` is renumbered by the code, and
  there a config's place is the pair of both positions.
- The authentication methods of a config are a set, without
  scopes where no metadata names any: order, which only decides
  what a client shows first, is dropped, and so is the duplicate check of `Vec`
  pushes, which a set makes idle.
- Time is a counter that moves while the caller waits. The caller's own
  computations take none. It stops `Patience` ticks after the deadline, a bound of
  the model: past the deadline no step reads the clock.
- A straggler, a task past the deadline, is forgotten by `Compose` (its sender
  finds a closed channel); `CollectWithin` keeps it running.
- In `DnsLookups` a byte is its place in an answer. All lookups carry the query
  id 1, so no id tells answers apart; the model has none. A resolver sends one
  answer per query: bytes beyond the frame are not modelled. After a broken
  exchange on a kept stream a length prefix may decode to anything.
- In `HttpWalk` one exchange is one step. What happens inside it, writes,
  partial reads and errors, ends in one of four outcomes.
- In `Runners` one call of `run` is one step, over a pool of its own. A document
  is the set of its configs, told apart by whether they are encrypted; it is its
  own digest. An error, an unexpected redirect and an unreadable document all
  hold no config, as all of them make the runner go on. Issuers, resources,
  endpoints and mailconf URLs have any of the three schemes. Only a probe follows
  redirects: its hops are not steps, but the schemes of the streams they open are
  recorded, any of those the pool has a factory for. MX records form a set,
  with exchanges numbered in the order of their names, as the sort by preference
  and name makes the order of the answer idle; CNAME and TXT records are a
  sequence, as the first one counts. The
  `via` of a call only tells the URL that stands in for an alias from a URL of
  the list that is spelled the same.
- In `Documents` a host name is the sequence of its labels, a text that of its
  parts, the placeholders among them; a port stands in the path of its endpoint.
  An `Option` is a set of at most one element and the configs of a document are a
  set, as no filter after them looks at their order. The sort of SRV records
  followed by its first element is the element that precedes all others.
- In `Commands` asking one location is one step: its outcomes are those that the
  runners and resolves end with. The response code of the resolver check is a
  number up to 15, 16 if there is none.
- In `AutoconfigJson` a value is a bare text, an object with a `#text`, null or
  missing; which of them a format yields is what the two readings differ in.
- Panics of tasks exist in builds that unwind. The release profile of the
  repository sets `panic = "abort"` (`Cargo.toml`); a library user's profile
  decides.

## 3. Runs

All passing runs are exhaustive for their instance.

| Run | Instance | Shows |
|---|---|---|
| `collect_within` | 3 tasks, 2 values, deadline 2 | slots, losses, refinement of `Gather`, termination with hung tasks, and no wait for the clock once every thread has ended. Three tasks are enough for an order that is neither the spawn order nor its reverse, two ticks for a result before, at and after the deadline |
| `collector` | two shards, their parent, an unrelated host; any order and repetition of up to 5 distinct configs | what a merge keeps and when an endpoint changes |
| `compose` | caldav requests in the 4 modes and jmap requests in 3 of them, known provider or not, secure or not, deadline 2, clock up to 3; PACC, MX and DAV answers that compete for one calendar, a JMAP service published twice with four probe outcomes and metadata with two servers; CalDAV walks that end on an `https` or a `tcp` root, CardDAV walks on an `https` or an `http` one; tasks free to hang | budget, priority, secure-only, roots, the three authentication passes; that the bounded stages end anyway, and that every call returns when every exchange does |
| `dns_lookups` | 2 calls of 3 lookups on one pool, answers of 0 or 2 bytes | every cut of every answer, hang-ups and broken exchanges anywhere, also between two calls, both transports. Two bytes already give a frame cut in the prefix, between prefix and body, and in the body; three lookups a first, a middle and a last one; a second call finds the stream open, closed or never opened |
| `resolve` | DAV and JMAP, 2 hosts, 3 schemes, 3 paths, 2 redirects (the code allows 5; the limit is a constant) | candidates, secure-only, bounds, termination. Two redirects are enough for the counter to be zero, between, and at its limit |
| `runners` | nine runners and three kinds of probe; five mail hosts of two providers, the domain itself and a public suffix; up to 3 MX records with 2 preferences, 2 CNAME records over 3 names, 2 TXT records; URLs and redirects of 3 schemes | first fit, order of preference, nothing skipped, ends of CNAME chains, PACC verification, bounds. Three records are enough for one provider to appear around another; two CNAME records for a chain out of order and a loop |
| `commands` | 16 commands; Gmail, Hotmail and two forms of an address of a domain of its own; every response code; MX, autoconfig, PACC and SRV answers with little, much, something for another command, or an endpoint in the clear | the refinement of `Search`, secure-only, the best SRV record, ports that fit their security. Two records of an SRV name, of four, give equal and different priorities, both orders and a root target |

Five runs are expected to fail. Each checks what a comment says and the code
does not do; they are the project's findings.

| Run | Comment | Code |
|---|---|---|
| `compose_late` | a single unreachable endpoint must not stall `compose_all_within` (`compose/client.rs:203-205`) | the probe, resource and issuer fan-outs wait for every thread and know nothing of the deadline: the call over-runs it by what a silent endpoint takes to give up, a minute per read over http(s) |
| `collector_duplicates` | the list is deduplicated, subdomains counting as one service (`compose/collect.rs:15-16, 43-46`) | a parent that comes after two of its shards merges into the first only |
| `autoconfig_json` | the JSON of a document round-trips cleanly (`autoconfig/config.rs:9-10`) | the helper that reads an element's text from XML refuses the bare text, and the null, that were saved (`:316-359`) |
| `resolve_plain` | secure-only mode refuses plain transports, whatever URL a mechanism was handed or redirected to (`compose/client.rs:149-150`, `cairn/log/2026-10-04-secure-only.md:11`) | only `http` is taken out of the pool (`:789`): a TXT path or a redirect to a `tcp` URL is asked over a plain stream |
| `resolve_errors` | every candidate is checked, and `NotFound` when none leads to a DAV server (`rfc6764/resolve.rs:15-17`) | an exchange that breaks on a candidate ends the resolve with that error |

### Fairness

- `CollectWithin`: weak fairness on the caller and on the clock (a deadline is a
  duration, and `recv_timeout` wakes up). Tasks have none, so that what is shown
  holds however long they take. An http(s) read or write that makes no progress
  gives up after a minute (`pimalaya-stream` 0.3, CHANGELOG 0.7.0,
  `cairn/log/2026-08-15-stream-0-3.md`), which is far beyond a deadline of an
  interactive caller; a `tcp` stream, which is what DNS lookups use, has no timeout
  (`shared/pool.rs:91-101`).
- `Compose`: `FairSpec` has the caller, deliveries and the clock.
  `AnsweredReturns` adds the threads as a hypothesis: every exchange with the
  network ends. Over http(s) the stream's own timeout sees to it, but for a server
  that keeps sending; of a DNS lookup over `tcp` it is an assumption on the network.
  `compose_late` is about safety and needs no fairness: the call is still waiting
  when its deadline has passed.
- `DnsLookups`: the coroutine is resumed as soon as it can go on (`Pump`), and the
  resolver answers what it got unless it hangs up (`Answer`). No fairness on hanging
  up, and none on errors. `Ends` says nothing of a call that broke an exchange off.
- `Resolve`: every exchange ends, by an error if need be. Nothing is assumed of
  redirects: the hop limit alone ends a loop.
- `Runners`, `Collector` and `Commands` have none: their properties are safety. A
  runner ends because `BoundedCalls` bounds the calls it makes, a command because
  each of its steps consumes a location or a mechanism.

Deadlock checking is off where the system stops by itself (every run except the
collector, which can always be fed again).

## 4. Proofs

TLAPS checks these for every value of the constants that satisfies the named
assumptions.

**`CollectWithinProofs`** (any number of tasks, deadline and values): `TypeOK`,
`OwnSlot`, `NoEarlyLoss`, that no result is duplicated or lost on its way
(`InFlight`), and that every step of the loop is a step of `Gather`'s next-state
relation or a stutter. The inductive invariant `IInv` adds `Bookkeeping` to the
properties themselves: a thread that has ended was spawned, the spare sender is gone
once the loop runs, and the number of receives equals the number of filled slots.
The last is why the loop may stop counting at the number of tasks: without it,
nothing says that a loop that received `n` messages filled `n` slots, and
`NoEarlyLoss` is not inductive. It rests on `InFlight`: a task has one message, in
the channel or delivered. `NeverWaitsForNobody` follows from the spare sender: once
it is gone, a channel whose threads have all ended is disconnected.

**`ConfigsProofs` and `CollectorProofs`** (any hosts, configs and requested
services): type correctness, `Provenance`, `NothingForgotten`, `OnlyImproves`.
The lemmas of `ConfigsProofs` say what one `collect` does to a list: it appends
the config, or merges it into one entry and leaves the rest. The invariants then
follow from case analysis on that. `CollectTwice`: the merge is idempotent, which
rests on the strict order of subdomains; the finding `collector_duplicates` shows
that it is not commutative.

**`ComposeProofs`** (any requests, documents, schemes, metadata, grants and
deadline): all of `Compose`'s invariants and step properties. They share the
invariant `IInv == Slots /\ Typed /\ Stages`:

- `Slots`: a filled slot holds what its own task answered. What a task may answer
  is fixed when it is launched (`AnswersStay`), which is where the passes get
  their facts about the network from.
- `Typed`: outputs and list are configs, of requested services once collected.
- `Stages`: what each stage starts from, e.g. no fan-out in the reduction, and
  one scheme set per config between the probe and the last pass.

On top of it each property has a strengthening of its own: `Clock` (in the bounded
stages the clock stays within the deadline, and no wait is set to end after it, for
`Budget`), `Secure` (everything handed from
stage to stage is encrypted, roots and merges included), `Unbound` (no grant is
bound before the last pass, for `GrantsBound`), `Walking` and `Complete` (what is
collected so far, and that nothing producing was passed over, for `Reduction`).
`OwnRoot`, `ProbeWins` and `OauthKept` follow from `IInv`. Four named assumptions
say what the code guarantees of the inputs: `DeadlineAssumption`,
`PublishedAssumption`, `RootsAssumption` (a walk ends on an endpoint) and
`MethodsAssumption` (methods are closed under the passes, and an issuer resolves
to at least one unbound grant or to nothing).

**`DnsLookupsProofs`** (any number of lookups and calls, any answer lengths):
`OwnAnswer`, `AllOrNothing`. As no id tells answers apart, an answer is a call's
own because nothing else can be on the stream: `Clean` says that at most one query
is under way and that the buffer and the wire together hold a part of its frame;
`Reported` that the report holds the answers before it. Both need that no exchange
was broken off before, and fail without: see section 5.

**`ResolveProofs`** (any URLs, hosts, paths and hop limit): `TypeOK`, `SecureOnly`,
`EveryCandidate`, `RootAnswers`, `BoundedRequests`. `SecureOnly` is what is true of
secure-only mode: no `http` stream and no `http` root, and HTTPS only as long as
neither a TXT path nor a redirect was followed; the run `resolve_plain` shows that
no more can be said. The first half needs that a walk that ended is not at an `http`
URL, which needs that the pool has neither a factory nor a stream for one
(`SecureInv`); the second that a request beyond one per candidate is a redirect that
was followed, so that until then the URL under way was built from the origin
(`StraightInv`). `EveryCandidate` needs to know where a search stands: `Place` ties
the candidates tried to the step, since one step serves two of them. `Landed` keeps
the URL of a walk that found the service, and `Allowance` counts requests made and
requests left together, so that a redirect moves one from the second to the first.

**`RunnersProofs`** (any mail domain, exchanges, records, aliases, documents and
bounds on the answers): all seven properties of `Runners`. What the code computes
by a loop or a sort of an answer of any length (the bases of the mail hosts
without duplicates, the records in order of preference, the hops along CNAME
records) is first characterised by lemmas about the operators. The library's
induction theorems cannot be instantiated here, so those lemmas argue by the
smallest counterexample: `LeastNatural` gives the first step at which a claim
fails, and `LoopInduction` and `Loops` package that for the recursive functions of
the model.

- `Kept` is the common invariant: types; `Stages`, which ties what is left to
  call to the answers received; `Clear`, that in secure-only mode a runner that
  builds its URLs, or checks the one of a TXT record, has no `tcp` URL on its list; and `PaccStages`: before the TXT
  answer the document is held back and nothing is found, and no call is left
  after it. `TypeOK`, `Verified` and `SecureOnly` rest on it.
- `Searching`: a runner that has calls left has found nothing. With `Unasked`
  (as long as nothing is found, every place to look has been asked or is on the
  list) it gives `FirstFit`.
- `Ahead`: on the list, the locations of a mail host come after those of every
  better one, or these have been asked. `Preference` is not inductive without it,
  since it only speaks of calls made. The detected provider comes from the lemma
  that a scan of an ordered list stops at the best record that matches.
- `Chained`: a chain is held only until the document at its end is asked for.
- `Bounded`: `Weight` counts a call that may open another one (an alias, a TXT
  record) twice, so that following it moves one unit from what is left to what
  was made.

**`CommandsProofs`** (any documents, records, URLs and inputs; priorities and
weights are u16, `SrvAssumption`): `SecureOnly`, from the lemmas that the tables
and SRV records are encrypted though nothing filters them; `PortFitsSecurity`;
that every command implements `Search`, from `SearchInv` (no mechanism before the
one under way found anything of the command's), and what a user gets from that
(`FirstHitOnly`); `BestSrv`; and `RoundTrip`, that a config of any mechanism reads
back as itself from its JSON form. `BestSrv` has two halves. `ForemostExists`: any
records have one that precedes all others, the smallest index of the largest
weight of the smallest priority. `SrvInv`: the configs of SRV that are found are
those of the one answer received. That needs `AskedOnce`, that a search asks for
SRV records once, and that only searches for email services ask for them, or else
the filter on services could drop what was found.

**Abstract promises.** `Gather` and `Search` are what their callers rely on, so it
is proved what they are worth by themselves: `PromiseIsEnough` derives own slots and
no loss before the deadline from `Gather` alone.

Only model-checked: liveness (`Returns`, `AnsweredReturns`, `MechanismsCannotStall`
and the two `Ends`) and with it the fairness part of `GatherSpec`: liveness under
fairness is out of the prover's reach. Every safety property and every action
property of a passing run is a theorem.

## 5. Not modelled

- The grammars: XML, JSON, DNS messages, URLs, the challenges of
  `WWW-Authenticate` (read by io-http, outside this repository), the arguments and the tables of the command line. What is read out of a document is
  modelled, how it is read is not, but for the two readings of `AutoconfigJson`.
- TLS, the operating system's resolver and `/etc/resolv.conf`, pre-fed streams
  (`insert`) and the builders of the clients.
- The `auth` commands, which print what one runner of `Runners` returns.
- Fields of documents that no conversion reads: names, domains, documentation
  and POP3 options of autoconfig, the provider and help of PACC.
- The check for an empty host in `from_srv` is modelled, but nothing reaches it:
  `rfc6186/srv.rs` drops root records. The check at `compose/client.rs:884` that a
  root is HTTPS in secure-only mode is needed, though the pool has no `http`
  factory: a walk may end on a `tcp` URL.

Behaviours seen while modelling and checked by no run of their own:

- A dead resolver fails a compose, and so does a plain one in secure-only mode
  (`check_resolver`); the module comment says that only an invalid address does
  (`compose/client.rs:12-13`).
- An issuer, a protected resource or an endpoint may be a `tcp` URL, which is asked
  over a plain stream in secure-only mode too: `Runners`' `SecureOnly` makes no
  claim on `https` for the runners that are given a URL.
- A resolver that closes its stream after each answer fails every SRV chain at its
  second lookup, because the pool never evicts a stream. A standard client whose
  stream was closed never recovers, for the same reason; and after a read error it
  would take a late answer for that of its next call, as all queries carry one id.
- A failed TXT lookup ends a DAV resolve, though a failed SRV lookup does not.
- PACC is planned for every request (`compose/client.rs:544`), also for provider
  APIs its document cannot name.
- The documentation of the `calendar` and `contact` commands promises services of
  Google and Microsoft, but `first_dav` (`cli/domain.rs`) has no provider rule.
- A command asks autoconfig before PACC; the compose call prefers PACC.
- The probe of RFC 9110 reads challenges of a response of any status, not of a 401
  only.
- For a bare domain, autoconfig substitutes an empty text for `%EMAILDOMAIN%`.
- `autoconfig/config.rs` accepts `GSAPI` for Kerberos, where the format says
  `GSSAPI`: a document that names the latter is refused.

## 6. Plan

Done: the fan-out and its refinement, the collector, the compose call with the
proofs of all safety properties, the DNS chain over several calls, the walk,
the resolves, the runners and probes, the conversions, and the commands with the
search they implement.

Open:

1. `Compose` on the operators of `Documents` instead of a constant `Found`: it
   multiplies the documents of an instance, but would discharge
   `PublishedAssumption` inside one model.
2. Theorems that a constant-level `Found` of `Compose` satisfies its assumptions
   when it is what the conversions of `Documents` return.
