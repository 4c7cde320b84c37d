# Gatekeeper: specifications, model checks and proofs

Gatekeeper gives the processes of a coding-agent runtime short-lived, signed
identities and mints credentials for them. `gatekeeper serve` is the identity
issuer: it answers `issue-session` and `issue-child` on a Unix socket and puts
each assertion into a delivery directory of its own. `gatekeeper hook
claude-code` runs once per event of the runtime and sees to it that every agent
has an assertion and every command of it finds it. `gatekeeper mint` and
`gatekeeper mint-a2a` attest the caller and exchange what was attested for a
GitHub App token or an agent-to-agent token.

This directory holds TLA+ models of those parts, the instances TLC checks, and
proofs TLAPS checks. All definitions are translated from the Go source;
`PROJECT.json` names the lines of each, the properties each run checks, and for
each property a broken form of one definition under which TLC finds it violated.
The broken forms stand in the modules beside the definitions they replace, under
the same name with a suffix (`Stale_Unregistered`), and nothing else uses them.

    tlasany M.tla                              parse a module
    tlc -workers 2 -config MCx_run.cfg MCx.tla  check an instance
    tlapm XProofs.tla                           check the proofs about module X

## 1. The system

    runtime (Claude Code)                         operator
       | one process per event                      | hooks-install, definitions,
       v                                            v config, keys, App secrets
    gatekeeper hook  --- upstream hook           settings, config files
       |   ^                                            |
       |   | record files (state dir)                   |
       v   |                                            v
    Unix socket ---> gatekeeper serve (issuer) --- registry (memory)
       ^                    |        \
       | /proc of the peer  |         +--> delivery directories (0700)
       |                    v                   |  identity.jwt, tmp/
    process table       JWKS file, socket       |
                            |                   v
                            +------------> gatekeeper mint / mint-a2a
                                                |          |
                                             broker    GitHub / OpenBao

| part | state it keeps | operations | hard behaviour |
|---|---|---|---|
| identity issuer (`internal/identity`) | registry of live assertions, in memory; delivery directories on disk; definition files | issue-session, issue-child, reap, restart | concurrent handlers, the reaper beside them, I/O that fails half way, restarts with an empty registry and live tokens |
| runtime binding (`binding.go`, `peer.go`) | none; reads `/proc` | walk from the peer to the runtime, second pass | every read is a separate instant; exit, exec, pid reuse, reparenting, upgrade of the binary in between |
| start of serve (`serve_linux.go`, `server.go`) | socket path, private directory, key set file, the key that was loaded | load, listen, publish, stop | several starts on one path or beside it, failing calls, crash, a key replaced while servers run |
| trust roots (`trust_linux.go`, `fileio_linux.go`, `setup.go`) | directory handles | open each root, load a definition, publish | owners and modes along a path, entries replaced while it is walked |
| publishing (`publish_linux.go`, `spawndir_linux.go`) | files and directory entries | publish by replacing, publish once | power loss between any two steps |
| hook adapter (`internal/hook/claude.go`, `state.go`, `delivery.go`) | one record per session and one per agent, delivery directories it was given | five events, prune | events of one agent at once; a hook killed anywhere; records and directories that go stale separately |
| composed hook (`upstream.go`, `hook_cmd.go`) | one process, its pipes and timers | run the upstream, judge its exit, add a statement | deadline against exit, pipes held open, kill, runtime's own timeout |
| attestation (`internal/attestation`) | none; reads environment, files, a key set | delivery checks, verification, provider chain, domain policy | a miss against a refusal; several faults at once |
| GitHub mint, A2A mint (`internal/mint`, `a2amint`, `a2apolicy`, `a2atoken`, `githubapp`) | none | gates, broker reads, exchange, audit | secrets replaced between reads; one of several calls failing |
| hooks-install (`install.go`, `permission_rule.go`) | settings file | apply, remove | two editors of one file |
| brokers, configuration, wire format, log, command analysis | none | one read or decode | none of its own |

What makes each part correct, and the places in the code where that is hard to
see by testing, is the `hazards` list of `PROJECT.json`, each with the
properties that would show it going wrong, or why none does yet.

## 2. The modules

| module | models | abstraction |
|---|---|---|
| `Issuer` | issuer, registry, delivery directories, reaper, restarts, the processes assertions are bound to | one step per access to shared state; binding is one step (see `RuntimeBinding`); claims are the ones authority depends on |
| `Authority` | abstract: what the issuer promises whoever trusts its assertions | assertions, the run and the key; no handlers, registry, directories or clock |
| `IssuerProofs` | theorems about `Issuer`: its assertions, their delivery and the registry | |
| `RuntimeBinding` | the walk over `/proc`, read by read | an image is what the code looks at: its file, whether it is a shell, whether it has a `-c` cluster |
| `BindingProofs` | theorems about `RuntimeBinding` | |
| `HookAdapter` | all events against the state store and the directories | one step per access; an identity is a directory number, the issuer answers or refuses |
| `AdapterProofs` | theorems about `HookAdapter`: what records say, and who owns a directory | |
| `ServeSocket` | several `serve` starts and stops on one path or, with `--socket`, elsewhere; the key each loads, the key set that is published, and what `mint` under the same configuration makes of their assertions | one step per change of the file system; a key is a value |
| `ServeSocketProofs` | theorems about `ServeSocket` | |
| `TrustRoot` | the walk to each trust root of one start, and what `serve` then reaches through the handles, while other uids and the operator change the tree | one step per system call; an inode has one name, an owner of two kinds and a mode that others may write through or not |
| `TrustRootProofs` | theorems about `TrustRoot` | |
| `Publish` | `publishFileAt`, `publishRelative` and `writeAtomic` under power loss | content is none, part or whole; a directory entry is flushed or not |
| `PublishProofs` | theorems about `Publish` and `HooksInstall` | |
| `HooksInstall` | `hooks-install` on a settings file, extends `Publish` | a document is the containers the code reads and the entries in them; a command line is the event it is registered for and what else is in it; a loop that keeps some elements of a list is `Picked` of their positions |
| `Compose` | one composed hook, with clock | a reply is a class, a tick is a quarter of a second |
| `HookPromise` | abstract: what a runtime may rely on from one hook | one answer; no processes, pipes or timers |
| `ComposeProofs` | theorems about `Compose` | |
| `Attestation` | verification, providers, chain and domains, as operators | a token is the fields a check looks at |
| `Mint` | one `mint` or `mint-a2a` process, extends `Attestation` | GitHub and OpenBao external; a secret is known by the App it is of |
| `MintProofs` | theorems about `Mint` | |

`Issuer` relies on what the other modules establish: that binding is one instant
(`AncestryAtOneInstant`, the first part of `BindsTheRuntime`), that a published
assertion is whole (`NameIsComplete`), that one server owns the socket
(`OneOwner`), that the key and the definitions come from files no one else could
write (`ActsOnlyOnTrusted`). `HookAdapter`
takes from `Issuer` that an issued assertion has a directory of its own until it
expires (`AnsweredIsDelivered`), and `Mint` that what is delivered is genuine.
`Compose` takes the time gatekeeper's own part may use from the bounds that
`HookAdapter`'s steps run under.

### How state and actions correspond to the code

**Issuer.** `req[h]` is the stack of handler `h` between two accesses; its phase
names what comes next. `AdmitSession` and `AdmitChild` take the request, its
peer and the clock (phases `session`, `child`); `LookupParent` finds the
parent's entry (`found`); `GrantSession` and `GrantChild` bind and apply the
policy, or `Refuse` answers with an error (`create`). Then `finish`: `CreateDir`
draws the ids, signs and makes the directory (`publish`), `PublishToken` and
`PublishTmp` make its two entries (`tmp`, `record`), `Record` puts the entry and
answers. `registry` is the map of `registry.go`, `Put` its purge and insert;
`dirs` the directories with their creation time and entries; `assertions` every
token that was signed, a history that only the properties read. `CreateFails`
and `PublishFails` are errors of those calls with the `Discard` after them, and
`DiscardFails` a `Discard` whose error is dropped. `Restart` is a crash, or a
stop, and the next start, with the same signing key or another: it ends all
handlers and empties the registry. `ReapStart` reads the clock and the names,
`ReapDir` decides and removes one directory.

`Issuer` refines `Authority` under the mapping `issued <- assertions`, with `run`
and `key` as they are: `PublishToken`, after which a client may read the token, is
`Authority!Issue`, `Restart` is `NewEra`, and every other step stutters.

**RuntimeBinding.** `Fields` are the six reads of `readProcFrom`; `cur` is the
record being read, `chain` the ones that were accepted, `pass` the walk or
`confirm`. `Exit`, `Exec`, `Fork` and `Upgrade` are the host's, between any two
reads. On an exit children go to init or to any subreaper above (`Adopters`),
as the kernel decides.

**HookAdapter.** `sess` and `agts` are the record files, `touched` the age of a
session's directory, `dirs` the delivery directories, `grants` what the issuer
made each for. Each event is a chain of `pc` values that ends in `Done`.
`AccessFails` is an error of one access, with the cleanup the code does;
`Killed` is the runtime's timeout or the hook's own deadline.

**ServeSocket.** `MakePrivate`, `Bind`, `SetMode`, `Link`, `RemovePrivate` are
`Listen`; `PublishKeys` and `PublishFails` the `WriteJWKS` after it;
`RemoveSocket` the removal of the path when that failed. `LoadKeyring` is the part of
`NewIssuer` that decides what is signed with, `Issue` the first answer of a
server, `Stop` and `Crash` its two ends. `Rotate`, `CleanUp` and `PutForeign` are
the operator's. `config` says whether `identity.issuer` and `identity.jwks_path`
are set. `Located`, `PublishedKey` and `Verdict` are what `mint` finds:
`buildAssertionProvider` with the locator, the key set it fetches, and the code
`verifyAssertion` answers with.

**TrustRoot.** `Plan` is the list of roots in the order `NewIssuer`, `Listen` and
`WriteJWKS` open them. `stage`, `fd` and `depth` are the loop of
`openTrustedDir`: `CheckDir` is `checkTrustedDir`, `OpenNext` the `openat` of the
next component, `MakeDir` the `mkdirat` of a missing last one, `Reopen` the
`openat(".")` with the `fchmod` of a directory that was made. `UseKey`,
`UseNothing`, `KeepHandle`, `UseByPath` and `PublishJWKS` are what the caller does
with the root, `UseSpawnRoot`, `LoadOpens` and `LoadReads` what requests do later.
`TheyAdd`, `TheyMove` and `TheyChmod` are other uids within the kernel's rules,
sticky bit included; `OperatorMoves` and `OperatorReplaces` are root or the
serving uid. `used` is a history of what was acted on.

**Publish.** A writer's `pc` is the last call that returned. `PowerLoss` keeps
any part of what was not flushed and every flushed entry. `file` says which of
the three kinds of file the behaviour is about.

**HooksInstall.** Where the file is the settings, a writer is one run
(`ReadAndEdit`, which is `ApplySettingsFile` up to `writeAtomic`, then the steps
of `Publish`) or someone else who leaves a document (`UserEdit`). `Apply` and
`Unregister` are the two editors of a document (`Apply` and `Remove` in Go) with
the functions they call; a run that changes nothing ends as `kept`, one that
cannot read the document as `failed`. `origin` is a history: the user's edit that
a document goes back to.

**Compose.** `ended` and `reaped` are the upstream process, `cancel` the watcher
of `exec.Cmd`, `phase` where the hook is: `wait` for the upstream, `drain` the
stdin, `own` part, `emit`. `classifyUpstream` is `NoVerdict`, the merge of the
statement `MayAdd`. `Compose` refines `HookPromise` with `fate <- ended`,
`late <- expired`, `whole <- stdin = "ended"` and the answer once the phase is
`answered`: the end of the upstream, its deadline, the end of the payload, the cut
and the answer are steps of the promise, everything else stutters.

**Mint.** `pc` is the position in `runMint` and `mintForDomain`, or `runMintA2A`,
`a2amint.Service.Mint` and `a2atoken.Issue`. The assertion is asked first
(`ReadDelivery`, then `Verify` with the key set as it is at that moment), the
other providers in one step, since each is read at most once. `Replace` is an
operator who rewrites the role's four secrets in any order between the reads.

## 3. What is checked

Each run is one cfg and finishes in a few minutes at most. A module's `TypeOK` is
a conjunct of one of its properties (`IInv`, `AncestryAtOneInstant`, `StoreSound`,
`ModeBeforeName`, `ActsOnlyOnTrusted`, `NeverCut`, `NameIsComplete`, `ForeignKept`,
`Audited`).

| run | shows |
|---|---|
| `sessions` | Down any chain of delegation an assertion has no role and no second of life its session did not have, names its parent truthfully, and is bound to a process that was its session's runtime (`SessionCeiling`, `ChildWithinParent`, `SessionPinned`, `OnlyServingUid`); the issuer implements the abstract authority (`KeepsThePromise`); `IInv` is the inductive invariant of the proofs |
| `lifecycle` | An answered assertion is in its directory until it expires, no directory is without a handler, an assertion or the reaper to take it, the registry says only what was issued (`AnsweredIsDelivered`, `NoOrphanDirectory`, `RegistryTruthful`) and keeps what is live (`RegistryKeepsLive`) |
| `reaping` | Every directory that is old enough is removed in the end (`StaleDirsReaped`) |
| `walk` | On a host that stands still the result is exactly the first process that is no wrapper, if it is within the limit and of the peer's user (`QuietExact`); what is bound while the host changes was the peer's ancestor with the links between them all at one instant, and is never the client binary (`BindsTheRuntime`) |
| `agents` | No record without its directory (`StoreSound`), all hooks of one agent agree on one identity (`RacersAgree`), a stopped agent's commands are given nothing that is gone (`StoppedNotDelivered`), no child is left that nobody will remove (`NoLeakedChild`), a command gets the directory that was made for its own session, agent and definition (`DeliveredMatchesCaller`), and a record says of its directory what is true of it (`RecordMatchesDirectory`) |
| `start` | The socket has its mode before it has its name (`ModeBeforeName`), at most one server owns a path (`OneOwner`), the key set is the owner's (`KeysAreTheOwners`), and `mint` accepts exactly what the owner's key signed (`MintGoesByTheOwner`) |
| `roots` | `serve` acts only on directories and files that no other uid could write to at that moment (`ActsOnlyOnTrusted`), and nobody but the operator can make the path of a verified root lead elsewhere (`PathsHold`) |
| `files` | A final name is absent or whole after any power failure, and a success survives it (`NameIsComplete`, `SuccessSurvives`); edits of the settings, at once or one after another, keep what is not the adapter's (`ForeignKept`), leave each registration once and whole (`RegisteredWhole`), are undone by a removal (`RemoveRestores`) and write nothing the second time (`SecondRunWritesNothing`) |
| `hook` | A hook gives the one answer the promise allows: the upstream's blocking exit always gets through, the statement is added only to a reply that allows, a killed upstream says nothing (`AnswersAsPromised`); the runtime never cuts off a composed hook that hooks-install registered (`NeverCut`), and every hook answers (`Answers`) |
| `exit` | (expected violation) the upstream's exit code is its verdict |
| `mint` | Verification reports the code the contract's order asks for (`ContractOrder`); an assertion that was delivered decides (`AssertionDecides`); a broken layer is never papered over and a spawned agent never acts as its parent (`NoSubstitute`); secrets are read only for an entitled caller (`SecretsForEntitled`); a token is of the App it is reported for (`TokenOfConfiguredApp`); every A2A outcome is audited once (`Audited`) |
| `contract` | (expected violation) the codes for a key of another type |

### Bounds, and why they are enough

- `sessions`: three ids give a session, its child and a grandchild, and a second
  session beside a child; two roles of which one is delegable tell a role that
  was lost from one that may not be passed on; two executables and two starts of
  one pid are the cases of a runtime that was replaced. Peers come through a
  helper (`Via`) and the one pid adopts orphans (`Subreaper`), so that a helper
  whose runtime is gone leads to the wrong process. One disturbance (a start or
  an exec, an edit, a restart) happens per behaviour (`OneDisturbance`): each
  alone reaches every guard; two at once exceed what fits.
- `lifecycle` and `reaping`: two handlers and two ids are a creation beside a
  creation and beside the reaper; two faults allow a failed publish and a failed
  discard of the same request. Time runs past `MaxAge` (twice the lifetime).
  `reaping` has one handler, since liveness rules out symmetry.
- `walk`: five pids are init, a client, one wrapper, the runtime and one process
  that is born. `MaxHops = 1` puts the limit within reach; the code's limit is a
  larger number that nothing else depends on. Standing still, all tables of four
  processes of two users are tried; while the host changes, one chain and three
  events, which is what an exit, a reuse of its pid and one more change need.
- `agents`: two hooks at a time (each step of a race is a race of two), one
  session with its one agent, three directories, which is one more than a race
  can create before something is stale. A lifetime of one tick and a clock of two
  let records expire, be pruned and their directories be reaped; one fault is a
  kill or a failed access. Resumes under another agent type and refreshes are
  explored without faults and before anything is old (`OneConcern`): what they
  add is which definition a record names, which neither age nor a fault decides.
  A fault comes with two directories, or with three before anything is old.
- `start`: three servers, two on one path and one elsewhere, with one failing
  call, one replaced key and both settings of `identity.issuer` and
  `identity.jwks_path`. Two contend, the third publishes from the side, and a
  crash lets any of them be followed by another.
- `roots`: the default layout (key and key set in one directory, the spawn root
  within the socket's) with at most one component that is shared and sticky,
  loose, another's, a link or absent, or one file another's or loose, and two
  changes between any two system calls. One odd component is what a check must
  see; a directory moved away and another put in its place are two changes.
- `files`: three writers, two power failures, one failing call. Three are a user
  with a run over another, or three runs. The documents a user leaves are every
  kind of container under one event (absent, of another type, empty, a foreign
  group, an old registration alone, beside foreign ones, three times, or under
  an event it is not for) with every kind of permissions; a second event shows
  that the events do not disturb each other. The installs are one that composes
  and one that does not. `MCText` holds the few command lines and rules in use, and
  stands for all strings: nothing but equality is asked of one.
- `hook`: the program's own numbers in quarter seconds: 5 s budget, 0.25 s pipe
  delay, 0.5 s drain, 5 s for the own part and 8 s allowance, and one entry made
  by hand with 6 s.
- `mint`: all tokens with at most two faults of twenty-one against four key
  sets; all combinations of what a sidecar, the session's sidecar and the
  configured source can hold, with and without a delivery directory; every
  interleaving of one replacement of the App with the four reads.

Where the system may stop (handlers idle at the end of time, a process that has
ended) deadlock is not checked; every run has such states by the bound on its
clock or by its nature.

### Fairness

Only two runs check liveness.

- `reaping` (`Issuer!Fairness`): weak fairness of `Tick`, of each handler's next
  step (`Serve`) and of its error path (`PublishFails`, of which there are at
  most `MaxFaults`), of `ReapStart`, which the ticker of `server.go` runs, and of
  `ReapDir` for each name. Requests, restarts, exits and edits are not fair. The Go scheduler and the ticker justify this; a handler has
  no wait that another one holds.
- `hook` (`Compose!FairSpec`): timers fire, the hook's goroutines run, the
  runtime enforces its timeout, and the own part ends by its deadline because
  its context does. Nothing is asked of the upstream, its descendants, the
  stdin or the issuer: each may hang for ever.

## 4. What is proved

The proofs hold for every value of the constants that meets the named assumptions
of the module they are about, so for any number of handlers, hooks, servers,
writers, ids and directories, and any lifetimes. The bounds that TLC needs are
constants too, and any natural number.

| module | theorem | statement |
|---|---|---|
| `IssuerProofs` | `TypeCorrect`, `InductiveInvariant` | `Spec => []TypeOK`, `Spec => []IInv` |
| | `CeilingHolds`, `WithinParentHolds`, `PinnedHolds`, `RegistryHolds` | `Spec => []SessionCeiling`, `ChildWithinParent`, `SessionPinned`, `RegistryTruthful` |
| | `PromiseKept` | `Spec => KeepsThePromise`, the refinement of `Authority` |
| | `ServingUidHolds` | `Spec => []OnlyServingUid` |
| | `DeliveryInvariant`, `DeliveredHolds`, `NoOrphanHolds` | `Spec => []Delivery`, `[]AnsweredIsDelivered`, `[]NoOrphanDirectory` |
| | `RegistryKeepsLiveHolds` | `Spec => RegistryKeepsLive`, an action property |
| `BindingProofs` | `BindsRuntime`, `BindsByTheRule` | `Spec => []BindsTheRuntime`, `[]QuietExact` |
| `AdapterProofs` | `CoreInvariant`, `RecordMatchesDirectoryHolds`, `DeliveredMatchesCallerHolds` | `Spec => []Core`, and the two properties |
| | `OwnedInvariant` | `Spec => [](Core /\ Owned)` |
| | `StoreSoundHolds`, `RacersAgreeHolds`, `StoppedNotDeliveredHolds`, `NoLeakedChildHolds` | the four properties of the store |
| `ServeSocketProofs` | `StartInvariant`, `ModeBeforeNameHolds`, `OneOwnerHolds`, `KeysAreTheOwnersHolds`, `MintGoesByTheOwnerHolds` | `Spec => []IInv`, and the four properties |
| `TrustRootProofs` | `Trusted`, `PathsLead` | `Spec => []ActsOnlyOnTrusted`, `[]PathsHold` |
| `PublishProofs` | `PublishInvariant`, `NameIsCompleteHolds`, `SuccessSurvivesHolds` | `Spec => []IInv`, and the two properties |
| | `InstallInvariant`, `SettingsPublished` | `HSpec => []HIInv`, and the same two properties where users write the file too |
| | `ForeignKeptHolds`, `RegisteredWholeHolds`, `RemoveRestoresHolds`, `SecondRunWritesNothingHolds` | `HSpec => []` each of the four properties of the settings file |
| `ComposeProofs` | `TypeCorrect`, `NeverCutHolds` | `Spec => []TypeOK`; `Spec => []NeverCut` where `AllowanceCovers` |
| | `AnswersAsPromisedHolds` | `Spec => AnswersAsPromised`, the refinement of `HookPromise` |
| `MintProofs` | `MintInvariant`, `AssertionAlwaysDecides`, `NeverSubstituted`, `SecretsOnlyForEntitled`, `TokenAlwaysOfConfiguredApp`, `AlwaysAudited` | `Spec => []IInv`, and the five properties |
| | `RefusedInContractOrder` | `Spec => []ContractOrder` |

### The issuer's assertions (`IssuerProofs`)

Assumptions: `PeerAssumption`, `JtiAssumption`, `DefAssumption`, `RoleAssumption`,
`TTLAssumption`, `BoundAssumption` (what peers, ids and definitions are, a set of
roles, and naturals for the lifetimes and bounds).

The properties are about assertions that were signed, and none of them is
inductive: a handler holds a draft or a signed token for several steps, and what
it will record depends on what it read. `IInv` is `TypeOK` with `Core`, which
conjoins the three properties of tokens, `RegistryTruthful` (every entry stands
for a token that was signed), and

- `IdsUnique`: ids are drawn before a token has them, two tokens with one jti
  are one token, and two handlers that finish never have the same jti;
- `PhaseInv`: what a handler knows in each phase. In `child` and `found` the
  parent it was handed is a signed token of the present key that has not
  expired, and in `found` the entry it read is that token's, truthful and of the
  peer's user. In `create` the draft is one that its session or parent entitles
  it to (`DraftEntitled`). In `publish`, `tmp` and `record` the same holds of the
  token (`TokEntitled`); its id is no assertion's before `PublishToken`, and the
  token is among the assertions after it;

and with `Timely`: a draft and a token in a handler's hands expire after they
begin and within the contract's lifetime.

With these each action is a small case. `GrantChild` uses that the entry is
truthful, so that the roles it intersects and the expiry it minimises are those
of the parent token; the parent is within its own session by induction, and so
the child is. `PublishToken`, the one step that adds a token, has its facts from
`TokEntitled`, and that it is new from `IdsUnique`. Actions that touch no token
and those that only advance a handler are covered by a lemma each.

`PromiseKept` maps each step to one of `Authority`. For `PublishToken` the token
is fresh by `IdsUnique`, of this era because a restart ends every handler,
`Lives` by `Timely`, and begins a session or is cut from its parent by
`TokEntitled`.

### Delivery and the registry (`IssuerProofs`)

`OnlyServingUid` follows from `ServedBy`: a request that was admitted stays with
the serving uid's process, because `GrantSession` and `GrantChild` bind only a
process of the peer's user, whoever has its pid by then. `Delivery` adds to `IInv`
that a directory has an id that was drawn and is in use, answered or leaked; that
it outlives what it delivers (`created + MaxLifetime` is not before `exp`); that
the sweep only takes names whose directory was too old when it looked; and what
an unexpired token has in its directory in each phase. A sweep takes a directory
after twice the lifetime, when nothing in it can be live: that is the whole of why
the reaper needs no lock against the handlers.

`RegistryKeepsLiveHolds` needs one more fact, `Sampled`: a request's clock sample is
never ahead of the clock. `Put` sweeps by the sample of the request that records,
which may be older than the one before it, so what it drops has expired by the
clock as well; a restart is the only other step that takes an entry away.

### What a walk binds (`BindingProofs`)

Assumptions: `PidAssumption` (pids are positive and there is a largest),
`ImageAssumption` (an image has a file, and the client is known by its file),
`HopsAssumption`. Nothing bounds how often the host changes but `MaxEvents`, any
natural.

`BindsRuntime` is about reads that are never of one instant, so its invariant has to
say what an old read is still worth. A link of the walk `Holds` in a table if its
process is alive there with the parent that was read, and is `Lost` if it never
will hold again: the process is gone, and a pid that is used anew has a later start
time; or it was adopted, and whoever has the pid of its old parent started after the
adopter did. `WalkInv` says that each link holds or is lost, whatever the host does
(`TableInv`: starts only grow, and a parent is older than its child). When the last
record has been read that table is `instant`, and `ConfirmInv` carries the
alternative to it: a link held then, or is lost now. A link that the second pass
finds as the walk had it is not lost, so it held at that instant. This is the
argument for `confirm`: it reads nothing of the past, and shows something about it.
`CurInv` says what a record half read tells of its process, for the client that is
never bound to itself.

`BindsByTheRule` is about a table that stands still. `QuietInv` says that the n-th
record of the walk is the n-th ancestor, that each one passed was the client or a
wrapper, and that a refusal had its reason. `RuntimesOf` is stated from the recursive
function `Ancestor`; that such a function exists, and is the climb, is proved by
taking a least number for which it would not be (`NatLessThanWellFounded`, `WFMin`),
so that no induction theorem with an operator parameter is needed.

### Hooks of one agent (`AdapterProofs`)

Assumptions: `NamesAssumption`, `TimesAssumption` (an assertion lives no longer than
the reaper and `Prune` wait), `BoundAssumption` of `HookAdapter`.

`Core` says what a hook holds in each phase, and that a record is of a directory
issued for its own session and agent, with that assertion's expiry and, for a
session, its definition. It is inductive by itself, since no step writes a record
from anything but what it holds. `Owned` says who owns an agent's directory:

- `Exclusive`: a directory a hook has yet to store, yield or discard is named by
  no record, held by no other hook that will store or remove it, and was taken by
  no stop. It is new when the issuer answers, and the exclusive create of the
  record (`putnew`) is the only step that gives it away;
- `Withdrawn`: a stop that has yet to remove a directory has taken its record;
- `Present`: what is about to be recorded is still there while it is unexpired.
  This is where the reaper's age matters (`TTL <= ReapAfter`);
- `Silent`, `Later`: what a stop took is named by no record again, and a hook
  delivers nothing that was taken before it began;
- `Agreed`: what an agent's commands were given is what its record names, or a
  directory whose record was dropped since;

and, to be inductive, it includes the absence of dangling records and
`NoLeakedChild`. The four properties follow.

### The start of serve (`ServeSocketProofs`)

Assumptions: `ServerAssumption`, `BoundAssumption` of `ServeSocket`. `IInv` adds to
the types what a server has done by each step (`Phase`), that a path names only a
server that linked it, at its own address (`PathInv`), and that until a call fails
a server that has linked keeps its path while it listens (`HoldsItsPath`): `Link`
needs a free path, `CleanUp` spares the socket of a server that listens, and
`RemoveSocket` runs only after a failure. `MintGoesByTheOwner` follows from
`KeysAreTheOwners` and the fact that a loaded key never changes.

### Trust roots (`TrustRootProofs`)

Assumptions: `PlanAssumption` (some roots, each a path) and `TreesAssumption` ("/" is
nobody's entry, and a directory has one entry of a name) of `TrustRoot`. The trees
are any, with any owners, modes and links, and so are the roots and the number of
changes.

What is checked once must stay true until it is used. `CheckedInv` says so of
inodes: one that is ours and not loose stays so, since only its owner changes a
mode, and a handle names the inode and not its path; every use is of such an inode,
which is `Trusted`. `PathsLead` is about names. `PathInv` says that the path to every
handle is `Firm`: its components lead, one by one and each to exactly one
directory, through inodes of ours that are closed to others or sticky. Another uid
that may write to a sticky directory can add a name there, but one that exists is
taken (`OneEntry`), and it can neither move nor remove ours; so no step but the
operator's redirects a firm path, and what is not on the path does not matter. That
the last directory is closed is not enough for this, and that each one was checked
before the next is opened is what makes it inductive.

### Publishing (`PublishProofs`)

Assumptions: `NamesAssumption`, `BoundAssumption` of `Publish`. `Contents` says that
whatever a final name may lead to after a power failure was flushed whole;
`Order`, that what a call reported done is no later than everything the disk may
still show under the name, by the order of the renames. Both are needed together:
a success survives because the directory was flushed after the rename and every
later name is whole as well.

### The settings file (`PublishProofs`)

Assumptions: those of `Publish`; `InstallAssumption` (what a registration is: its
timeout is positive, as `Validate` asks, and the event that composes is one of those
registered for) and `DocumentAssumption` (a user may leave anything the decoder can
give: nothing is inside what is absent or of another type). Documents are of any
size, with any old, duplicate or misplaced registrations among any entries, in any
number of groups.

The editors are loops that keep some elements of a list and change others in place.
In the model such a loop is `Picked(s, I)`, the elements of `s` at the positions `I`
in their order. That a set of positions has exactly one increasing listing
(`ListsAgree`, `ListExists`) is shown by a least counterexample (`UpTo`), and from it
what every proof below uses: keeping all changes nothing (`PickedAll`), only what is
kept matters (`PickedSame`), and two goes are one (`PickedTwice`).

- One event's groups: whatever was registered, `ApplyEvent` leaves one entry, as asked
  for (`ApplyOnce`); done again it changes nothing (`ApplySame`); and the removal takes
  away what it added and no more (`RemoveApply`, `RemoveTwice`).
- A document: `UnregisterKeeps` and `ApplyKeeps` say that an edit can be read again,
  has the same foreign content, and repeats without effect. `Over(x, d)` says that
  `x` is `d` under registrations; a second registration keeps it (`ApplyOver`), and
  a removal then gives back `d` (`OverPlain`). There every condition of `Plain` is
  needed: a container that was there and empty cannot be told from one that was made.
- The editors: `Edits` is the invariant. A document is what the run it is of made of
  the document it read (`Made`), and is written only if that could be read and was
  changed; its foreign content is that of its origin, which no step changes any more
  (`Originates`); and only what took the name is what a later run may read, also
  after a power failure. The last is where `Publish` is needed: the directory of the
  settings is durable, so no power failure brings back an older state than one that
  had the name.

A user's edit is not a step of `Publish`, so `HIInv` contains the invariant of the
publication, and `EditorsStep` shows it for the two steps that `HSpec` adds.

### The composed hook (`ComposeProofs`)

Assumptions: `TimesAssumption` of `Compose`. `OnTime` bounds the clock in each
phase by the sum of the limits so far: the budget and the pipe delay, then the
drain, then the own deadline. `NeverCutHolds` has the hypothesis `AllowanceCovers`
(`WaitDelay + DrainWait + OwnDeadline < Allowance`), which is the arithmetic of the
comment at `install.go:38-45`; the values of `MCCompose_hook.cfg`, the code's own,
meet it. `AnswersAsPromisedHolds` uses `AnswerInv`, what each phase has established
of the verdict: in particular that an upstream is killed only once its deadline
has passed, and that the statement's raw reply was read to its end.

### The two mints (`MintProofs`)

Assumptions: `LifetimeAssumption` of `Attestation`, `TimesAssumption` of `Mint`
(times are integers, also an `nbf` that is absent, which is 0). Nothing is assumed of configurations, callers, tokens or key
sets beyond their fields. `IInv` says at each `pc`

- `PhaseInv`, `WhoInv`: whose word the identity is. Either it is `Vouched`, the
  actor of a token that passed every check against the key set that was seen, or
  it is `Provided`, what the other providers answer in this domain; and the
  second only where the assertion is not asked;
- `GateInv`: secrets are read and a token held only by who is `Gated`, and the
  event is written if an assertion was judged;
- `ReadsInv`: once a secret of the new App was read, every later one is, unless
  some read fell into a half-done replacement; the third was the configured
  slug. With GitHub's check that key, id and installation belong together this
  leaves one App, which is why the slug is read between the id and the key;
- `AuditInv`: one event by the end of `mint-a2a`, for the caller and of the outcome.

`Passed` and `FirstThatAnswers` are about the two chains: a list of checks with no
first failure has none that fails, and an answer of a chain is that of the first
provider that does not miss. `SelectInSeq` takes a least index, which
`MinOfIndices` has from the well-foundedness of `<` on the naturals.

`RefusedInContractOrder` has an invariant of its own. `VerdictInv` says what a
verdict was given on: the first failure of the checks before the key set, and of
those with it only where there was none. `FirstOfTwo` says that the first failure of
one chain after another is that, and `SameChecks` that two chains whose checks agree
one by one have one first failure; with the hypothesis of `ContractOrder` the code's
checks and the document's agree (`RestAsContract`).

### What is only model-checked

Liveness (`StaleDirsReaped`, `Answers`): fairness and ENABLED are beyond the provers.

Every other property of a run that is expected to pass is proved.

## 5. Where the code and its documents differ

Two runs are expected to end in a violation.

- `exit`: `upstream.go:65-68` and `docs/RUNTIME-HOOKS.md:343-344` say that a
  process that exited has given its verdict, also where it exits on its
  deadline. An upstream that has exited 0 and is not yet reaped when the
  deadline passes accepts the kill; `Cmd.Wait` then returns the context's error,
  `upstreamOutcome` takes the expired case, and there is no verdict even where
  the reply was a deny. A signal death that is waited for after the deadline goes
  the same way.
- `contract`: section 4 of `docs/identity-contract.md` reports a key of the
  token's `kid` whose type does not match `alg` as `signature_invalid`, and
  `key_not_found` only where no key has the `kid`. `signingKeys`
  (`assertion_verify.go:204`) drops a key that declares another `alg` before the
  signature is tried, and the code reports `key_not_found`; the repository's
  test (`assertion_hardening_test.go:134`) expects that. The token is refused
  either way.

Other things the models show, for which no run is kept:

- `confirm` compares start time, parent and file of each link, not the
  arguments; and a record is bracketed by start time and parent, so an exec
  within one record mixes two images (`binding.go:116-119`). What was taken for
  a wrapper may have become something else in between; what is bound has not.
- An orphan is adopted by a subreaper, if one is above, and then has a parent
  above 1: `docs/RUNTIME-HOOKS.md:55` speaks of init only. The `sessions` run
  has such a host.
- `Prune` looks at a session's directory and removes it in two steps
  (`state.go:210-214`), so it may remove one that a refresh has renewed in
  between. `StoreSound` holds: no record points at nothing.
- `runServe` removes the socket path by name when the key set cannot be written
  (`serve_linux.go:72`), whoever's it is by then. `OneOwner` and
  `KeysAreTheOwners` are stated for starts in which no call fails.
- `assertion_wiring.go:12` says that the local serve issuer is always trusted. A
  server started with `--socket` and without `identity.issuer` names itself by
  that socket, while `mint` derives the name from the configured path: its
  assertions are `issuer_untrusted`. `MintGoesByTheOwner` leaves that case out.
- `identity.jwks_path` is one file of a configuration. A second server at another
  socket is not refused by the first one's path, and overwrites the key set the
  first one published; `KeysAreTheOwners` and `MintGoesByTheOwner` are stated
  until that happens.
- `setup.go:62-63` says of the roots "so a bad one stops the start before anything
  is created". The socket's directory is created, where it is missing, before the
  key set's and the definitions' directories are verified, and stays behind if one
  of them refuses.
- `ApplySettingsFile` takes no lock: an edit that someone makes between its read
  and its rename is replaced. `ForeignKept` is about the edit a document goes
  back to, and holds in every interleaving.
- A removal drops a `hooks` or `permissions` container it empties, also where the
  user had left an empty one in which a registration was then made
  (`permission_rule.go:76-78`). `RemoveRestores` is stated for documents that
  have no empty container.
- A hook that composes nothing has a runtime timeout equal to the sum of its own
  bounds, so the runtime may cut it at the same moment it gives up
  (`install.go:31-53`). `NeverCut` is stated for the composed entry, for which
  the allowance was made.
- Replacing a role's App while a mint reads its secrets can pair the old App's
  slug with the new App's id and key, in any order of the rewriting.
  `TokenOfConfiguredApp` is stated for reads that saw the four secrets of one
  App at a time; the order of the reads and GitHub's own check do the rest.

## 6. What is not modelled

- How a runtime's id is derived (`RuntimeID`), the actor chain, the origin and
  the JSON of claims in the issuer: formatting, and checked by the repository's
  conformance vectors.
- The parser of a definition's frontmatter: `Issuer` has the roles it yields and
  `TrustRoot` the file it reads. The recursive removal of a delivery directory
  (`removeAt`), which a peer may fill while it is removed, is one step that may
  fail; what is left over is the reaper's.
- Of `hooks-install`: matchers, shell quoting, symbolic links to the settings,
  `--dry-run`, and the rendering of agent definitions, which makes one text of
  another.
- Cryptography: a signature is by a key or it is not.
- The parser that decides which shell command needs an identity
  (`readonly.go`), the log and the capture file: pure functions of a payload, and
  writes nothing reads back.
- Warn mode of the hook adapter, in which nothing is enforced.
- The configuration decoder, whose values are the models' constants; the
  brokers, one read of which is one step that may fail or be answered by a value
  that was replaced; the identity client, one request and one reply.
- Issuers that an operator lists by hand for verification: `Mint` takes any set
  of trusted issuers, `ServeSocket` only the local one.
- The live test harness and the vectors: no behaviour of the program.

## 7. Plan

Done: the issuer, its binding, start, publishing and the settings, the trust
roots, the hook adapter and the composed hook, both mints with attestation; two
abstract specifications with their refinements; proofs of every safety property
and action property the runs check.

Next: an abstract specification of the hook adapter, one identity per agent between
its start and its stop, and the refinement from `AdapterProofs`.
