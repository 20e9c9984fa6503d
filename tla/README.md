# docker/go-sdk in TLA+

TLA+ models of the Docker Go SDK (`src/`), the TLC configurations that check them on small
instances, and theorems about them whose proofs TLAPS checks. Every definition follows the Go
code; what belongs to the Docker Engine, the file system or the operating system is modelled
from how the code uses it. Paths below are relative to `src/`.

## 1. The system

The SDK is a set of Go packages over the Docker Engine's HTTP API. It keeps little state of its
own; most of it is spread over the Engine, files under `~/.docker` and the handles callers hold.

| Component | Code | State | Operations | Talks to |
|---|---|---|---|---|
| Container lifecycle | `container/container.{run,start,stop,terminate}.go`, `lifecycle*.go`, `container.go`, `testing.go` | handle (`isRunning`, hooks), `Definition.image` | Run, Start, Stop, Terminate, FromID, Cleanup | Engine, image pull, wait strategies, user hooks |
| Wait strategies | `container/wait/*.go` | loop state of each strategy, deadlines | WaitUntilReady of each strategy; `Walk` over nested ones | the container through `StrategyTarget` |
| Definition and options | `container/definition.go`, `options.go`, `image_substitutors.go` | `Definition` | `With...` options, validation, substitution | network package, Engine |
| Durable startup commands | `container/durable_startup.go` | files in a directory of the container | rendering and numbering of scripts | CopyToContainer |
| Exec, logs | `container/container.exec.go`, `exec/`, `container.logs.go` | stream positions | Exec, Logs, frame demultiplexing | Engine |
| Context store | `context/store.go`, `context*.go` | `~/.docker/contexts/meta/<digest>/meta.json`; `isCurrent` in handles | New, Inspect, List, Delete | file system, config |
| Current context and host | `context/current.go`, `rootless.go`, `client/daemon.go` | none | Current, CurrentDockerHost, DaemonHost | environment, config, store |
| Config file | `config/load.go`, `config.go`, `types.go` | `config.json` | Load, Save, Dir, Filepath | file system |
| Registry credentials | `config/config.go`, `auth.go`, `credentials_helpers.go`, `auth/` | cache of a `Config` | AuthConfigForHostname, AuthConfigsForImages, clearing | credential helper programs |
| Client | `client/*.go` | options, lazily made API client | New, init, Ping health check | context package, Engine |
| Image | `image/*.go` | none (a reader for a build) | Pull and Build with retries, Save, Remove | Engine, registry credentials |
| Network, volume | `network/*.go`, `volume/*.go` | cached inspection of a network | New, Inspect, List, FindByID, Terminate | Engine |
| Legacy adapters | `legacyadapters/` | none | conversion of types | none |

How they interact. `Run` validates the definition, builds the hook list (default hooks, the
caller's hooks, then the pull hook), runs the PreCreates hooks, lets substitutors replace the
image, creates the container, connects it to further networks and starts it; the start's
PostStarts hook is the wait strategy. Every step calls back into user code or into the Engine, so
that other goroutines, other programs and the container itself may act in between. A handle is a
plain struct without a lock. The context package writes the store first and the config second,
without any lock against other processes. Wait strategies poll the Engine under nested contexts.

What is hard, and what correctness means there:

* *Partial failure of Run.* It can fail at a dozen places after the container exists. The caller
  must then get the handle with the error, or the container leaks.
* *Sharing handles.* Start, Stop and Terminate race with each other, with an exit of the container
  and with a deferred Terminate. No false error, and no running reported of a container that is not.
* *Hooks.* Container hooks go on after a failing one and errors are joined, yet "ready" must mean
  that everything before it passed; the image that is created must be the one pulled.
* *Store without locks.* File system steps of several callers interleave, and any may be cut
  short: names must not get stuck, a reported effect must hold, "not found" must be true.
* *Time.* Deadlines, per-strategy timeouts and defaults are nested; sleeps, and the reading of a
  command's output, do not watch the context; a container may write its last line and exit between
  two polls.

`PROJECT.json` lists each hazard at its line, with the property that would catch it.

## 2. Plan

Written in this order, the most important behaviour first.

| | Module | Models | Composes | Abstract spec | Theorems |
|---|---|---|---|---|---|
| A | `ContainerLifecycle` (done) | Run/Start/Stop/Terminate | hooks, Engine, handles | `OwnedContainer` | all six invariants and the refinement (done) |
| B | `ContextStore` (done) | store and config file | store + config | - | all five invariants (done) |
| C | `WaitStrategies` (done) | all strategies, MultiStrategies in each other | strategies + container | - | TypeOK, InTime, LogNotMissed (done) |
| D | `CredentialSources`, `CredentialCache` (done) | order of the sources of credentials; a Config and its cache shared by goroutines | cache + helpers | - | all five invariants (done) |
| E | `ClientHandle` (done) | the environment, rootless socket, context and options that choose the host; the health check | context + config + client | - | ReadyClient (done, in J) |
| F | `DurableStartup`, `RunOptions`, `RunRequest` (done) | options, validation, create request, files, durable scripts and their dispatcher | each on the one before | - | TypeOK, FilesInPlace, NetworksAsAsked, PortsAsAsked (done) |
| G | `ImageTransfer` (done) | Pull and Build: credentials, retries, streams, the reader of a build | D's sources + client errors | - | all four invariants (done) |
| H | `OutputStreams` (done) | Logs, Exec, copied files | container + caller | `StreamContents` | TypeOK and the refinement (done) |
| I | `WalkTree` (done) | Walk with removal while it iterates (recursive, TLC only) | C's lists | - | none |
| J | `Resources` (done) | networks and volumes, the cached inspection | E | - | TypeOK, NothingLeft (done) |
| K | ports | lowest port of Endpoint and wait strategies | - | - | minimality |

What is left: a theorem for the last invariant of F, `OrderKept` (section 6 says why it is not proved);
K; the state of the client beyond New (the cached `Info`), and the pure conversions named in
section 7. Bounds stay at two goroutines, two names or hosts, and one or two
faults.

## 3. Modules

**`OwnedContainer`**: the abstract promise of Run. A container is absent, present or gone; the one
who answers for it is nobody, Run, the caller, or (if the Engine's answer was lost) no one any
more. Once present, it is handed over whatever happens next.

**`ContainerLifecycle`**: the call each goroutine is in is a record of `call` whose field `at` is a
phase of hooks, an Engine call, or `"idle"`. One action per hook outcome, per Engine call outcome
and per return of a phase; the removal takes two steps, because the Engine answers a second
removal with "in progress". `box` is the Engine's view, `isRunning` the unsynchronised flag of the
two handles ("run" from Run, "found" from FromID), `image`/`images` the choice of the image and
what has been pulled, `volume` the one that `RemoveVolumes` names. Errors are sets of kinds, with
`IsCleanupSafe` after `container/testing.go`. `Exit` lets the container stop by itself. The ghosts
`unseen` and `behind` record a lost reply and interference, for the properties only: two calls on
one handle at once, or an exit or a lost reply since it last told the truth.

**`ContextStore`**: one action per file system operation of New, Inspect, Delete and
CurrentDockerHost: the listing of the directory, the visit of each entry, reading each file,
MkdirAll, open and write of `meta.json`, loading, truncating and writing `config.json`, unlink and
rmdir. List is the first part of Inspect and of New. `CutShort` ends a call after any of these steps
with an error: a crash, or a failing file operation. `host` says of each `meta.json` whether its
endpoint names one: New may be called without a host, and Inspect refuses such a context, which so
can be neither inspected nor deleted nor made again. The ghosts `clash`, `cut` and `bare` collect
the names of two New that overlap, of a call cut short, and of a New without a host. `handles` are
the `Context` values that callers got, with their `isCurrent` of that moment. Names stand for their
digests.

**`WaitStrategies`**: a MultiStrategy runs its strategies in turn, and any of them may be a
MultiStrategy again: `frames` is the stack of those that are being waited for, each with its place
in its list and the limit of its context, which is nested in the one outside. `w` is the state of
the strategy that waits: its place in its loop, its wake-up time, its limit (the tightest of the
deadline, the MultiStrategy's default and its own timeout), and for logs the length already seen and
the state read before. Time is discrete and passes in `Tick` while a strategy sleeps or an answer is
outstanding. `Fails` is any call that fails, and a call fails at once when its context has ended,
but for one: an ExecStrategy attaches to its command (`ExecAsk`), reads its output to the end
without a look at the context (`OutputEnds`, whenever the command likes), and only then inspects it,
with a sleep of `ExecPoll` while it is still running (`ExecInspect`). SQL and HTTP share the kind
"service", which has both ways to find the port; a TLSStrategy is a group of FileStrategies, one for
each file it is to read.

**`WalkTree`** (extends `WaitStrategies` for its trees): `Walk` as recursive functions, with the
index that stays where it is after a removal. `WalkIsRight` compares it, for the trees of the
run's plans and every assignment of verdicts to their nodes, with what the comment of `Walk`
says: which nodes are visited in which order, which are left, and what is returned.

**`StreamContents`**: what a caller may expect of a stream: it reads what was sent in order, the end
means that there is no more, and a source that breaks down is reported; one that merely stops before
its end ("stopped") may pass for either. **`OutputStreams`** implements it. The Engine's output is a
sequence of `units`, between which it may break off: the two parts of a frame's header, and each
piece of its data (`WellFramed`); a terminal sends data only. `g` is the goroutine that `Logs`
starts, which takes the frames apart and writes to an unbuffered pipe; for `Exec`, `out` and `err`
are the buffers of `Multiplexed`, and the calling goroutine polls for the end of the command.
`reader` is the caller, who may stop reading at any point, with or without closing. A connection
ends with an EOF wherever the Engine stops, inside a header or a frame too, as with a connection
that is closed or an Engine that goes down; the code takes an EOF in a log frame for the end, and
one in a frame of a command for the end or an error. The history `due` is the data that the Engine
has sent, of each stream and of both; the refinement maps what was sent to it, or, of a collection,
when the collector is done, to the data of its output and then of its errors that came in frames
sent completely. The source has "ended" only if everything was sent.

**`DurableStartup`**, **`RunOptions`**, **`RunRequest`**: the first gives the numbering of scripts
(digits are compared only where the dispatcher walks its directories in lexical order); the second
has one operator per kind of option on a definition, the validation, and the pre-create hook that
turns the definition into configs; the third runs them: one action per option, per validation step,
per network to connect, per file to copy, per hook phase of the start and per script. A file's
content comes from a reader that can be read only once, so two Runs with the same options interfere
through `spent`; a directory does not come to lie at the path it was given but under that path's
parent, by the base name it has on the host (`Lands`); `networks` are the Engine's, which
`WithNewNetwork` creates, which other users remove, and which Runs share.

**`ClientHandle`**: resolving the host takes the steps of `context.CurrentDockerHost` and of the
client's options: environment, rootless socket, reading the config, inspecting the context; the host
that the caller gave, or that of the context it gave, is overwritten by `DOCKER_HOST` afterwards. Then
the health check pings with its backoff until an Engine answers, the error is permanent or the
context ends. Another program changes `current` in between; Engines stop and come up again.
**`Resources`** extends it with networks (known by ID) and volumes (by name): New with a client that
is given or made on the spot, Inspect through the cache, FindByID and FindByName, Terminate, and
the test helpers, which ignore the errors that `IsCleanupSafe` names. Removals take two steps;
other users attach, detach and remove.

**`CredentialSources`**: the order in which `resolveAuthConfigForHostname` asks, what each source
makes of its data, and that names of Docker Hub are one registry. **`CredentialCache`**: goroutines
look up lists of images on a Config they share (a single lookup is a list of one). Making the cache
on first use, reading it, running a helper program, inserting and clearing are steps; what happens
under a mutex is one. `Change` is the user who logs in or breaks a helper.

**`ImageTransfer`**: one Pull or Build: options, the lookup step by step with the sources above
(each pull loads its own Config, so the shared cache is out of play), the request, the attempts and
the backoff between them, the Engine's stream. `op` fixes what the caller gives.

**`..._proofs`**: the theorems and what they rest on, see section 6. **`MC...`**: symmetries and the
sets that the `.cfg` files cannot write down.

In each model the operators marked "Faulty" are bugs that the code does not have, kept next to the
right version: the checks put them in its place to show that a property notices.

## 4. Runs

| Run | Instance | Shows |
|---|---|---|
| `lifecycle` | 2 goroutines, 4 calls, 1 fault, 1 extra network, hooks in three phases, fair | the six invariants below, refinement of `OwnedContainer`, and every Terminate ends with the container gone, or an error |
| `terminate_masks` | 1 goroutine, 2 calls, 2 faults | **violated**: Terminate may report success although the removal failed |
| `contexts` | 2 callers, 2 names, 4 calls, 1 cut | the store invariants below |
| `contexts_reset` | 1 caller, 2 names, 3 calls, nothing cut | **violated**: Delete may reset a current context that is another one |
| `waits` | every strategy alone, with and without timeout, in lists, and lists in lists; poll 1, Exec's poll 2, default 3, clock 10, 1 fault | overrun at most one sleep (but for a command's output), last log lines not missed, waits end; Walk is right |
| `waits_hang` | the same, without faults | **violated**: a command that goes on keeps a wait past every deadline |
| `credentials` | 2 goroutines, 3 calls, 1 change of a helper, 5 configs, 4 lists | one cache, asked once, complete or error, fresh after clearing |
| `images` | every Pull and Build over 5 configs and 7 x 7 answers of two helpers, 3 attempts, fair | permanent errors are final, everything closed, no silent anonymous pull, calls end |
| `images_token` | the same | **violated**: a token from the config is sent as a password |
| `streams` | logs with and without a terminal, Exec raw and multiplexed, a file; outputs of up to three frames over two streams, empty ones too; a connection that holds 3 units; fair | refinement of `StreamContents`, a log releases what it holds, a collecting Exec returns |
| `requests` | 2 Runs of each of the plans, lists of options that interfere; 4 new networks, 1 fault; scripts numbered in base 2 with two digits | what the container gets is what the options asked for; scripts run in order |
| `clients` | 2 goroutines, 2 calls, 1 fault; 6 environments with 3 current contexts, and a plain one with an Engine that holds something; 2 network IDs, names "app" and "app2", 1 volume | a client was answered by the right host; a removal without error leaves nothing |

Five more configurations have no run of their own. Each makes TLC show, on demand, a place where the
code does something else than a comment says (section 5):

| Configuration | Module | Property, and what the counterexample shows |
|---|---|---|
| `RunningUntold.cfg` | `MCContainerLifecycle` | `FlagTellsRunning`: IsRunning says false of a container that Run has started |
| `ContextsClash.cfg` | `MCContextStore` | `ExistingIsRefused`: two New of one name both succeed |
| `WaitsDefault.cfg` | `MCWaitStrategies` | `DefaultHolds`: a list's default timeout does not hold if it is longer than the strategies' own |
| `RequestsAddition.cfg` | `MCRunRequest` | `AdditionsKeep`: an additional endpoint modifier that comes first takes a network away |
| `ClientsHost.cfg` | `MCResources` | `HostAsGiven`: a client for a given host talks to `DOCKER_HOST` |

What the passing properties say.

* *Lifecycle*: `NoOrphan` (a container that exists is held by somebody once its Run has returned),
  `ReadyMeansStarted` (PostReadies hooks and a successful Run or Start imply a start that the Engine
  confirmed and PreStarts and PostStarts hooks that all passed, the wait included), `RunningIsTrue`
  (between calls that did not overlap, IsRunning says true only of a container that runs, if it did
  not exit by itself; the converse fails, see `RunningUntold.cfg`), `TerminateRacesSafely` (no
  spurious error whatever it races with), `CreatesWhatItPulled` (the image that the hooks settled on
  is pulled when they are done, and is the one created unless a substitutor replaces it then; a
  substitute is not pulled by anyone, `container/container.run.go:93-106`), `OwnershipKept`
  (refinement), `TerminateResolves` (liveness).
* *Store*: `NoStuckName` (at rest, a directory without a whole context is left only by a call that
  was cut short and by two New that clashed, and only under their own names; and if there was none of
  these, Inspect returns every context but those that New was called for without a host),
  `EffectStays`, `NotFoundIsTrue`, `CurrentNotDangling`.
* *Waits*: `InTime` (no wait goes on past a deadline around it or past its own timeout by more than
  a sleep; while a command's output has not ended nothing is claimed, but what comes after it is not
  late again), `LogNotMissed`, `WaitEnds` (a wait with a limit ends, unless it stays with such a
  command), `WalkIsRight`.
* *Credentials*: `AskedOnce` (one cache serves all goroutines from the first call on),
  `OwnCredentials`, `CompleteOrError`, `FreshAfterClear`.
* *Images*: `NoRetryAfterPermanent`, `AllClosed`, `NoSilentAnonymous` (a broken helper for a
  registry stops the pull), `CallEnds`.
* *Streams*: `ContentsKept` (refinement: what arrived is read once and in order, of a collected
  output the complete frames; no end before that, none for a connection that broke, and no error for
  one that was sent to its end), `LogReleased` (a log that was closed or read to its end frees its
  goroutine and connection), `ExecReturns`.
* *Requests*: `OrderKept`, of two parts: `ScriptsInOrder` (the dispatcher runs each namespace's
  scripts as they were registered, the reserved one first, as long as numbers have enough digits:
  `NumbersFit`) and `NothingForgotten` (a call waits for every strategy given since the last option
  that replaces them, and the command has every word given since the last `WithCmd`); `FilesInPlace`
  (no container is started before every file of the options is where it lands, with its own content
  unless its reader is shared or another file lands there too; each registered command as a script
  that no other one overwrote, and the dispatcher, if the caller's files keep out of their
  directory); `NetworksAsAsked` (a running container is in the networks it was to join, under their
  aliases, but for those that the first modifier of the endpoint settings touches: it works on the
  bare settings even when it is one that adds, see `RequestsAddition.cfg`); `PortsAsAsked` (bindings
  for the exposed ports and no others, each with a host port or a request for any).
* *Clients*: `ReadyClient` (a client that New returned was answered by the Engine it talks to, and
  its host is that of the first place that names one if the caller gave neither host nor context;
  otherwise it is the given one or `DOCKER_HOST`, and never a third), `NothingLeft` (a removal that
  reports no error leaves nothing: the network or volume is gone or was already gone).

**Bounds.** `MaxCalls` counts calls altogether, `MaxFaults` faults, `MaxTime` the clock; each is in
a guard. Two goroutines meet every pairwise race of a lifecycle call; with four calls a Run, two
racing calls and one more that sees the result fit. In the store, four calls give the two New and
two Delete that the known conflicts need, over two names so that a walk meets another entry. The
clock of ten is past every limit of the plans plus a poll (the longest is a default of five twice).
Two goroutines and three calls let both make the cache at once and a third lookup see the outcome.
Helpers start as working or missing; every other answer comes with a `Change`. Three attempts show
the loop of the retries; the real bound is the backoff's time, which may also be used up earlier in
the model. A connection of three units holds a header and some data, so that a frame may be cut
anywhere and the sender may be held up by a reader that stopped. Base 2 with two digits brings the
number that no longer fits (four, for a thousand) within reach. Two calls over one Engine let a
removal race with another removal, an inspection, or a New of the same name; the networks that
already exist at the start spare the calls that would make them. Deadlock is not checked because
every model comes to rest when its calls are used up, or the wait has ended.

**Fairness.** `lifecycle` assumes weak fairness of each goroutine's next step within a call: Go
schedules it, hooks and Engine calls return (with an error when their context ends). Nobody has to
make calls and the container need not exit. `waits` assumes that the waiting goroutine is scheduled
and that time passes; it does not assume that anything in the container ever happens, and a call may
take until its deadline. A command need not end its output: reading it has no fairness and is not
bound by the deadline. A NopStrategy's user function is assumed to return when its context ends.
`WaitEnds` is claimed only for plans that have a limit: an ExitStrategy without a timeout waits as
long as the container runs. `images` assumes that the calling goroutine goes on, and that the
Engine, helpers and timers answer; the caller's context need not end. `streams` assumes that the
calling goroutine and the one of `Logs` are scheduled, and that the Engine sends what it has and
then ends or breaks the connection; it does not assume that the caller reads or closes. The
connection of a log or of a command may stop early, anywhere, and look as if it had ended; a file's
archive tells its own end.

## 5. Findings

Each is named by the run, or the configuration, whose counterexample shows it.

1. `terminate_masks`: `isCleanupSafe` (`container/testing.go:53`) judges a join of errors by one
   ignorable member, so Terminate returns nil although the container is still there.
2. `RunningUntold.cfg`: `isRunning` is set after the last PostStarts hook
   (`container/container.start.go:22`), so that IsRunning denies a running container whose wait, or
   a hook after the start, failed.
3. `contexts_reset`: Delete trusts an `isCurrent` from when the handle was made
   (`context/context.delete.go:30`) and resets another current context.
4. `ContextsClash.cfg`: two concurrent New of one name both succeed (`context/store.go:164-168`),
   contrary to `context/context.add.go:14`.
5. `waits_hang`: ExecStrategy waits for its command's output without watching the context
   (`container/exec/processor.go:136`), so that no timeout or deadline ends the wait.
6. `WaitsDefault.cfg`: `WithStartupTimeoutDefault` can only shorten the sixty seconds that each
   strategy applies anyway (`container/wait/all.go:96`).
7. `images_token`: Pull knows an identity token by the user name `<token>`, which every lookup in
   the config removes (`image/options.go:72`, `config/credentials_helpers.go:98`).
8. `RequestsAddition.cfg`: an additional endpoint modifier that comes first is given the settings
   themselves and nothing is merged (`container/options.go:95-98`), contrary to lines 88-89.
9. `ClientsHost.cfg`: `DOCKER_HOST` overrides the host that the caller gave (`client/config.go:35`),
   contrary to `client/client.go:151`.

What the models follow the code in, and no run is about:

* Lifecycle: a substitutor works after the pull, so that the image it names is not pulled
  (`container/container.run.go:101`); Stop of a stopped container runs all its hooks, contrary to
  its comment (`container/container.stop.go:64`).
* Store: a crash while the config is written leaves it empty, and no context can be inspected after
  that (`config/config.go:207`); New without a host makes a context that Inspect refuses
  (`context/store.go:137-140`), and with it Delete, while its directory keeps New from making it
  again. The test for a missing config in `context/current.go:25` never holds, because the error is
  wrapped.
* Client: a host given with `FromDockerOpt(WithHost(...))` is set at `client/client.go:56-61` and
  overridden at 126-129.
* Requests: the exit code of a failing dispatcher is dropped (`container/options.go:329-333`); a
  network that `WithNewNetwork` made stays behind when a later option fails; a `File.Reader` shared
  by two Runs gives the second an empty file; script numbers of four digits sort before those of
  three; a directory is put under its own base name, whatever path it was given
  (`container/files.go:111-114`).
* Images: a retried build sends a reader that the first attempt has consumed (`image/build.go:133`);
  the archive of BuildFromDir is not closed on early errors (`image/build.go:92`); a tag set by an
  option is replaced by the empty argument (`image/build.go:106`).
* Streams: an EOF inside a log's frame passes for the end (`container/container.logs.go:70`, `95`),
  so that a cut line goes unnoticed; an abandoned log that nobody closes keeps its goroutine; a raw
  Exec whose output exceeds what the connection holds polls for ever; the connection of Exec is
  never closed; `Multiplexed` reports an error without what it had collected; CopyFromContainer does
  not close the content when the archive's first entry cannot be read.
* Networks: FindByName takes the first of the networks whose names contain the one asked for; the
  cached inspection is shared without a lock (`network/network.inspect.go:53`).

## 6. Proofs

The theorems hold for every value of the constants that meets the named assumptions: any number of
goroutines, names, hosts, hooks and networks, lists of any length, lists in lists of any depth, any
output, and any bounds. Each rests on an inductive invariant, which TLC checked on the run's
instance before it was proved: the properties themselves say what callers see, mostly at the
end of a call, and a step keeps them only if it is known what every call has done so far.

**`ContainerLifecycle_proofs`**. `TypeCorrect` first. `Progress` then says once what any step of a
call amounts to (it goes on before the creation, creates, goes on after it, or begins the removal),
so that the invariants about handles need not look at each hook and each Engine call again.

* `ContainerNeverLost` (`NoOrphan`), by `Ownership`: there is one Run at most and its handle is
  "run"; a goroutine is at a place before the creation only in Run and while the container does not
  exist, and at any later place only when it does; handles exist only after the container.
* `OwnershipImplemented` (the refinement of `OwnedContainer`), with `Answerable`: only callers that
  know the handle use it, at most one removal is under way, and a container whose creation was not
  seen is nobody's.
* `ReadyWasStarted`, by `Sound`: a call is at places of its own operation, and a start without
  errors has passed every hook that is not due, and the Engine's confirmation from there on.
* `CreatesFromPulled`, by `Pulled`: the pull is the last hook that is due, and after it the image is
  there; only then may a substitutor choose another.
* `TerminatesRaceSafely`, by `Forgivable`: the errors a Terminate has collected by itself are those
  it forgives, and none is collected where a remaining container could no longer be forgiven.
* `RunningWasTrue` (`RunningIsTrue`), by `FlagKept`: a handle that says running while the container
  is not, and whose container cannot have stopped behind its back, has a call that is about to tell
  it; two calls on one handle at once always count as behind its back.

**`ContextStore_proofs`**. `DiskInv` ties each `meta.json` to its directory. `HalfDone` names, for
whatever is half done on the disk, the caller who is still at it: at rest there is none, which gives
`CurrentIsThere` and, with `BareKnown` (a context without a host has a name that New was called with
and without one), `NoNameStuck`. `CallInv` is about one call: where a call that adds a context
stands between directory and file (`Adds`), what New has written and Delete removed by then
(`Effect`, for `EffectsStay`), and that a context that was whole all the time is among those that a
listing has found or has yet to visit (`Lists`, for `NotFoundTrue`). `AddsAlone`: two calls that add
one name know that they have clashed. Bounds are natural numbers (`ConstantsAssumption`).

**`CredentialCache_proofs`** begins, as does `ImageTransfer_proofs`, with lemmas on what each source
of credentials makes of its data. Then `CacheInv` (one cache, an entry for each
registry answered for, all of them recent unless a lookup crossed a clearing), and of each call
`Staged` (where it is), `Covered` (its answers and its list's rest cover the list), `Right` (the
answers are for their registries and recent), `KnownCached` (what was answered for before it began is
cached). They give `CacheIsUsed`, `RightRegistry`, `NoImageForgotten` and `ClearedIsGone`.
**`ImageTransfer_proofs`**: `RightSource` (which pull asks which source), `Answered` (past the lookup
only with the helper's answer) and `StreamInPlace` give `PermanentIsFinal`, `ReturnsClosed` and
`BrokenHelperStops`.

**`Resources_proofs`**, over `ClientHandle` and `Resources`: `Pinged` (nothing is made that no Engine
answered), `Resolved` (the host is right from the moment it is resolved, unless the environment is
still to overwrite it), `Held` and `Used` (a cached inspection names its network), `Alone` (two calls
never finish one removal). They give `ClientIsReady` and the action property `NothingIsLeft`.

**`WaitStrategies_proofs`**: `Stacked` (each MultiStrategy but the innermost waits for one of its
strategies), `Nested` (no context ends later than the ones around it), `Looking` and `Timed` (the
limit of the strategy that waits is within all of them, and it oversleeps by a sleep at most unless a
command is at its output; what follows that is checked against the limit again) give
`WaitsInTime` and `LogSeen`. The limit of a wait is a minimum over the stack, whose length no
constant bounds.

**`OutputStreams_proofs`**. `StreamInv` says which positions of the Engine's output each buffer
*enumerates*, in order: the history `due` (`DueRight`), what the caller of a log has read and what
waits in the pipe (`LogKept`), the collector's buffers, up to the frame it is in (`Gathered`), which
are the complete frames when it is done (`Framing`: the parser knows where its frame begins, and
drops in the end only one that is not whole, so that what is left is `WholeIn` what was taken;
`AllWhole`), and what comes straight from the connection (`Direct`); `Synchronised` keeps the parser
at its place in a frame, and `Endings` says what the end of the connection means to it. Two
enumerations of one set are one sequence, and one of an initial part is a prefix; that is the
induction of this proof, in the form of a least position at which they differ (lemmas `Least` and
`SameStart`). `ContentsImplemented` then follows step by step. It is a theorem of `Spec`: the
fairness of the run is not needed.

**`RunRequest_proofs`**. `RequestInv` is about each call and its container. `Phase`: where the call is
goes with what became of its container. `Kept`: the definition has what the options applied so far
were given (`Applied`), and the scripts among its files lie `Apart` (each is numbered below the next
one of its directory, so that no two share a path and none overwrites another), and each file has the
content it was given (`Own`). The container has
the bindings of its ports (`Published`), the networks joined so far (`Networked`, `Joined`) and the
files copied so far (`Filled`, `Copied`: what lies at a path is the content of a file of the
definition that lands there, `Left`). They give `FilesRight`, `NetworksRight` and `PortsRight`.
What a recursive function over the modifiers or the port specs computes at every index, and what it
keeps from one index to the next, is shown by the least index at which it would not (lemmas `Least`,
`Computable`, `EndpointsKeep` and `ExposedPorts`).

**Assumptions.** `OptionsAssumption`: an option is one of the package, and the lists it is given are
lists. `ConstantsAssumption`, `BoundsAssumption`, `AttemptsAssumption`: bounds, times and
the number of extra networks are natural numbers, and there is at least one attempt.
`ConfigsAssumption`, `ListsAssumption`, `NamesAssumption`: a config names helper programs by host,
the lists are of hosts and of one name that is none, and the aliases of Docker Hub are one
registry (`config/auth/registry.go`). `HostsAssumption`, `StartsAssumption`, `StoresAssumption`:
the places a host may come from hold hosts, and an Engine starts with networks and volumes.
`StrategiesAssumption`: the lists of MultiStrategies are of strategies of the set. `StreamAssumption`:
what the Engine sends is well framed, and the connection holds something. TLC evaluates each of
them on the run's instance.

**Only model-checked.** `TerminateResolves`, `WaitEnds`, `CallEnds`, `LogReleased` and `ExecReturns`
need fairness, which the prover does not reason about here; `WalkIsRight` is about a recursive operator,
which it does not accept. The two parts of `OrderKept` are left to the run: `ScriptsInOrder` rests
on the lexical order of digits (division, powers and a choice of a length), `NothingForgotten` on
lists that are selected from and flattened; both compare what a fold computes with another fold,
for every list, which is an induction over data.

## 7. Not modelled

* Contents: mounts and environment of a create request beyond how options merge, tar archives, log
  text, matching of answers, wording of errors.
* Options of Run that only pass a value on: the client, the platform, the pull handler, credentials,
  `WithAlwaysPull`, `WithDefinition`.
* The host given with `FromDockerOpt`, typed nil pointers among strategies
  (`container/wait/walk.go:55-57` would call a method on one) and among endpoint settings
  (`container/options.go:110-125`).
* Reads of a running container: mapped ports, the lowest port, inspection, its networks. They are
  single Engine calls followed by a conversion.
* The client's cached `Info` (`client/types.go:85-97`, written without a lock by whoever gets there
  first), `DaemonHost`, labels, and the methods that only call the Engine.
* In the store: contexts with malformed `meta.json` other than empty or partly written ones, TLS
  files, and what else the config holds (a Save may overwrite what another program stored).
* Data races as such: `isRunning`, the cached inspection and the reader of a file are modelled as
  atomic fields that several goroutines use.
* Archiving a directory for a build, and build options other than the tag.
* Save and remove of images, Dockerfile parsing, `ParseProxyConfig`, legacy adapters: single Engine
  calls or conversions with no state to go wrong.
