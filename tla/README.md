# Formal models of canonicalpath

This directory holds TLA+ models of the parts of this repository whose
correctness depends on interleaving, failure and limits, the TLC runs that check
them on small instances and the TLAPS proofs that hold for every size. Source
paths below are relative to the repository.

## The system

`canonicalpath` gives a path one lexical identity in every language of a
toolchain; `canonicalfs` does I/O below a pinned directory; a daemon serves
`canonicalfs` to clients in other languages; a release pipeline publishes the
npm packages.

| Component | Source | State it keeps | Operations | Hard part |
|---|---|---|---|---|
| Connection admission | `packages/go/canonicalfsrpc/connection_admission.go` | set of admitted connections, pending counter, per connection two flags and a timer | Accept, promotion on a valid bearer, expiry callback, Close | four kinds of goroutines race on one connection |
| RPC server | `packages/go/canonicalfsrpc/server.go` | `roots`, `lastUsed`, allowed roots, `closed` | open and close a project, plain and scoped file operations, idle reclaim, Close | a root is used outside the lock that protects it |
| Rooted filesystem | `packages/go/canonicalfs/{root,regular,read,write,mkdir,remove,rename,walk}.go` | the directory handle | open, read, write, stat, mkdir, remove, rename | every check races with other processes |
| Pinned directories | `packages/go/canonicalfs/archive.go` (`openPinnedDirectoryContext`, `OpenScopedRoot`) | the handle of the current component | walk to a scope anchor, creating it for writes | check-then-open per component |
| ZIP extraction | `packages/go/canonicalfs/archive.go` | path budgets, bytes written | preflight, extraction of each entry, clean-up | limits, cancellation and I/O errors at every step; not a transaction |
| Allowed-root bootstrap | `server.go` (`openAllowedRoots`, `bindAllowedRoot`) | pinned allowed roots | bind alias and resolved name to one directory | names change during start-up |
| Daemon and bootstrap commands | `packages/go/cmd/canonicalfs-daemon`, `packages/go/cmd/canonicalfs-bootstrap` | credential bundle with `connection.json` written last | create a bundle, read a token, serve | a crash leaves a bundle without its marker |
| Lexical identity, Go | `packages/go/canonicalpath` | none | normalise, compare, relative paths, URIs, scoped paths | agreement between ports |
| Lexical identity, TypeScript ports | `packages/ts/src/canonicalpath`, `packages/javascript-standalone` | none | the same functions | texts that one host writes and another reads |
| Lexical identity, other ports | `packages/{unity,c,cpp,csharp,dart,gdscript,haxe,kotlin,python,rust,swift,powershell}` | none | the same functions | agreement between ports |
| Specification and conformance scripts | `spec/testdata`, `scripts/validate-spec.mjs`, `scripts/run-*-canonicalpath-vectors.mjs` | a work directory that outlives a run | check the fixtures, put them to a port, report by exit code | tools that are missing, fail or are killed; fields a script forgets |
| TypeScript HTTP client | `packages/ts/src/canonicalfs` | one request at a time | request with timeout, size cap and pinned TLS | timeout races the answer |
| Unity gateway | `packages/ts/src/unity-gateway` | projects, path aliases, the in-memory bridge's scoped store and its count of text units | register, alias, resolve; read, write, list and glob, directly or as tool calls | budgets; a refusal half way through a call |
| Unity runtime and wrappers | `packages/unity`, `packages/bash-wrapper`, `packages/powershell`, `packages/windows-cmd-batch-wrapper` | client settings | the client calls | as the TypeScript client |
| Release pipeline | `scripts/*release*.mjs`, `.github/workflows/{prepare-npm-release,publish-npm}.yml` | draft and published releases, npm registry | prepare, publish, retry | a publication stops half way; releases overtake one another |

How they interact: the daemon command wires a `BoundedListener` under TLS and
`http.Server`, whose handler promotes the connection and then calls the RPC
server; the server resolves a project to a `canonicalfs.Root` (opened below an
allowed root bound at start-up) and, for scoped operations, narrows it through
the lexical scope rules and a pinned anchor. Clients reach the daemon over HTTPS.
The gateway uses the TypeScript lexical functions for every root, alias and
scoped path. The conformance scripts run every port against fixtures that
`validate-spec.mjs` has checked by rules of its own.

## What makes each component correct

- **Connection admission**: the counter of unproven connections is exact; at
  most `MaxConnections + 1` sockets are open (one may be waiting for its
  rejection); a slot is given back only after its socket is closed; a
  connection is promoted or expires, never both; no timer outlives the slot;
  silent clients lose their slot in the end.
- **RPC server**: `roots` and `lastUsed` have one key set; the quota holds; each
  `Root` handle is closed, once, by its owner; a lease lasts as long as
  promised; a registration is refused only when the quota is really in use.
- **Rooted filesystem and pinned directories**: what a scoped operation enters,
  reads, writes or describes really had the name it was asked for, whatever
  other processes do between the system calls; nothing is truncated before it
  was checked.
- **Release pipeline**: only originals of a published release reach npm; an old
  release never moves `latest` back; a retry completes a release that stopped
  half way; two releases of one version are never mixed.
- **ZIP extraction**: nothing is created before the preflight accepted the whole
  archive; the budgets bound what is written; a call that ends holds nothing
  open and leaves no incomplete file; what was there before, and what another
  extraction made, is left alone.
- **MkdirAll**: callers do not fail because of each other or of what a failed call
  left; a success means that the path was made.
- **Allowed-root bootstrap**: a directory becomes an authority only if its
  configured and its resolved name both led to it; a server starts with its whole
  configuration or not at all; no handle is forgotten.
- **Bootstrap command**: a bundle with its marker is complete, durable and of one
  launch.
- **HTTP client**: an answer is given only for a whole body in time; a request
  settles and lets go of its connection whatever the daemon does.
- **Lexical identity**: what comes out is canonical by the specification's own
  rules; an identity is read back, sent to a host and back, and taken apart and
  joined again without changing; nothing joined leaves the root; a made name is
  one component.
- **Unity gateway**: registered aliases denote the project's root; the account of
  stored text is exact; a query returns the right page; a refused call changes
  nothing.
- **Conformance scripts**: the exit code means what a reader takes it for, and
  the port is asked what the fixture says.

## Modules

| Module | Models | Lines it stands for |
|---|---|---|
| `AdmissionPool` | abstract: a bounded pool, no locks, timers or close calls | none |
| `ConnectionAdmission` | `BoundedListener`, `admittedConnection`, the promotion in `Server.Handler` | `connection_admission.go`, `server.go` |
| `ProjectRegistry` | registration, replacement, close, idle reclaim, shutdown; handles borrowed by plain and scoped operations | `server.go` |
| `PinnedFile` | the walk to a scope anchor and one operation on a leaf, system call by system call | `archive.go`, `regular.go`, `read.go`, `write.go`, `mkdir.go`, `remove.go`, `walk.go` |
| `MkdirAll` | several callers of `Root.MkdirAll` below one root | `mkdir.go` |
| `RootBinding` | how a server binds its allowed roots when it starts | `server.go` |
| `BootstrapBundle` | launches of `canonicalfs-bootstrap` that aim at the same directories | `main.go`, `files.go` |
| `PackageRegistry` | abstract: contents never change, `latest` only moves forward | none |
| `NpmRelease` | draft, publication, queueing, verification, preflight, publication row by row, faults | the release scripts and workflows |
| `PathText` | texts as sequences of symbols, and the string functions of JavaScript on them | `internal.ts`, `uri.ts` |
| `LexicalPath` | normalize, relative, join, normalizeRelative, the host serializers | `packages/ts/src/canonicalpath`, `canonicalfs/validate.ts` |
| `ComponentName` | sanitizeComponent, encodeGitRef | `sanitize.ts` |
| `StandalonePath` | the functions of the standalone distribution | `javascript-standalone/src/canonicalpath.ts` |
| `PathSpec` | the rules the fixtures are checked with | `validate-spec.mjs` |
| `PathIdentity` | the life of one identity, and the properties of the five modules above | `types.ts` and the modules above |
| `ScopedPath` | scoped paths and globs, generated file names | `path-service.ts` |
| `Gateway` | broker, in-memory bridge, tool registry | `broker.ts`, `fake-bridge.ts`, `mcp-tools.ts` |
| `HttpRequest` | one request of the HTTP client over the pinned fetch | `http.ts`, `tls.ts` |
| `ZipExtract` | several extractions into one destination, system call by system call | `archive.go` |
| `HarnessPorts` | what each conformance script asks, accepts and runs | the eleven `run-*-canonicalpath-vectors.mjs`, `contract_test.c`, `contract_test.cpp` |
| `VectorHarness` | one such script, from its probe to its exit | the same, `rust-toolchain.mjs` |
| `MC*` | the small instances for TLC | none |
| `*Proofs` | the theorems | none |

`PROJECT.json` maps every definition to its lines.

### ConnectionAdmission

Per connection: the raw socket (`sock`), membership in `listener.active`, the two
flags of `admittedConnection`, its timer and callback goroutine, the request its
HTTP goroutine is handling, and how far its `closeOnce` has come. `pending` is
the listener's counter. Actions are critical sections of `listener.mu` and the
calls between them:

- `AcceptRaw`, `Admit`, `Reject`, `CloseRejected`, `AcceptFails`: the accept loop;
- `DeadlinePasses`, `TimerFires`, `Expire`, `ExpireReturns`: time and the callback;
- `ReadRequest`, the `Authenticate...` actions, `BeforeDeadline` and `Promote`,
  `Deny`, `Respond`, `LateCloseReturns`: the HTTP goroutine; `authenticateConnection` is one
  critical section, split where it reads the clock because the deadline may pass
  while it holds the lock (`Locked`);
- `BeginClose`, `ReleaseSlot`: the two halves of `Close`, entered once, by whoever
  comes first.

HTTP/1.1 serves one request at a time on a connection, so one `request` per
connection is enough. Deadlines are one flag per connection: only whether the
deadline has passed is ever looked at.

### ProjectRegistry

`roots` and `leased` (the key set of `lastUsed`) are the two maps, `idle` the
time since `lastUsed`, `open` the handles open in the process. Each handler is
a small program counter: `OpenProject` is one critical section (three
outcomes); `TakeRoot` and `CloseTaken` are the two halves of
`handleCloseProject`; `LookUp` is `Server.root`, after which the handler works
without the lock (`PlainOperation`, `PinScope`, `PinFails`,
`ScopedOperation`). Every critical section except `CloseServer` first reclaims
idle leases (`LiveRoots`, `LiveLeases`, `LiveOpen`). Handle identities are
reused once nothing refers to them, so a handle left open is never forgotten.
What a file operation does with its handle is `PinnedFile`'s subject; here it
succeeds or fails, and succeeds only on an open handle.

### PinnedFile

`entry` is the file system below the project root; the rest is one operation:
which one, the next system call, the directory handle of the walk, what `Lstat`
returned and what was opened. `Interfere` is any other process: it may place,
remove, rename or link any entry between any two calls. `was` is a history
variable, the real objects seen at the current name since the directory was
entered, and never guards a step. Resolution follows what `os.Root` does: a
link inside the root is followed, one that leads out of it makes the call fail.

Abstractions: links lead to a sibling in one hop (a longer in-root path reaches
no other kind of object); the suffix below the anchor is one name, so linked
directories between anchor and leaf, which the code allows inside the root, are
part of "the pinned directory"; identities are not reused while an operation
holds a handle, which the kernel guarantees; a cancelled context is `Fail`;
after the last call of an operation the others wait, for nothing they do can
matter to it any more.

The model also shows a limit of the code that no property forbids and no
document denies. A scoped write opens with `O_CREATE`, and with `O_EXCL` only
when `Lstat` found the name free. If a leaf that `Lstat` saw disappears before
the open, the open creates an empty file, the identity check fails with
`ERR_RACE_DETECTED`, and the empty file stays.

### MkdirAll

`PinnedFile` makes one name; this module makes a path. `kind` is what is at each
path that matters, a link counting as what `Stat` says of its target. A caller has
the path it makes (`goal`, as the sequence of its prefixes), how far it is
(`depth`) and its next call: `MakeName` and `NameExists` are the outcomes of
`Mkdir`, `AcceptDirectoryThere` the `Stat` after `ErrExist`, `FailMkdirAll` an
error of either that the tree explains, `SystemRefuses` one that it does not. `Put`
and `Remove` are any other process, which may also make the very directories that
are being made. `disturbed` and `hasBeen` are history variables: whether the
caller has met with anything but further directories, and what has been a
directory since it started. The path `.` returns without a call and is not a goal.

### RootBinding

One start of a server. `leads` says where each name leads at the moment, all links
on its way included, and `Move` changes that between any two calls. `OpenAlias`,
`Identify`, `ResolveAlias`, then for either name `OpenCandidate` and
`AcceptCandidate`, then `KeepRoot`, are the calls of `openAllowedRoots` and
`bindAllowedRoot` in their order; `open` holds the handle of each turn that may be
kept and the one it is compared with. `EvalSymlinks` reads link after link while
they change, so `ResolveAlias` may return any name. `RefuseToStart` is every error,
with the deferred closes of both functions. `wasAt` is a history variable: where
each name has led since the resolution. A name that `cleanHostRootAlias` refuses
is `Invalid`. Identities are not reused while a handle is open.

### BootstrapBundle

Each launch makes its output directory (`MakeOutDir`), pins it (`ExamineOutDir`,
`OpenOutDir`) and then creates, writes and syncs one file after the other in
`Order`, the marker `connection.json` last. A directory has the name of the launch
that made it. `StopLaunch` is a failed call or a kill; nothing is rolled back.
`MoveAway` is the operator who moves a directory, so that another launch may make
the path anew, also between the calls of the first one. `LosePower` stops every
launch and loses or cuts short files that were not synced. That a synced file is
durable together with its name is an assumption about the file system: the code
syncs files and not the directory. Nobody but launches writes to these
directories, which are private to the user.

### NpmRelease

A release is a tag with a kind and a version. `phase` is its life on GitHub,
`contents` and `latest` are what npm says, and each run of `publish-npm.yml` has
a step, a tag, the rows still to look up (`todo`) and the rows of `pending.tsv`
(`plan`). `Trigger` and `Begin` are the concurrency group: one run at a time, one
waiting, a newer one cancels the one that waits. `Verify` is
`verify-npm-release.mjs`, `Preflight` one row of `planPublication`, `Publish` one
`npm publish`, `PublishUnnoticed` one that npm accepts and the run does not
learn of, `Fault` anything else that ends a run.

Assumptions: lookups see npm's current state; nobody publishes outside the
workflow; two releases never have the same bytes; the digest, attestation and
producer checks together decide whether the release is public and complete.

### PathText, LexicalPath, ComponentName, StandalonePath, PathSpec, PathIdentity

A text is a sequence of symbols: the characters the code tests for, percent
escapes, and words it never looks into. Functions return `Ok(value)` or
`Err(code)` with the checks in the code's order. `StandalonePath`
says, function by function, that the standalone distribution computes the same:
its file holds the same statements in one place (only its SHA-256 is its own, and
a digest is abstract here). `PathSpec` translates
`validate-spec.mjs`, which was written independently of the ports, and is what
they are judged by.

`PathIdentity` keeps one identity. `Type` and `NormalizeRaw` make it out of a
text; `Descend`, `DescendChecked`, `DescendNamed` and `DescendGitRef` extend it;
`Rebuild` takes it apart with `relative` and joins it again; `Reload` lets the
other distribution read it; `ViaWin32`, `ViaPOSIX` and `ViaWSL` send it to a
host and read it back.

What the model shows of the code, without a document that denies it:
`normalizeRelative("./C:foo")` returns `C:foo` without its marker, which `join`
then refuses.

### ScopedPath and Gateway

`projects` is the broker's map, `files` and `units` the bridge's store and its
running count, `answer` what the last call returned. JavaScript runs a call to
its end, so a call is one step: each action is one method, reached directly or
through the tool registry (`Vias`), which checks arguments and turns exceptions
into answers. The collator's order of paths is a constant, `Rank`; the collator
may hold two paths for equal, and then a query returns them in either order
(`Sorted`), for the model does not keep the order of storing. How often a sort
compares two paths is the engine's affair; the budget is charged the least or
more than the most (`SortWork`). The glob automaton
is a set of states per character: `GlobStart` before the first one, `GlobStep`
after each (`Entered` is the transition table, `Passed` its empty moves). What
the host of a project calls itself is one of `HostKinds`, of which the broker
reads three as native.

The property `PathsExact` judges generated names for positive limits only, as
the vectors do that `validate-spec.mjs` checks (lines 385-386): for a limit below 1
`makeSafeFileName` refuses the limit before it looks at the name, so a name
with NUL gets another error than a vector with NUL expects.

### HttpRequest

A step is one macrotask with the microtasks it leads to. `task` is the promise
that races the timer, `signal` the abort signal, `socket`, `decoder` and `body`
the chain a response comes through, `sent` and `size` the bytes sent and read.
`Finish` is the end of the race: it settles the answer if the timer has not, and
clears the timer. Late responses, declared and actual excess, compressed bodies
that do not decode, a connection that breaks and an abort that takes effect
later are actions of their own.

### ZipExtract

Each extraction has a program counter over `ExtractZipWithLimits`,
`openPinnedDirectoryContext` and `extractZipFile`, one system call a step with
the check of the context before it. At every step the context may be done or the
call may fail; the code treats both alike, and so does the model. `fs` records
who made what, and how many bytes; a removal that fails is kept in `stuck`,
because the code cannot repair it. Directories replaced under the walk are
`PinnedFile`'s subject.

### HarnessPorts and VectorHarness

`HarnessPorts` has four definitions per port: what is asked of it for a case
(`...Asks`), which answer passes (`...Passes`), the contract laws its program
checks besides the fixtures (`...Laws`), and the script (`...Harness`: may it be
skipped, does its directory outlive it, does it go on after a failure, which
fixture files it loads, its programs). `VectorHarness` runs one script: `Probe`,
`Prepare`, `Compile`, `Ask`, `Finish`, `PrepareFails` for an exception while the
fixtures are read or the directory is written, and `ToolFails` for a compiler or
program that does not start, dies or is killed. The Rust script alone refuses
fixtures without a case. What the port answers and which law it
breaks is open. Of the eleven options four stand for all: a text without a
default, a flag, a text with a default, and a flag that is on by default.

Left out: a script error that makes Godot abort a script without its own exit
code, and two runs of one script at once, which would share a directory.

## Runs

| Run | Question | Instance | States |
|---|---|---|---|
| `admission` | do the books of the pool hold and does it implement `AdmissionPool` | 3 sockets, 2 places, 1 unproven place | 582,696 |
| `admission_live` | do slots come back from silent clients and refused connections | 2 sockets, 2 places, 1 unproven place | 34,172 |
| `registry` | quota, ownership of handles, leases | 3 handlers, 3 projects, quota 2, timeout 2, 4 handles | 44,927 |
| `registry_live` | is every unregistered handle closed | 2 handlers, 2 projects, quota 1, timeout 1, 4 handles | 28,168 |
| `file_operations` | do file operations mean what they do while others change the files: `PinnedFile`, `MkdirAll`, `RootBinding`, `BootstrapBundle` | see below | 979,759 |
| `npm_release` | originals only, no mixture, `latest` moves forward, do retries complete a release | 3 packages, 3 releases, 2 runs, 2 faults | 71,782 |
| `identity` | is every identity canonical, does it stay below its root and survive every trip | 16 starts, up to 3 of 8 names, 9 option records, 7 operands | 242,707 |
| `identity_default` | is normalization with default options idempotent (it is not) | the same, default options | ends at the violation |
| `gateway` | aliases, accounts, pages, paths, refusals | 2 projects, 7 registrations, 4 aliases, 2 stored entries, 12 units | 433,187 |
| `http` | is an answer honest, does a request settle and release | limit of 2 bytes, at most 4 sent | 304 |
| `zip` | clean ends, budgets, nothing of others touched | 2 extractions, 8 archives, 4 file systems | 62,172 |
| `harness` | is the exit code right, is the fixture asked | 11 scripts, 14 cases, 6 answers | 9,258 |

Why these bounds are enough to see the interesting cases:

- `admission`: with three sockets over two places, one of them for an unproven
  connection, both limits refuse, the third socket waits while a slot is being
  given back, and all four kinds of goroutine meet on one connection. The
  liveness run needs two sockets to have a full pool.
- `registry`: three projects over a quota of two fill it; three handlers allow a
  replacement, a close and a use of one project at once. Four handles are two
  registered ones and two in the hands of handlers; when none is free, actions
  that need a new handle wait. Idle time counts to `IdleTimeout` and no further,
  for nothing distinguishes older leases.
- `file_operations`: the four modules share no state, so the run explores one after
  the other (`subject` in `MCFileOperations`) and the bounds are those of each.
  `PinnedFile`: an anchor of one component, two directories that may stand in
  for it, two files, a special file, links, two names; in the root, where no leaf
  is operated on, the special file stands for all that is no directory. One component shows the
  check-then-open race, which is the same for every later component (the proof
  covers every length). Only the root may hold directories, so the examined
  directory can be exchanged for one other.
  `MkdirAll`: two callers make `a/b`, `a/b/c` and `a/d`, which share their first name,
  two of them the second, and a caller may start again after every end, so calls
  meet on every name and on what earlier ones left.
  `RootBinding`: two names and two directories, so a link and its target can be
  exchanged; the configurations repeat a name, have two, have one that is refused
  after one that was bound, and none.
  `BootstrapBundle`: two launches and one output path: one made the directory, the
  other finds itself in it, or makes the path anew under the first.
- `npm_release`: an old and a new full release show overtaking, the Unity release
  of the new version shows two releases of one package version. Two runs are all
  the concurrency group lets exist. Two faults stop a release and its retry;
  `MaxFaults` is the only bound the code does not have.

- `identity`: the starts are every root the code tells apart (POSIX, drive, UNC,
  extended, file URIs of both schemes, mounts, relative, with and without outer
  space), the names every component it treats specially. Identities of up to five
  symbols are descended further; longer ones are still rebuilt, reloaded and
  sent. Slugs are cut at 3 symbols (80 in the code), so the cut happens.
- `gateway`: a store of two entries and twelve units is filled by three writes, so
  both caps refuse and a replacement gives units back; file names are limited to
  0 (refused), 2 or 12 symbols, so the cut and the device rule meet; a query's work
  limit of 40 is reached by a glob over a full store.
- `http`: two bytes are the least limit with a first and a last chunk, and up to
  four bytes exceed it within one chunk and over several.
- `zip`: the archives lie about sizes, name a file twice, use a file as a
  directory, end badly, or declare a refused entry; both extractions share every
  directory. Totals of 2 make an entry fail on the total and on its own limit.
- `harness`: one case of each operation and each kind of expectation, with and
  without each option; answers are right, wrong, empty, and two errors.

`CHECK_DEADLOCK FALSE` is used where the system really stops: a listener that has
failed with every connection closed, an identity that was refused, a request that
has settled, extractions, scripts and starts that have ended, launches of which none
is left.

### What a run found

`identity_default` is expected to fail. `normalize("/../c:/c")` returns `/c:/c`,
and `normalize("/c:/c")` returns `c:/c`: dot segments are resolved after the text
was found to be no URI drive path. `packages/ts/test/idempotence.test.ts` says
that idempotence with default options holds for arbitrary text (line 34) and
asserts it on random text (line 44), which does not reach this shape. The
contract promises it for native and canonical options only, and there
`ReloadExact` shows it to hold.

## Fairness

- Admission: the goroutine of a request, the callback of a timer and a `Close`
  in progress run on, and a deadline passes; clients need send nothing and a
  handler may serve for ever. That is what the Go scheduler and `time.AfterFunc`
  promise.
- Registry: a handler that has started finishes, because the file calls it makes
  return. No request need arrive and time need not pass.
- Pipeline: GitHub starts a run that waits for nothing and keeps it going.
  Faults are finitely many. `RetriesComplete` assumes no retry: it speaks of
  behaviours in which the release is run again and again.

- HTTP client: the event loop delivers what is due: the timer, reads of bytes that
  are there, close events and abort signals. The daemon owes nothing.

## Proofs

TLAPS proves, for every value of the constants that satisfies the named
assumptions (`LimitsAssumption` is `ConnectionLimits.Validate`, the others say
that constants have their types and sets of limits are finite):

| Module | Inductive invariant | Theorems |
|---|---|---|
| `ConnectionProofs` | of `ConnectionAdmission`, `IInv`: `Shape` (types without the counter), `Consistent` (a slot outlives its socket, every expiry is decided, a fresh connection is outside), `Counted` (the counter is the cardinality, the limits hold) | `TypeCorrect`, `SlotsAreAccountedFor`, `OpenSocketsAreBounded`, `SlotsOutliveSockets`, `BearerAndDeadlineHaveOneWinner`, `AdmissionImplementsPool` |
| `ConnectionProofs` | of `HttpRequest`, `RequestIInv`: `RequestTypeOK`, the answer is open exactly as long as the timer is armed (`OneSettles`), a running task has read no more than fits (`ReadFits`), what an answer rests on is fixed once it is given (`ValueFixed`, `TooLargeFixed`) | `RequestInvariance`, `RequestTypeCorrect`, `HonestAnswers` |
| `ProjectRegistryProofs` | `Core`: `TypeOK`, `RegistryConsistent`, `Owned` (who may close a handle), `NoneLeaked` | `RegistryTypeCorrect`, `RegistryStaysSound`, `HandlesDoNotLeak`, `HandlesHaveOneCloser`, `LeasesAreHonoured`, `RefusalsAreJustified` |
| `FileProofs` | of `PinnedFile`, `Inv`: `TypeOK` and, for each program counter, where the walk stands (`Position`), that what is there now is in `was` (`Seen`), that what `Lstat` returned is (`Examined`), and what the open returned (`Opened`) | `PinnedTypeCorrect`, `LeavesWereReal`, `AnchorsWereReal` |
| `FileProofs` | of `MkdirAll`, `MkdirInv`: `MkdirTypeOK`; the names above the current one are directories unless the caller was disturbed and have been directories in any case (`OnCourse`), and what an end has shown (`Settled`) | `MkdirTypeCorrect`, `MkdirAnswersAreRight` |
| `FileProofs` | of `RootBinding`, `BindInv`: `BindTypeOK`, the handle in hand is a directory's (`RootInHand`), the open handles of every step (`HandlesByStage`), which names were seen to lead to it (`Witnessed`), and that exactly the names before `turn` are bound (`BoundSoFar`) | `BindTypeCorrect`, `StartsAreWhole`, `AuthoritiesWereNamed` |
| `FileProofs` | of `BootstrapBundle`, `BundleInv`: `BundleTypeOK`, an existing file has before it only synced files of its own launch (`InOrder`), and what each launch has made so far (`OwnFiles`) | `BundleTypeCorrect`, `BundlesStayWhole`, `FilesAreNotTakenOver` |
| `NpmReleaseProofs` | `Inv`: `TypeOK`, at most one active run (`Serial`), active past verification means public (`Verified`), `RowsInUse`, `PlanStillHolds`, and what a preflight has established so far (`Rest`) | `ReleaseTypeCorrect`, `ContentsAreOriginal`, `PlansStayValid`, `RestOfReleaseIsOriginal`, `PipelineImplementsRegistry` |
| `VectorHarnessProofs` | `IInv`: `TypeOK`, while a script runs no tool has failed and a difference is known exactly by the flag that collects it (`InProgress`), a later program starts after all cases (`CasesPassed`) and laws (`LawsPassed`) of the earlier ones | `TypeCorrect`, `VerdictsAreRight`, `QuestionsAreTheFixtures` |
| `ZipExtractProofs` | `IInv`: `Types`, and for every extraction `Own`: the handles of each step (`Control`), how far the walk has come (`Walked`), what every file holds (`FilesRight`, `Writes`), what is finished (`Present`), that only counted names were made (`MakesNamed`), and that the total is the sum of the finished files (`TotalIsSum`) | `TypeCorrect`, `ExtractionsEndClean`, `BudgetsAreKept`, `OthersStayUntouched` |
| `PathIdentityProofs` | `Sound`: the typed text is a text, and the identity in hand is the first one with real names of the same root appended (`Below`), that first one being one of the six kinds of root with its names (`Whole`), as `normalize` makes it (`NormalizeGives`); and `VectorsHold`: what the last text or git ref became is what the script accepts for it | `Soundness`, `DescendingStaysBelowRoot`, `RebuildingIsExact`, `ReloadingIsExact`, `HostTripsAreExact`, `AcceptedByTheScript`, `NamesAreOneComponent` |
| `GatewayProofs` | `KeptOk`: every record of the broker is `Bound` (its root is anchored and canonical, its aliases have distinct clients and read as that root) and `HostKnown` (its host root is that of one of its aliases), and the store is `StoreOk` (keys are registered, normalized and in scope, the units are the sum of the charges, the caps hold) | `GatewayKeeps`, `AliasesAreSound`, `StoreIsExact`, `RefusalsChangeNothing`, `PathsAreExact`, `QueriesAreExact`, `GlobAcceptsItsLanguage` |

`SlotHeldWhileOpen` (theorem `SlotsOutliveSockets`) and `PlanStillHolds`
(`PlansStayValid`) are proved and not run on their own: `SocketsBounded` and
`ImplementsRegistry` fail in the runs when they do. So is `NoFileIsTakenOver`
(`FilesAreNotTakenOver`): a launch that truncated another's file would break
`BundlesAreWhole`. Six of the properties in the runs are conjunctions of parts that are
stated and proved one by one, in theorems of their own beside the one the
table names: `SlotsAccountedFor`, `RegistrySound`, `LeafWasReal`, `AnswersAreRight`,
`StartIsWhole` and `BundlesAreWhole`.

`VerdictsAreRight` rests on a lemma that the eleven comparisons, each worded in its
own way, accept the same answers for every case that `validate-spec.mjs` lets
into a fixture (`CasesAssumption`).  `QuestionsAreTheFixtures` rests on the same
assumption, which for it says what a case of a fixture has: its six fields, its
inputs among the names in `caseKeys`, and UTF-16 units only in the two files and
with the operation that `validate-spec.mjs` allows them with.

`ZipExtractProofs` shows action by action that an extraction keeps its own `Own`,
and that a step of another one keeps it too, because that step `Touches` only
places that are empty or hold the other's unfinished file and leaves everything
else `Alone`. So the number of extractions is never used, and neither is
anything about an archive but what the preflight has checked. The limits are
natural numbers because `ZipLimits` refuses negative ones. The budgets need
counting: the preflight adds up the names of all entries, while two entries, or
two extractions, may share a directory, so the places that were made are at most
what was added up (`PlacesBound`); the bytes on disk are the sum of the finished
files, which is `total`, and of the one that is being written
(`BytesWithinTotal`). The sum is a recursive function over the subsets of a set.
No theorem of the library can be instantiated for it, since these take an
operator; instead a smallest subset for which a claim fails is taken
(`Smallest`, from the well-foundedness of strict inclusion on finite sets) and
refuted, each claim by itself.

`PathIdentityProofs` is about functions on texts of any length. Its only
assumption (`IdentityAssumption`) is that texts are sequences of symbols, that
option records have their fields, and two facts about git refs. Every symbol of a
ref is one that the model puts inside or outside `[A-Za-z0-9._-]`: the encoder
names what it replaces (`Illegible`) and the script what it keeps (`Legible`), in
the code two forms of one regular expression, which the model lists from either
side. And no digest is a path separator or NUL, a digest being hexadecimal. An
identity is a root and a sequence of real
names, a normal form with one text (`Whole`). The lemmas say of every function
what it does to the normal form. `normalize` returns nothing else, whatever the
text, host mode, profile and mount (`NormalizeGives`). `join` appends real names
of the same kind or fails (`JoinGives`). And each way of writing an identity is
read back as the same root and names: canonical and native POSIX text
(`ReadAgain`), drive, UNC and extended Windows text (`ReadFromWindows`) and a path
below a WSL mount (`ReadFromWSL`). The properties follow for single steps
from `Sound`. Splitting, cleaning and joining are recursive functions over a
sequence, about which the library has no theorem that can be instantiated here;
each is unfolded at its last or first element from the existence of a recursive
function on `0 .. n` (`RecursionExists`), and each claim about all texts is
proved by refuting the least length at which it fails (`LeastNatural`). The lemmas
`SplitOfConcat`, `ReadsJoined` and `WholeDenotes` carry the rest: what was joined
with `/` splits into the same names again, cleaning leaves them alone, and the
root in front of them is found again.

`AcceptedByTheScript` compares this with the rules of `validate-spec.mjs`, which
are written another way: a root is tried pattern by pattern (`RootOf`), `..` is
judged by a running depth, a slug is cut with expressions of its own. So a second set of
lemmas says what these definitions find in a `Whole`: the same root
(`SpecRoot`), names that need no cleaning (`WholeIsAccepted`), a depth that never
falls below zero when `join` accepts the operand (`JoinVectorHolds`), and
the slug that the encoder makes (`GitRefVectorHolds`). `VectorsHold` is the part
of the property about the last operation; it needs an invariant of its own because
it relates the identity to the text it was made from, which `Sound` forgets.
`NamesAreOneComponent` rests on the class `Plain` of symbols that a made name may
hold: replacing, trimming and escaping leave only these (`SanitizedName`,
`GitRefName`), a nonempty sequence of them is one real name to `join`
(`PlainAppended`) and what `relative` gives back (`PlainIsBelow`), and, when it is
no device, a name that the component policies allow (`GuardedExtends`).

`GatewayProofs` builds on these lemmas. Its assumption (`GatewayAssumption`) gives
the constants the types that `types.ts` gives the arguments, says that the symbol
`**`, which stands for two characters, is in no glob, and lets the limits be any
integers and the caps any natural numbers. `KeptOk` is more than the properties say:
that a stored path lies in the folder of its scope needs every key to have passed
`normalizeScopedPath` at some call before, that a handed-out host root denotes the project
needs `HostKnown`, since the record keeps that root twice, and that a validated Unity
path comes back needs the root to be a normal form (`Whole`), which
canonical text alone is not known to be. A registration folds over its aliases and the
constructor over its seeds; both are recursive functions, and `UpTo` carries a
claim from one element to the next. What an answer says is proved of the answer
itself, not of the state before it: `PathFacts` for the path tools (six of them, one
lemma each), `QueryFacts` for read, list and glob; every other tool gives neither.

The heart of `QueriesAreExact` is `GlobAcceptsItsLanguage`. The automaton first
scans the glob into tokens, where a second star is swallowed and a run of pairs
becomes one, and then reads the text from the left. The language is defined on the
characters of the glob, from the right. The invariant relates them where the
glob is cut: some position of the text is both reached by the tokens of the
left part (`Reached`) and a place where the right part may start (`Rests`); and
this is so at one cut exactly when it is so at the next (`Meet`, `AllMeet`).
At the end of the glob it is acceptance, at its start the language. A cut inside a
pair of stars has no rest of its own, and is passed over (`SkipMeans`). That
a run of pairs may be one token is the step in which a star is read after a star
(`StarredReads`). Listing under a prefix compares text (`isUnderPrefix`), the
property compares names; `UnderMeans` says that the slash makes these the same.

The attempt to prove `PathsExact` for every limit failed and showed the
restriction to positive ones, described above, which no limit of the earlier
instance could reach.

`MarkersMeanComplete` rests on `InOrder`, which is about every file and not only
the marker: in whatever directory, a launch that creates a file has synced all the
files before it there, so of two launches in one directory the second meets a file
of the first at the first name it tries, and `O_EXCL` stops it. A power
failure keeps `InOrder` because only a file that nothing follows is not synced
(`SyncedSurvive`). `AuthoritiesWereNamed` needs `Witnessed` to carry what one
comparison has seen to the next, while the name it was seen under may have moved.
`MkdirFailsOnlyWithReason` needs `OnCourse`: that the parent of the next name is
still a directory follows from nobody having removed one, not from the code having
made it.

Why the strengthenings are needed: that the counter is never negative follows
only from its being a cardinality; that `SoleCloser` survives a registration
needs to know that a fresh handle is in nobody's hands; that the opened file
really had its name needs the moment of the `Lstat` remembered until the
comparison; that a plan is still valid needs that no other run is active.

The refinements use the invariant on both sides of a step: `AdmissionPool`'s
stage of a connection is a function of its flags and its membership in `active`;
`PackageRegistry` is two of `NpmRelease`'s variables, and only `Publish` and
`PublishUnnoticed` change them.

Only model-checked: the liveness properties (`PendingSettles`, `RefusedLeaves`,
`HandlesReturned`, `RetriesComplete`, `SettlesAndReleases`), because the prover
handles neither fairness nor ENABLED. Every invariant and every action property
of the passing runs is proved.

## What is not modelled, and why

Policy tables, request decoding, base64, TLS, key generation and HTTP framing
are data or library work without interleavings of their own; where a modelled
action depends on them, it may take either outcome. `walk`, `rename` and the
low-level opens are single calls or loops of single calls that check nothing in
between. Of the bootstrap command, the flags and the access checks on the parents
of the output directory are left out. The lexical ports other than
TypeScript and standalone JavaScript are stateless copies compared by the shared
fixtures; a further copy in TLA+ would ask nothing new. Of the gateway, status,
project information and logs are left out, which change nothing. Of the scripts,
the PowerShell tests, the allocation, wrapper, smoke and Unity editor checks, the
fixture generators and the packaging of release files are left out.
`PROJECT.json` gives a reason for each component.

## Plan

Done, in this order: `ConnectionAdmission` with `AdmissionPool`,
`ProjectRegistry`, `PinnedFile`, `NpmRelease` with `PackageRegistry`, the lexical
modules with `PathIdentity`, `Gateway`, `HttpRequest`, `ZipExtract`,
`VectorHarness`, `RootBinding`, `BootstrapBundle`, `MkdirAll`; every safety property
of every passing run is proved. The five liveness properties stay with TLC. What
would come next is a directory sync in `BootstrapBundle`, should the code get one,
in place of the assumption about synced files.
