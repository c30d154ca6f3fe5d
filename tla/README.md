# Verification of sbx-go-sdk

TLA+ models of the Go SDK for Docker Sandboxes (`sbx`), the TLC runs that check
them on small instances, and the theorems TLAPS proves about them for every
instance. Source paths below are relative to the repository root.

* [The system](#the-system): components, state, operations, hazards
* [The modules](#the-modules): what each module models and how it matches the code
* [The runs](#the-runs): what is checked, with which bounds and why they suffice
* [Fairness](#fairness), [The proofs](#the-proofs), [What the code does differently](#what-the-code-does-differently)
* [Not modelled](#not-modelled), [Plan](#plan)

Run a check with `tlc -workers 2 -config runner.cfg MCRunner.tla`, a proof with
`tlapm Runner_proofs.tla`.

## The system

The SDK drives two things it does not own: the daemon `sandboxd`, over HTTP on a
Unix socket, and the `sbx` binary, as a child process. It keeps almost no state;
its hard parts are the orders in which things happen around it.

| Component | State | Operations | Talks to | Hard behaviour | What makes it correct |
|---|---|---|---|---|---|
| transport (`internal/transport`) | none; an `http.Client` | `DoJSON`, `Do`, `Hijack` | daemon | lost bodies, done contexts, an upgrade whose response is lost | an answer is the daemon's, or an error |
| exec (`exec`) | per call: connection, pipe, demultiplexer | `Exec`, `ExecInteractive` (`Stdout`, `Stdin`, `Wait`, `Resize`, `Close`), `ExecDetached`, `InspectExec`, `Logs`, `Stats` | transport, stdcopy, sandbox | the stream, the exit code and the sandbox's status come from three requests | nil only for a finished command, its code and its output, unless the stream ended before it; sentinels only for a command that never ran; nothing left open |
| stdcopy (`internal/stdcopy`) | none | `Demux` | exec | truncated streams, failing writers | every frame once, in order, to its writer |
| cli (`internal/cli`) | none | `Capture`, `CaptureStdin`, `Inherit` | the `sbx` child | cancellation, children that ignore the interrupt, grandchildren that hold pipes | always returns, with the child's own answer |
| sandbox lifecycle (`sandbox`) | a handle: the last `SandboxInfo`, addressed by name | `Create`, `Get`, `List`, `Inspect`, `Start`, `Stop`, `Remove` | cli, transport | check of the name, shell-out and read-back are three steps | a nil `Create` made its own sandbox; `ErrSandboxExists` made none |
| client/daemon (`client`) | socket path, lazily created runner | `New`, `EnsureRunning`, `StartDaemon`, `RestartDaemon`, `DaemonStatus`, `StopDaemon` | cli, transport | a daemon that is starting, hung or dying; a deadline and a context | nil means healthy; the wait ends |
| secrets (`secret`) | none; the store is the CLI's | `SetToken`, `SetRegistry`, `SetCustom`, `Import`, `ImportAll`, `Remove`, `List`, `SetOAuth` | cli | the check and the write are two shell-outs; the CLI's prompt eats a piped value | the check looks where the CLI writes; refusals have no effect; nil means stored unless raced |
| copying (`sandbox/cp.go`, `internal/untar`) | a staging directory | `CopyFrom` and `Extract`, step by step; `CopyTo`, one question | transport, cli, file system | failures half way, a destination that appears, links | a copy to a new destination is all or nothing, into a directory it touches nothing else; failures have a cause |
| ports (`sandbox/ports.go`, `portspec.go`) | none | `Ports`, `PublishPort`, `UnpublishPort` | transport | the request is built from an older listing; ranges | no port goes that the spec does not name, all that it names do |
| oauthflow (`internal/oauthflow`) | a line buffer | `Run`, used by `mcp.Authorize` and `secret.SetOAuth` | cli | output in pieces, a flush after the copying goroutine, a context that ends with the child | the URL is reported once and whole, while the user can act on it; nil is a completed flow |
| stats (`exec/stats.go`) | none | `Stats` | exec | counters going backwards, lines by position | no line is taken for another |
| settings, ssh, kit, mcp, policy, skillstore, template, prune, summary, setup, login | none | some sixty functions of one question each | cli, transport | classification of failures, reports out of shape | nothing is invented, sentinels are true, no option is lost |
| coltable, api types, generator, examples | none | parsing, generated code, demonstrations | | | |

A **call** of the SDK is a sequence of requests and shell-outs. Between any two of
them other goroutines, other processes, the daemon and the sandboxes move. The
hazards this exposes the code to are listed, each at its line, under `hazards` in
`PROJECT.json`, with the properties that would catch them going wrong.

## The modules

```
            ShellOut                      SandboxRegistry
               ^ implements                     ^ implements
            Runner                          Lifecycle
               ^ a flow is a call
            OAuthFlow                       Reports = Ports + Answers (uses Stats)
                                            CopyFrom, over Untar

   Exec       Secrets       Daemon          *_proofs extend their module
```

The contract of `Runner` is what `Lifecycle`, `Secrets`, `Daemon` and `Answers`
assume of a shell-out. Everything outside the SDK (the daemon, the `sbx` binary,
os/exec, commands, other users) appears as actions that may happen whenever they
can. Such definitions are marked `external` in the map. Actions observe no more than the
code could; variables marked *(observed)* are history that only properties read.

### `Runner`, `ShellOut` — internal/cli/cli.go

One call of `CaptureStdin` or `Inherit` with the goroutines `os/exec` runs for
it: the calling goroutine (`start`, `reap`, `collect`, `await`, `returned` follow
`Cmd.Start`, `Process.Wait`, the watcher's report and `awaitGoroutines` in
`Cmd.Wait`), the context watcher configured by `cmd.Cancel` (an interrupt) and
`cmd.WaitDelay` (a kill, then the closing of the pipes), and the copying
goroutines. `Capture` is `CaptureStdin` without input. The child may ignore the
interrupt, exit with any code, and leave a grandchild on its pipes (`Stall`).
Writes are counted, not spelt. WaitDelay is a timer that runs out only when
something really holds the call: ten seconds outlast the steps of goroutines that
can run. `ShellOut` is the abstraction: a shell-out that fails is reported as the
child's own failure, one that succeeds may be reported as lost, never the reverse.

### `Exec` — exec/*.go, internal/stdcopy, Transport.Hijack

Any number of calls on one `*Sandbox` handle. `Inspect` and `Start` are
`ensureRunnable`, `Hijack` the attach, `DemuxFrame`/`DemuxEnd` the demultiplexing
goroutine writing into an `io.Pipe` (`held` is the frame a blocked write holds),
`ReadAll` and `ReaderCopies` its readers, `StreamDone` and `FinishExec` the end of
`Exec`, `CallWait`, `WaitDrains`, `WaitReturns` and `Close` the session's methods,
`Poll` `InspectExec`. The kinds are `exec` (stderr discarded), `mux`
(`WithMultiplexed`), `interactive`, `tty` (a raw stream) and `detached`. `named`
is the handle's name, which an `Inspect` whose answer lost its body wipes out for
every later request. Frames are atomic, numbered per command; a frame torn inside
its payload is an error, inside its header a clean end, as in `Demux`. `Faults`
chooses what the environment may do besides answering.

The end of a stream (`StreamEnds`) is a step of the daemon's own, tied to nothing: it
comes after the command ended (`Exit`, or the sandbox did), when a grandchild may still
write to it, or, with the fault `early`, while the command runs; it is clean or, with
`torn`, inside a payload. `cut` remembers an early end. `sent` is what the command
wrote: what it writes when its stream has ended, and the part of a frame that a tear cut
off, never reach the caller. Nothing is assumed about when the daemon ends a stream, nor
that it ever does.

### `OAuthFlow` — internal/oauthflow, mcp.Authorize, secret.SetOAuth

`Run` composed with the call of `Runner` it makes: `FlowCopies` is the copying
goroutine's step and the scanner's `Write` in one, `FlowWrites` the child's next
chunk of `text`, `RunReturns` the flush and the verdict. `Inherit` is given one
writer for both streams, so there is one copying goroutine, for which `os/exec`
waits, having closed its pipe if need be, before `Inherit` returns: scanner and
flush never run at once. Output is cells: halves of `https://`, so that a pipe may cut it in two,
more of a URL, other text, ends of lines. `Scanned` is the loop of `Write` by what it
does: the first whole line with a URL is reported, what follows the last end stays. The
verdict reads the context when the
child has failed, as `Run` does. Every step is a step of `Runner` or leaves its
variables alone (`FlowIsACall`), so its promises carry over.

### `CopyFrom`, `Untar` — sandbox/cp.go, internal/untar/untar.go

`Untar` is the extraction as operators on a tree (paths to nodes with kind, data,
owner's bits and link target): `safeName`, `checkSymlinkTarget`, `MkdirAll`,
`writeFile`, `symlink`, `hardlink`, `Chmod`, each with the permissions it needs;
`os.Root`'s confinement is external; `Walk` follows a name part by part through the
links it meets. `CopyFrom` walks through it: inspect, start
(`ensureRunningForCopy`), `GetFiles`, `Stat`, then one `ExtractEntry` per entry in
any order of the stream that puts a hard link after its file, `applyDirModes` from
the deepest, `Rename` of the staged tree, and `Cleanup`, the deferred
`os.RemoveAll`. Between any two steps the stream may break (inside a file too), a
request or a file operation may fail (`RequestFails`, `DiskFails`), the process may
crash, the sandbox may stop or go and the destination may change. `there` says whether
the path exists in the sandbox: the daemon answers 404 for a missing path too
(`sandbox/cp_test.go:149`), which `MapError` makes `ErrSandboxNotFound`. An inspection
whose answer loses its body wipes the handle's name and leads to a start and a 404.
What others do inside the tree while it is extracted or gets its modes, such as putting
a link in the place of a directory, is not modelled: they act on the destination as a
whole, and only where the copy relies on what `Stat` saw.

### `Reports` — `Ports`, `Answers`, `Stats`

The callers of everything without a state of its own, in one run: one call of
`Answers` or one `UnpublishPort` of `Ports`.

`Ports` (sandbox/ports.go, portspec.go) cuts a spec at its separators and follows
`parsePortSpec` and `Wanted` field by field; between `ListPorts` and `PostKeys`
other callers publish and unpublish, and the daemon may remove some keys and fail.

`Answers` makes each function a record: through what it asks (CLI or REST), which
arguments it refuses without, its options and the flags it makes of them, how it
reads its report. `Check`, `Answer`, `CallReturns` are what all of them do.
Decoders follow `encoding/json`: an absent or null key stays zero unless the code
points at it (`Keyed`); an empty body is a zero value through `DoJSON`. `items` is what
whoever wrote the report means to say, whether or not it has the shape the decoder looks
for: a renamed key loses it, and `NothingInvented` says which functions may not.
`Classified` and `mapHTTPError` are the classification of failures. `Stats`
(exec/stats.go) is its own reader: seven unlabelled lines, any of them missing.

### `Secrets` — secret/set.go, import.go, secret.go

Concurrent `SetToken`, `SetRegistry`, `Import`, `ImportAll` and `Remove` on the
entries of one service and one registry host in the scopes global, sandbox and
host-only. `Check` is `checkNotStored` (list, filter), `Run` the child with its
overwrite prompt, `Answer` what the Runner makes of a child that exited 0. A child that
fails or is killed may have stored the value, or fed it to the prompt, before.
`checkScope`, `writeScope` and `List` keep the three vocabularies of scopes apart:
the SDK's, the argument vector's and the listing's.

### `Lifecycle`, `SandboxRegistry` — sandbox/lifecycle.go, sandbox.go, list.go, name.go

Concurrent `Create` and `Get` and the methods of the handles they return. `Named`
is everything `Create` does between the listing and the shell-out, in the order of
the code: the read of the first workspace, the name, `ErrSandboxExists`, then the
validation in `toCreateArgs`. Names are numbers: *i* is `<agent>-<dir>-i`, 1 the
name without a suffix, 0 the empty string. A sandbox is an incarnation that is
never used again, so that a handle can be told from the sandbox it once was. The
properties go by names, as the handles do: a sandbox removed and made anew under its
name answers for the old one, in `Create`'s read-back as in every method.
`SandboxRegistry` is the promise: creation is exclusive by name, nil means this
call made a sandbox, `ErrSandboxExists` that it made none and the name was taken.

### `Daemon` — client/daemon.go, client.go

`New` (with `WithAutoStart`, and with `WithStrictVersion`), `EnsureRunning`,
`StartDaemon`, `RestartDaemon`, `DaemonStatus` and `StopDaemon` against a daemon
that is down, starting, up (and may still answer an error) or hung. `Probe`, `CheckDeadline` and `Sleep` are the
loop of `waitHealthy` with its select; the 30 s deadline is a timer that has run
out or not. The SDK's callers share nothing but the daemon, so what other callers
do is part of `DaemonMoves` and `OthersStart`.

## The runs

`pass` runs check invariants, action properties, liveness and refinement;
`violation` runs show that a statement of the repository's documents is not what
the code does.

| Run | Shows | Bounds, and why they are enough |
|---|---|---|
| `exec` | for one call of every kind under every fault but a lost body: RetrySafe, ExecCompleted, OutputInOrder, ReaderComplete, WaitCompleted, ExecLeavesNothing; the call returns when its stream ends, and Close frees a blocked Wait. ExecLeavesNothing is about calls that returned; that the goroutine of a session ends is CloseFreesWait's | 2 frames: one held in the pipe and one on the wire, stdout and stderr in either order; exit codes 0 and 1 tell a real code from the zero value |
| `runner` | the answers of `CaptureStdin` and `Inherit`, every call ends, the refinement of `ShellOut`; of an OAuth flow: the first URL is reported once and whole, comes out while the child waits, nil is a completed flow | 2 writes: one copied, one in the pipe; codes 0, 1 and -1 (a signal); outputs with a URL on one line, cut by the pipe, on a last line without an end, none, and two |
| `secrets` | two writers and someone with the CLI: refusals have a cause and no effect, nil means stored unless raced; children may fail after they stored | two writers and an outsider make every check-write-check order; one service and one host, as other names never meet |
| `lifecycle` | two users: CreatedIsOwn, TakenOnlyIfRaced, NotFoundMeansGone, and the refinement of `SandboxRegistry` | 2 incarnations let one sandbox go and another come under its name; 3 names so that a free one is in play (`MaxBoxes < MaxNames`) |
| `copy` | CopyComplete, AllOrNothing, FailsForCause, OthersKept: a copy to a path that is no directory is all or nothing also across a crash, into a directory it touches only what the archive names; a failure has a cause | 8 sources: every kind of entry, one that is not supported, a read-only and a closed directory, hard and symbolic links inside and out of the source; 11 destinations: nothing, a file, a directory, and in it everything that can be in the way of an entry, links among it, also in a directory the user may not write. Others act once, at any step |
| `reports` | UnpublishExact, NothingInvented, SentinelTrue for every function, subset of options and form of report, and every `UnpublishPort` | 4 keys: one port on two host ports, two addresses, two protocols; specs of every form; each key changes hands once, which is why the race of listing and request cannot take a key that was published anew. Reports of up to 2 items tell all from some; the probe of `Stats` with every subset of its lines, counters that stand still, run and go back |
| `daemon` | nil means the daemon was up after what the call ran; every method gives one of its own answers; one late probe at most; cancelled and time-limited calls end | one caller of every method: others act through the daemon only, and the model lets them do anything to it |
| `exec_wait_after_close` | after `Close`, `Wait` returns `(0, nil)` for a running command | the smallest instance that shows it, as for the runs below |
| `exec_wait_takes_output` | `Wait` takes output from the reader the README starts beside it | |
| `secrets_prompt` | of two `SetToken` calls that both pass the check, one feeds its token to the prompt and returns nil | |
| `copy_readonly` | copying a read-only directory fails after the extraction and leaves the staging directory behind | the sources and destinations of `copy` |
| `daemon_hung` | without `WithHTTPTimeout` a hung daemon keeps `EnsureRunning` beyond its 30 s, for ever | |

ExecCompleted, OutputInOrder, ReaderComplete and WaitCompleted are checked without
the fault `empty`: when a 2xx answer loses its body, `Exec` takes the zero value
for an exit code and `InspectExec` a running command for a finished one (see
[below](#what-the-code-does-differently)). With an early end of the stream (`cut`) they
say what is returned at worst: a part of the output, and the code 0 of a running
command. Several calls on one handle meet in
the sandbox's status and in the handle's name only; that their sentinels never
cover a command that ran is the theorem `RetryIsSafe`, for every set of calls and
every fault, `empty` included, so the run has one call.

Every property of a passing run has a mutant, a plausible bug in the code that
makes TLC find it violated; mutants stand before the definition they change and
are named after it.

Deadlock is checked everywhere. Where the system may stop, a `Terminated` action
(`Over` in `OAuthFlow`) says in which states: all calls returned, no session left
open or unread.

## Fairness

Fair are only steps the Go runtime, the kernel or os/exec makes by themselves:
goroutines that can run, timers that run out, and requests the daemon answers.
In particular

* `Exec`: the call, the demultiplexer, `Wait` and a reader are weakly fair. No
  command is assumed to end, no user to call `Close`, and the daemon not to end a
  stream, even after its command; `CallsReturn` speaks of a stream that has ended,
  `CloseFreesWait` of a session that was closed.
* `Runner`: the call, the watcher and the copying goroutines are weakly fair. The
  child need not exit nor the grandchild let go; a kill is certain.
* `OAuthFlow`: the steps of `Runner`, with the scanner in the copying goroutine's,
  and the return of `Run`.
* `Daemon`: the call's steps and the deadline are weakly fair. The daemon owes
  nothing: a probe of a hung daemon is not enabled to end, unless the client has
  a timeout or the context is done. `CallEnds` is about probes: in the sleep between
  them the deadline alone would end the call.

`Secrets`, `Lifecycle`, `CopyFrom` and `Reports` have no liveness property: they
are sequences of shell-outs, requests and file operations, each of which ends by
the properties of `Runner`, the context and the kernel.

## The proofs

TLAPS proves, from the assumptions on the constants declared in each module
(`RunnerAssumption`, `ExecAssumption`, `SecretsAssumption`, `DaemonAssumption`,
`FlowAssumption`, `PortsAssumption`, `SandboxesAssumption`, `LifecycleAssumption`,
`CopyFromAssumption`), for every value of the constants. A theorem that needs more
says so in its statement; the hypotheses of that kind are explained
[below](#hypotheses).

| Module | Theorems | Inductive invariant and why it is needed |
|---|---|---|
| `Runner_proofs` | TypeCorrect, NilIsSuccess, FailureIsKept, ChildIsReaped, DelayIsHarmless, CancelIsReported, Refinement | `RunnerInv`: *Phases* ties watcher, copies and child to the call's position; *OutputKept* says that pipes are closed early only with a kill or at the very end; *ErrorKept* that the pending error is `exit` exactly for a non-zero code; *CauseKept* that nothing is cut short without a cancellation or a stall; *Returned* reads the answer off the error |
| `OAuthFlow_proofs` | FlowIsACall, FlowKeepsPromises, FlowIsSuccess, UrlIsReported | that every step of a flow is a step of the call; `VerdictKept` besides: a verdict comes after the call and nil from its code 0 alone. *ScanKept* for the URL: `pending` is the last line of what was collected, and its first URL was reported if that is on a whole line (`WriteScans`, `FlushScans`) |
| `Exec_proofs` | TypeCorrect, RetryIsSafe, NothingIsLeft, WaitIsTrue, CodeIsTrue, OutputIsOrdered, ReaderHasAll, OutputIsWhole, ExecIsTrue | `ExecInv`: *NotAttached* says nothing exists before the attach; *Streaming* that a clean end of the stream belongs to a command that ended, unless the stream was cut; *Ending* what holds of returning calls. The exit code needs `CodeInv` besides. The output needs `OutputInv`: *Flow* orders a command's frames over what the caller has, the pipe and the wire; *NothingLost* finds every promised frame in one of the three, unless a failed writer, a draining `Wait` or a `Close` took it |
| `Secrets_proofs` | CheckLooksWhereCliWrites, TypeCorrect, RefusalIsHarmless, NilIsStored, RefusalHasCause | `SecretsInv`: *Untouched* (no effect before the child runs) and *Guarded* (from its check on a call's entry is free or was raced for). The first lemma carries the argument: for every job the check and the CLI name the same entry |
| `Daemon_proofs` | TypeCorrect, NilIsHealthy, DeadlineEndsPolling | `DaemonInv`: *Seen* (a daemon that is up has been seen by everyone since their shell-out) and *Late* (a late probe came from the sleep in which the deadline passed) |
| `Lifecycle_proofs` | TypeCorrect, ExistsMadeNothing, NilIsOwn, NilMadeOne, TakenIsRaced, NotFoundIsGone, RegistryImplemented | `LifeInv`: *Numbered* (incarnations are never used again and live under one name), *Stage* (how far a call is), *Making* (what it made lives under the name it chose). TypeOK needs that a free name exists: fewer sandboxes than names are in play, so no map from names to sandboxes is one to one. *Knowing*, what a call knows of others, holds only if answers keep their bodies |
| `CopyFrom_proofs` | TypeCorrect, CopyIsAllOrNothing, CopyIsComplete, OthersAreKept, CopyFailsForCause | `CopyInv`: *Kept* (the destination of a staged copy changes by the rename alone), *Streamed* (what is still to come), *Staged* (`Holds`: what is staged is the source but for what is to come). *Weave* says the same of a directory extracted into (`Woven`: an entry of the archive or what was there); *Smooth* that no entry meets an obstacle unless there is a cause, *Causes* where the failures of requests and of the disk come from |
| `Reports_proofs` | UnpublishIsExact, SentinelsAreTrue, NothingIsInvented | *PortsInv*: from the listing on, `keys` are the listed keys the spec names (`WantedIsNamed`: the filter of `UnpublishPort` agrees with the grammar). *CallInv*: what is returned is what the answer tells; `OpsShape` (every option has its flag) and `ResultTells` are about every function at once. *Told* for what is returned (`NilIsTold`); the probe of `Stats` is `UsageIsTrue`, for counters of any length and value |

Theorems without a run of their own: no child is left (ChildIsReaped), a failure is
kept (FailureIsKept), a cancellation is reported (CancelIsReported), `ErrSandboxExists`
made nothing (ExistsMadeNothing, which the registry implies too), and the parts of
ExecCompleted and CreatedIsOwn that need no hypothesis or only one part of it
(OutputIsWhole, CodeIsTrue, NilMadeOne). Each argument is the same: the initial states
satisfy the invariant, every action keeps it (one step per action), it implies the
property. `Refinement` maps a call that has not returned to a pending answer and a
returned one to what its caller can see; every step is then a step of `ShellOut` or
invisible. `RegistryImplemented` reads the wanted name off the job and the answer off
the result, any other error as "error"; methods, listings and losses are then invisible.

Facts about recursive functions and sequences of any length (the walk along a name, the
output chunk by chunk, frames in order) are proved by a least counterexample (`Least`,
from the well-foundedness of `<` on the naturals) where the library's induction theorems
do not apply.

### Hypotheses

* `"empty" \notin Faults` (WaitIsTrue, CodeIsTrue, ExecIsTrue; `BodiesKept` in NilIsOwn,
  TakenIsRaced, NotFoundIsGone): no 2xx answer loses its body. With that fault the
  statements are false, as the code takes the zero value for an answer
  ([below](#what-the-code-does-differently)).
* `Plain` (CopyIsComplete, CopyFailsForCause) and `Linkless` (OthersAreKept): a directory
  that is extracted into has no links. With links two names may lead to one place, and an
  entry written under one changes the other. Staged copies, which are most, need no such
  hypothesis, nor do links in the archive. The run `copy` has directories with links.

Only model-checked: all liveness (CallsReturn, CloseFreesWait, CallReturns, CallEnds,
UrlSurfaces), whose proofs need ENABLED; and CopyComplete, OthersKept and FailsForCause
for directories with links. Every safety invariant of a passing run is a theorem.

## What the code does differently

The violation runs and their findings are listed above and in `PROJECT.json`. Seen
while modelling, with no run of their own:

* `docs/superpowers/specs/2026-06-10-sbx-go-sdk-design.md:294` says that
  cancelling the context closes a session's connection; nothing watches the
  context after the handshake (`exec/attach.go:36`).
* `exec/options.go:46` promises `ErrSandboxNotRunning` for a stopped sandbox; one
  that stops between inspection and attach yields a plain attach error.
* `internal/cli/cli.go:110` says that `Inherit` has no copy goroutine to stall; it
  has one whenever Stdout or Stderr is not an `*os.File` (the model's `piped`), and
  a grandchild then turns exit 0 into `(-1, exec.ErrWaitDelay)`.
* `README.md:493` promises `client.ErrSandboxExists` for a name in use; a name
  taken after the listing is reported as the CLI's own error.
* `sandbox/sandbox.go:66`: an `Inspect` whose answer lost its body leaves a handle
  without a name and no error.
* `internal/transport/transport.go:76` drops the error of reading a 2xx body: a
  lost body is a nil error and a zero value, for `InspectExec` a command that is
  no longer running. It is in the models of `Exec`, `Lifecycle`, `Ports`
  and `Answers`.
* `policy/policy.go:101` promises `ErrUnexpectedFormat` for a changed shape; a key
  that is renamed, missing or null is an empty list and a nil error, as in
  `ProfileNames`, `settings.Get`, `kit.Inspect` and `Summary`, whose documents
  promise less. The rules meant are then lost, which `NothingInvented` allows to all
  but the functions that do tell, `Strict`.
* `client/daemon.go:308` believes any JSON object, also of a command that failed:
  `{}` or an error object is a `Diagnosis` whose `OK` is true.
* `sandbox/lifecycle.go:39` reads the first workspace before `toCreateArgs` checks
  that there is one: `Create` without a name and a workspace panics.
* `mcp/mcp.go:304` joins the arguments of a local server with commas, as the CLI
  wants them; an argument with a comma arrives as two.
* `sandbox/prune.go:74`: a prune that fails half way returns its error without the
  names of what it removed.
* `internal/oauthflow`: what follows a URL on its line is handed on with it; and a
  URL on a line without an end is reported by the flush, after the child, though
  line 22 says "while the child is still running". A URL that a kill cut short counts
  as the output it is: the child wrote no more.
* `internal/untar/untar.go:168` says that a link in the place of a file "must be replaced,
  not written through", and drops the error of the removal: in a directory the user may
  not write, the link stays and the file it leads to is written (`LockedLinks`).
* `exec/exec.go:66`: a stream that ends cleanly, or inside a frame's header
  (`internal/stdcopy/stdcopy.go:29`), while the command runs makes `Exec` and `Wait`
  return code 0 with a nil error: `State.Running` is not read.
* `sandbox/cp.go:88`: a path that is missing in a live sandbox is `ErrSandboxNotFound`,
  as `sandbox/cp_test.go:149` shows; a caller cannot tell it from a missing sandbox.
* `sandbox/cp.go`: a sandbox stopped between `ensureRunningForCopy` and the request
  answers 409, which `client.MapError` makes `ErrSandboxExists`.
* `exec/stats.go`: without the line of `uptime` that of `df` takes its place, is no
  number, and both stay zero. `sandbox/portspec.go` accepts protocols of letters
  alone, so `tcp4`, which `Ports` may list, cannot be asked for by name.

## Not modelled

Of the modelled packages: `Resize`, `Stdin` and `Logs` (one request, one write, an
`ExecInteractive` with a fixed command); `SetCustom` (one shell-out, no check);
`sandbox.Run` (an interactive `Inherit`, whose contract `Runner` checks); the
rendering of settings and the masking of listed secrets. Argument vectors are
valid or not in `Lifecycle`, sets of flags in `Answers`; the text of errors and the
columns of tables are left out. The data race on the fields of a handle shared by
goroutines is modelled as far as the loss of the name, not as torn values; that on
the lazily created runner of a `client.Client` not at all, so far. Frames are
atomic in `Exec`. Links do not chain in `Untar`, and a name in an archive is a
sequence of parts. Generated types, the generator, the column parser and the
examples are text, tools and demonstrations.

## Plan

Done, in this order: `Runner` and `ShellOut` (every shell-out rests on them),
`Exec` (the core of the SDK), `Secrets`, `Lifecycle` with `SandboxRegistry`,
`Daemon`; `CopyFrom` over `Untar`; `OAuthFlow` over `Runner`; `Ports`, `Stats` and
`Answers` under `Reports`; and the proofs of every safety property of the passing runs.

Next modules, the least certain first:

1. `LazyRunner`: the unlocked lazy field of `client.Client`, with the outcomes the
   Go memory model allows.
2. `Stdcopy` at the level of bytes (headers, sizes, chunks), against `Exec`'s
   atomic frames.
3. Pure algorithms against reference definitions: the split of a workspace at its
   colon and `absLocal`.

Next proofs: CopyComplete and FailsForCause for directories whose links lead to places of
their own, so that no two names meet; that what `Inspect` loses with a body is all that
`BodiesKept` excludes, i.e. NilIsOwn and TakenIsRaced for the calls whose own answers
kept theirs; and the lemmas of the modules above as they come.
