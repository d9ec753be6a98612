# Verification of tablo_homerun_proxy

The proxy makes a Tablo over-the-air recorder look like an HDHomeRun tuner: it
logs in to the Tablo cloud, fetches the channel lineup and the guide, announces
itself on the LAN, and serves each channel as an MPEG-TS stream through an
`ffmpeg` child. This directory holds TLA+ models of that program, configurations
with which TLC checks them on small instances, and proofs checked by TLAPS.

Paths below are relative to the repository root (`main.go`, `internal/...`).

## 1. Inventory

| Part | State it keeps | Operations | Hard about it |
|---|---|---|---|
| HTTP streams, `internal/server/server.go` | `streamSem` (buffered channel), `streams` (atomic), `proxyReady` | `handleChannel`: look up, take a tuner, watch, count, spawn, copy, wait, deferred give-backs | any number of handlers interleave; eight ways out; the lineup and tuner count change under them; a client may leave at any moment, or stay and read nothing |
| Tablo client, `internal/tablo/client.go` | `creds`, `setup`, `lineup`, `tuners`, `cfg` behind one mutex; `lineup.json`; encrypted credentials in the database | login, select device, read or create credentials, make, parse, load lineup, watch | memory and disk are updated in separate steps; each call can fail; two callers overlap |
| Activation, `main.go` | `schedulersStarted` | `activateProxy` at boot and from select-device | six calls that can each fail; run by main and by request goroutines; flags, credential secret and login may be others at the next start |
| Schedulers, `internal/scheduler` | a schedule file each | `RunNow`, `Start`, `nextCheck`, `save` | truncated files, failing tasks, contexts that end, restarts with another interval |
| Configuration loading, `internal/config` | the file `.env` | `Load`: environment, `.env` (written with the defaults if missing), command line, the host's address | which values count as given; a generated file holds every setting |
| Runtime configuration, `internal/store`, `internal/server/admin.go` | the row `app_config`, `Server.cfg`, `Server.restart`, `Service.cfg`, the values read once at start | load at boot, override by explicit settings, `PUT /admin/api/config`, select-device | three copies and a row updated one after the other; a crash or a failed save between |
| HDHomeRun discovery, `internal/hdhr` | none of its own | a read loop on UDP 65001 | binary frames with length boundaries; configuration read while it changes |
| SSDP, `internal/ssdp` | none of its own | a read loop that answers searches, an announcing loop, byebye | two goroutines on one socket; activation long after start |
| Admin password and session, `main.go`, `admin.go`, `internal/store` | password hash, hash and expiry of one session token in the database | set, generate or reuse the password at boot; login, change password, logout | calls in any order from several pages, each of two or three statements; crashes between them |
| Guide, `internal/tablo/guide.go` | `guide.xml`, day files in a temporary directory | `CacheGuideData` beside `MakeLineup` | partial fetches, two refreshes at once, settings read at different moments |
| Logging, crypto, the web page | none that matters here | | |

How they interact: `main` starts the discovery loops, activates, and then runs
the HTTP server. Requests to the admin API call into the Tablo client and the
store, and select-device calls back into `main`'s `activateProxy`. The two
scheduler goroutines call `MakeLineup` and `CacheGuideData`. Streams read the
lineup and the credentials; discovery reads `Server.cfg`, `proxyReady` and the
tuner count. Nothing but the mutexes of the server and of the Tablo client, the
channel `streamSem` and the database orders these accesses.

What makes each part correct:

- streams: every handler gives back what it took, over-the-air children stay
  within the semaphore, a stream that is over frees its tuner, unless its client
  keeps the connection and reads nothing;
- activation: a proxy that is marked ready can serve, and can boot again from
  what an activation left on disk; a selected device is the one in memory, in the
  database and in the configuration;
- schedulers: a refresh that is recorded is not repeated early by who reads the
  record, and refreshes go on as long as the loop's context;
- configuration: a setting comes from the first source that has one, row and
  copies agree between requests, nothing saved is lost, a value the process does
  not run with is flagged, the advertised URL can be reached;
- password and session: the operator can always log in, a session ends with the
  password it was opened with, a stored password is reused;
- guide: a refresh shows what it fetched and nothing left over, and lineup and
  guide settle on what the settings ask for;
- discovery: silence before activation, faithful answers, announcements that
  settle on the present configuration.

`PROJECT.json` lists the components with their status, and under `hazards` each
place where this code is hard to test, with the properties that watch it, or a
note saying why none does.

## 2. Modules

| Module | Models | Composes |
|---|---|---|
| `TunerPool` | abstract: a pool of tuners that knows its holders | |
| `Streams` | `handleChannel`, `streamSem`, `streams`, ffmpeg | implements `TunerPool` |
| `Scheduler` | `RunNow`, `Start`, `nextCheck`, `save`, `storage.WriteFile` | |
| `Activation` | `activateProxy`, credentials and their key, lineup, the admin requests and the scheduler beside it | |
| `SettingsStore` | abstract: settings that only starts and requests change, each request in one step, and the flag beside them | |
| `RuntimeConfig` | the configuration row, its copies, boot, PUT, select-device; which settings are explicit is left open | implements `SettingsStore` |
| `BootConfig` | `config.Load`: environment, `.env`, command line, address | extends and implements `RuntimeConfig` |
| `Sealing` | `encryptCredentials`, `decryptCredentials` and their padding, as operators on sequences of bytes | |
| `AdminSession` | the admin password and the admin session | |
| `Guide` | `CacheGuideData`, `MakeLineup`, `LoadLineup` over their files, with the settings they read | |
| `HdhrFrames` | the datagrams of HDHomeRun discovery, as operators on sequences of bytes | |
| `Discovery` | `hdhr.Run`, `ssdp.Run`, `announceLoop` and what changes under them | extends `HdhrFrames` |
| `MC...` | the instance TLC checks; adds only symmetry sets and the constants a `.cfg` cannot write | extends the module it is named for (`MCConfig`: `BootConfig`; `MCSession`: `AdminSession`; `MCActivation`: also `Sealing`) |
| `...Proofs` | theorems and proofs | extends the module it is named for (`RuntimeConfigProofs`: `BootConfig`; `DiscoveryProofs`: also `HdhrFramesProofs`; `ActivationProofs`: also `Sealing`) |

Conventions. A process (request handler, scheduler goroutine, main) has a
program counter `pc`, and each action is the code between two points where
another goroutine, the network or a crash can be noticed: a lock's critical
section, a database call, a system call. Where a call reads shared state and
does not give it up in between, that is one action. Variables marked *history*
in the modules are no state of the program: they remember what a property needs
and no guard reads them. A definition marked *mutant* is not part of the model:
it is the wrong version of a neighbouring definition against which a property
was tried (`mutants` in `PROJECT.json`).

### Streams

`pc[r]` walks through `handleChannel` for the connection `r`; `holds[r]` says
that the deferred `<-s.streamSem` was registered, and `client[r]` whether the
client reads, has stalled (`io.Copy` blocks, for any time, as the server has no
`WriteTimeout`) or is gone. `Acquire`/`Refuse` are the
`select` with a default; `WatchLookup` is the second look at the lineup inside
`Service.Watch`, which may disagree with the first; `Uncount` and `Release` are
the two deferred calls in the order Go runs them. `ParseLineup` and
`LoadCredentials` let the lineup and tuner count be replaced at any step.
`Serve` has no refusing case, as a request that ends at the ready check or the
first lookup changes nothing. `SemCap` is fixed when the server is created.

### Scheduler

One scheduler with its file. A loop (`Start`) and callers of `RunNow` take the
same steps `TaskOk`/`TaskFails`, `SaveBegin`, `SaveEnd`; `SaveBegin` is the
truncation in `os.WriteFile` and leaves a file that does not parse until
`SaveEnd`. `nextCheck` on such a file, on a missing one, or when reading fails
although the file is in order, first writes one that is due now (`CheckFails`;
`mark`, `marking`). Callers come at any time, before and beside loops: `main.go:106`
calls `RunNow` at each activation that finds `lineup.json` missing or has
`--lineup`, while the loop of an earlier one waits. Several loops stand for
activations that overlap. Time is relative: `due` and `next[p]` count the ticks left.
`CtxKinds` are the contexts an activation may pass to `Start`; a request's
context ends (`RequestEnds`), and the loop looks at it only while it waits.
`interval` is read once per process life, as in `scheduler.New`; a restart may
bring another one, zero included, while the file keeps the time that was written
with the former. `current` and `recorded` are history: whether the file still is
as a loop read it, and whether it holds the last success. Two early repetitions
are what the code does, and `RefreshSpaced` leaves them out: a loop whose timer
was set before another process refreshed refreshes once more when the timer
fires, without looking at the file again (`scheduler.go:67`), and a loop that
cannot read the file refreshes at once (`scheduler.go:79`).

### Activation

One action per call of `activateProxy` that can fail or that others can see
into, and the same actions for the admin requests and the scheduler, which run
parts of the same path (`op` says which). The data of a device (credentials,
lineup) is represented by the device. Stored credentials carry the secret they
were encrypted with (`sealed`), and `Read` fails under another one. `flags` are
`--creds` and `--lineup`, `login` says whether the process has a user name and a
password of the account: a PUT takes that away from the Tablo client, as
`adminConfig` has no such fields (`PutConfig`), and also writes back whatever
device the form was opened with. It gives `OutDir` and `CreateXML` to the client at
once as well: `lineup.json` and `guide.xml` are then those of another directory,
which hold whatever was left there (`Move`), a write that is under way ends in
the former one (`away`), and an activation goes by the `CreateXML` it took at
`LineupFile` (`activeXML`). A start may bring all of this too. `Surroundings`
says which of these an instance looks at together. `torn`, `unsaved`, `warm`,
`fault`, `chosen`, `fresh` and `settled` are history; the last two say which
activations began since the files were moved or the guide was enabled, and
whether one of them was completed: only then does a ready proxy have on disk
what a boot needs, since a PUT alone makes it ready over an empty directory.
Of the schedulers only that they were started is kept. How many loops there are
(two activations that overlap may both start them) and when they end is
`Scheduler`'s. `ListenFails` ends the process, `Restart` is a crash and reboot at
any step, with other flags, secret and login. The schedule file is in
`Scheduler`; refresh-guide, and what lineup and guide hold, in `Guide` (here:
that `guide.xml` exists).

### RuntimeConfig and BootConfig

`row` is the database, `cfg`, `restart`, `tabloCfg` the copies in memory,
`running` what the process took at its start and cannot change, `boot` and
`explicit` what `config.Load` returned. Four fields stand for all: two that need
a restart and keep their value when a form leaves them empty (`Port`, `OutDir`),
one that keeps it and takes effect at once (`IPAddress`), one also set by
select-device (`TabloDevice`). `ServerURL` is derived from address and port.
`told` is history: what the operator was told is saved. So is `asked`: what the
requests give that are being served and not yet saved.

`SettingsStore` is what an operator would say of all this: one record of
settings, which a request changes in one step, where it gives something and
nowhere else, which a start changes only in what is given to it, and a flag that
is set with the first change of a port or directory and kept. It is a promise
about requests one after the other: of requests that overlap it says nothing, and
the code can lose the update of one (`admin.go:164`). The refinement maps the settings to the row's, the flag to
the row's flag, serving to `pc`, and a request's one step to the moment its row
is saved; reading the configuration, computing, and updating the two copies are
steps in which nothing of the store happens. What has to be shown is that the saved row,
computed from the server's copy and the form, is the stored settings with that
request's changes and no others, however earlier saves failed or were cut.

`RuntimeConfig` lets every start have any `boot` and `explicit`: it is the
specification that `BootConfig` implements. There a process life has an
environment, a `.env` that the operator may edit or remove between two lives, a
command line and a host address. `Load` writes a missing `.env` with all the
defaults (`Ensured`); a value of the file counts as explicit only when it
differs from its default, one of the environment or the command line always.

### AdminSession

The row of `admin_auth` is `password`, `session`, `expired`; hashes are what
they are hashes of. `main` tests for a password, sets the one it was given or a
generated one, and logs a generated one (`BootCheck`, `BootSet`, `BootPrint`);
each page has a cookie and at most one request, whose steps are the calls of the
store. A statement may fail, a session may expire, the process may die between
any two. `printed`, `unprinted`, `by`, `crossed` and `late` are history:
passwords seen in the log, and with which password and past what the session was
opened. That `handleAdminLogin` may set a first password is left out: `main` has
always set one before requests are served, which `TypeOK` states and the proof
establishes.

### HdhrFrames and Discovery

A packet is `[head, crc]`: its bytes up to the checksum, and the checksum, which
is represented by the bytes it was computed over — CRC-32 is taken to tell any
two packets apart. Lengths, fields, frames, `parseDiscoveryRequest` and the
response are modelled byte by byte; 32-bit numbers are their four bytes.
Only identifiers of up to eight characters are considered: for them the code's
decimal fallback never applies. `Received` is the read into a buffer of 1460
bytes: a longer datagram is cut, and never taken for a request. A text is at most `MaxText` bytes long, as a
datagram holds fewer than 65536. `Discovery` has the steps of the read loop
(`HdhrRead`, `HdhrReady`, `HdhrConfig`, `HdhrAnswer`: three reads of shared
state, in the order of the code), the two SSDP goroutines and the ticker. SSDP
messages are reduced to their kind and to the configuration their LOCATION and
USN are made of; the fallback of `discoverURL` for a URL that does not parse is
inside that reduction. The two services share only what neither of them changes,
so the instance gives a socket to one of them at a time.

### Guide

`CacheGuideData` reads `lineup.json` (`Begin`), the directory (`TempDir`), and
per channel `IncludeOTT`, the cloud and a temporary file (`Skip`, `Fetch`,
`WriteDay`); `buildXMLGuide` reads `IncludeOTT` and the directory again, per
channel, and the temporary files back (`Build`); the result is written to the
directory of that moment (`Truncate`, `Write`). One step is what a process does
with one channel between two accesses to a file, the settings it reads there
included; every write is a truncation and a write. Two writers of one
file may leave a mixture (`Written`), which does not parse. `MakeLineup` has the
same detail, with `ParseLineup` in its two critical sections, and `LoadLineup`
reads the file and goes on the same way; `MakeLineup` is run by the lineup
scheduler (`LineupLoop`), both by others beside it (`Liners`). `cancelled` says whose
context has ended: an admin's with its connection (`Leave`), that of the loops, if
a request started them, with that request (`EndRequest`). A fetch under an ended
context fails while the cloud is up, and `CacheGuideData` makes an empty day of it
as of any other failure. A channel's days
are one day, its airings the number of the edition the cloud publishes, and a
`guide.xml` is the function from its channels to their airings; that a guide
leaves out airings that are over, the text of the XML and the pseudo-TV guide
are not distinguished. When refreshes are due is `Scheduler`'s: here they may
begin at any time.

### Sealing

Credentials are padded to whole blocks, enciphered and put behind the initial
vector; `Unseal` takes them apart again. The cipher (AES in CBC mode, of Go's
library) is two constant operators of which only is assumed that one undoes the
other under the same key and keeps the length of whole blocks. `Activation`
represents the result of this by `Opens`: what was sealed under a key is read
under that key. That another key never opens it is taken for granted there: the
padding and the JSON would have to fit by chance. `PaddingExact` says what a
fitting padding is.

## 3. Runs

| Run | Instance and bounds | What it shows |
|---|---|---|
| `MCStreams` | 2 connections, 1 channel, 1 tuner, reported counts 0 and 4 | types; `TokensMatchHolders`, `StreamsCounted`, `OtaWithinCap`; `PoolImplemented` (refinement of `TunerPool`); `EndedStreamFreesTuner` (a client that stalls keeps its tuner) |
| `MCStreams_tuners` | 3 connections, 4 reported tuners | **violated**: `RefusedOnlyWhenTunersBusy` |
| `MCScheduler` | 2 loops, 1 caller beside them, intervals of 0 and 1 ticks, 1 restart, both kinds of context | types; `RefreshSpaced`; `RootLoopRefreshes` |
| `MCScheduler_request` | 1 loop with a request's context | **violated**: `RefreshForever` |
| `MCActivation` | 2 devices, 1 request at a time beside main and the scheduler, 2 secrets; and one of: no flags or both with a login, 1 crash; any device in the settings without a login, 1 crash; PUTs that move the files and switch the guide | types; `ReadyMeansServable`, `ReadySurvivesRestart`, `CredsSaved`, `WarmStart`, `SelectActivates`, `SelectedDeviceSaved` |
| `MCActivation_creds` | 2 overlapping requests | **violated**: `CredsSaved` |
| `MCActivation_switch` | 1 request, 2 devices | **violated**: `SelectedDeviceServed` |
| `MCConfig` | 1 request at a time; 2 ports, directories, devices and addresses; 2 environments (nothing, or a port and an empty address), 2 command lines, 2 edited `.env` beside the generated one; 1 restart | types; `ConfigsAgree`, `SettingsKept`, `StaleFieldsFlagged`, `UrlServed`, `SettingsPrecedence`; `StoreImplemented` (refinement of `SettingsStore`) |
| `MCConfig_fresh` | nothing explicit, 1 restart | **violated**: `FreshNeedsNoRestart` |
| `MCSession` | 2 pages, 2 chosen passwords and a generated one, 4 tokens, 2 crashes | types; `OperatorCanLogIn`, `SessionOfPassword`, `DatabasePasswordReused` |
| `MCDiscovery` | 2 configurations (a short URL, and one whose lineup field needs a two-byte length), 2 tuner counts, 16 requests (each type and identifier, long unknown fields, among them one that just fills the receive buffer and one a byte longer, three kinds of damage), 1 failing write | types; `AnswersFaithful`, `SilentUntilReady`, `RequestAnswered`, `AnnouncementsConverge` |
| `MCGuide` | 1 channel of each kind, 2 editions; the two schedulers alone with 2 directories and any 2 of: PUT, new edition, outage, failed write, crash, end of the loops' context; or with an admin's guide refreshes, whose browser may leave, undisturbed otherwise; or with a request's lineup fetches and `LoadLineup` and 1 change | types; `RefreshExact`, `SettledStays`, `GuideConverges` |

Why the bounds are enough for what each run asks. Streams: one tuner and two
connections is the least instance in which one handler is refused because of
another, leaks would show as a count that differs from its holders after any
exit path, and the theorems cover every larger instance. Scheduler: a time is
due, ahead, or overtaken by an interval of zero; a crash can fall between any
two steps; two loops and a caller are needed for one to read, one to wait and
one to write at the same time, and the theorem covers every larger instance.
Activation: two devices suffice to be wrong about which one; one crash reaches
every half-done state on disk, and the boot after it is as nondeterministic as
the first; one restart with another secret makes what is stored unreadable, and
one without a login makes `--creds` fail. The directory a PUT names may hold any
`lineup.json` and guide, so no second PUT or crash is needed to make it differ
from what is loaded. RuntimeConfig: two values of a field are enough to differ,
one restart to see what was kept, and a source with one setting is enough, as
settings are resolved one by one. AdminSession: a session outlives its password
through one overtaken login or one failed clear, which takes two pages; the
second crash lets a boot find a password that a cut boot left; four tokens give
each page one to lose and one to use. Discovery: the two URLs lie on the two
sides of the boundary of 127 bytes, and one failing write is enough to end a
round of announcements; requests of 1460 and 1461 bytes lie on the two sides of
the receive buffer. Guide: an earlier refresh must leave something behind for a
later one to trip over, which takes one change, and a second one to make the
later refresh unlike the first; a second lineup fetch is enough to write a file
that another has truncated, and to overwrite a newer lineup in memory, and a
`LoadLineup` beside a refresh to set a lineup that was read before it. Every
start of `MCActivation` also evaluates `SealingReference`: texts whose lengths
lie around one and two blocks, and whose endings look like padding, are read
back, and only proper padding is accepted.

Symmetry is used only in runs without liveness properties. `CHECK_DEADLOCK
FALSE` is said only for `Activation`, whose process may exit, and for `Guide`,
whose loops may have stopped with their context.

What properties leave out on purpose, because the code does just that and no doc
of the repository says otherwise:

- `OtaWithinCap` calls a child over-the-air by the lookup that decided about its
  tuner; when `Watch` finds another kind under the same identifier
  (`client.go:361`), nobody notices.
- `RefreshSpaced`: the two early repetitions described under Scheduler.
- `ReadySurvivesRestart` and `SelectActivates`: a `lineup.json` that a crash or a
  failed write has cut. The activation that meets it fails, and it is not fetched
  again before a refresh. `SelectActivates` also leaves out `--creds` after a PUT has
  dropped the login (`admin.go:174`).
- `SessionOfPassword`: a session opened by a login that a change of the password
  overtook (`admin.go:91`), and one that a failed or cut clear left behind
  (`admin.go:154`). `OperatorCanLogIn`: a password generated but, for a crash, never
  logged (`main.go:85`).
- `UrlServed`: the time in which a restart is asked for (`admin.go:179`).
- `RefreshExact`: refreshes that overlap another or a PUT.
- `RequestAnswered`: requests longer than the receive buffer.

The hazards concerned are listed in `PROJECT.json` with that note. A further limit
is that the properties of settings and of select-device are about requests one at
a time (section 5).

### What the violated runs found

- `MCStreams_tuners`: `streamSem` is sized before the device's tuner count is
  known and never resized; a four-tuner device serves two streams.
- `MCScheduler_request`: a proxy first set up through the admin page starts its
  schedulers with the context of that HTTP request, and stops refreshing when it
  ends.
- `MCActivation_creds`: two overlapping select-device requests can leave one
  device's credentials in memory and the other's in the database.
- `MCActivation_switch`: after switching to another device the old device's
  `lineup.json` is still served.
- `MCConfig_fresh`: the flag "restart required" is never cleared, not even by
  the restart.

One divergence is seen by reading and needs no run: `README.md:43` of the
repository says that `--lineup` forces a refresh and then exits, but `main.go`
(106-144) refreshes and goes on to serve, and the flag forces a refresh again at
each later activation.

## 4. Fairness

Liveness is checked only under the following, and nothing else is assumed to
happen: no client must connect, read or leave, no request must come, no setting must
change. `Activation`, `RuntimeConfig`, `BootConfig` and `AdminSession` state no
fairness: what they promise is said of the steps that happen, as each of their
calls may fail for ever.

- A goroutine that can run does (weak fairness of a handler's or loop's step).
  Waiting for the device is bounded by the HTTP client's timeout, so
  `WatchReply` is a step that happens. `io.Copy` is not bounded: `CopyEnds` needs a
  client that reads, or one that is gone.
- `exec.CommandContext` kills the child of a cancelled context (`FfmpegKilled`).
- In `Scheduler`: time passes, some activation calls
  `Start`, and a task tried for ever with a live context succeeds at some time
  (strong fairness of `TaskOk`; without it a cloud that is down for good refutes
  any promise of refreshing).
- In `Guide`: a process in the middle of a refresh goes on; the two scheduler
  loops come back as long as their context has not ended, other callers need not; the guide's finds
  `lineup.json` readable in the end although the other loop truncates it now and
  then (strong fairness of `Begin`: a task that fails is retried without pause).
  `GuideConverges` promises something only for a cloud that stays up and loops
  whose context does not end (`Quiet`): main's, not a select-device request's.
- In `Discovery`: the goroutines run and the ticker ticks. The fairness of
  `hdhr.Run` is stated with `HdhrRuns`, which says what a step of that loop does
  to its program counter; it is the same condition as for its actions and spares
  TLC from building a packet to see whether one is enabled.

## 5. Proofs

TLAPS proves the following for every value of the constants, from the named
`ASSUME`s of the modules alone (constants have their types, sets of processes do
not overlap, "none" is not a member).

| Module | Theorems | The argument |
|---|---|---|
| `StreamsProofs` | `TypeCorrect`, `NoTokenLeaks`, `ActiveStreamsExact`, `OtaStreamsBounded`, `SemaphoreIsPool`, `RefusedWhenBusy` | `StreamsInv`: types, `HandlerInv` (a handler of an over-the-air channel holds a token from `Acquire` to `Release`; a running child has its handler copying or waiting), and both counts. The counts alone are not inductive: a release keeps them only because the handler is known to hold. The refinement follows step by step from the same invariant. `RefusedWhenBusy` assumes that no device reports more tuners than the semaphore was made for, and shows that this is all that is wrong in the run `MCStreams_tuners`. |
| `SchedulerProofs` | `TypeCorrect`, `RefreshesSpaced` | For any number of loops and callers. `SpacedInv`: while the file records the last success, its time plus the time passed since makes up the interval that success was recorded with (`FileCovers`); the same holds of what the process that made it is about to write (`SaverCovers`), whichever others write before it; and a timer set from the file as it is agrees with it (`TimersAgree`). |
| `ActivationProofs` | `TypeCorrect`, `ActiveCanServe`, `ActiveSurvivesRestart`, `WarmBootActivates` | For any number of overlapping requests. `Earned(p)` lists what a process at each step has already seen established, and that nothing but a restart takes it back. What it has seen of the files, a PUT takes back too: `FilesEarned(p)` holds of the activations in `fresh`, which is emptied by a move of the files and by enabling the guide, and is handed on to `settled` when one of them completes. `Turns` says who can be at work while who is: handlers wait for main to serve, the loop waits for a start, and by then the credentials are in memory. `WarmBoot` follows the short way of a boot that finds everything. |
| | `CredsSavedAlone`, `SelectedDeviceSavedAlone`, `SelectActivatesAlone` | For requests one at a time (`Alone`): then the boot or the one request activates with only the loop's `MakeLineup` beside it (`Sole`). `Saving`: memory and database differ only between the two steps of a creation or after a failed save. `Selecting`: what a select-device request holds on to from step to step; `Cut`: whence a `lineup.json` that does not parse. With two overlapping handlers TLC violates all three. |
| `RuntimeConfigProofs` | `TypeCorrect`, `CopiesAgree`, `SettingsSurvive`, `StalenessFlagged`, `AdvertisedUrlServed` | `SafetyInv`: how the configuration and flag a request has in hand relate, at each step, to the row, to the copies and to what the process runs with. All but the first assume requests one at a time (`Alone`); with two the properties are false, as a request then saves a configuration it read before the other's change. |
| | `BootImplementsRuntime`, `PrecedenceKept` | What `Load` makes of any sources is a configuration `RuntimeConfig` allows (`BootInv`, and each step of `BootConfig` is one of `RuntimeConfig`): all of the above holds of the process with its environment, file and flags. The precedence follows from `Load`'s definition under the same invariant. |
| | `SettingsAreStore` | `RuntimeConfig` implements `SettingsStore` when requests come one at a time. `Due`: the configuration a request has in hand is the present settings with exactly what it gives changed (`InHand`), and its flag says what the store's will; both follow from `SafetyInv` while the request is alone. Nothing is shown of requests that overlap: there the code loses updates. `StoreStart`, `StoreMain`, `StoreRequest` map each action to a step of the store or to none. |
| `AdminSessionProofs` | `TypeCorrect`, `PasswordFindable`, `SessionFollowsPassword`, `StoredPasswordReused` | `SessionInv`: what the steps of main know of the password (`Boot`), that a request's later step holds a password once in force (`Typed`), that a login which no change has overtaken is one with the present password (`Uncrossed`), and so is the session it opens (`Opened`). |
| `HdhrFramesProofs` | `VarLengthReadsBack`, `VarLengthLimit`, `FrameReadsBack` | What is written is read back: lengths below 32768 (and no further), frames of fewer than 65536 bytes. The lemmas `FieldOfTlv`, `ThreeFields`, `FiveFields`, `CutFields` do the same for fields and payloads. `Fields` is a recursive function, so its value is given by `CHOOSE` and a function of that kind must first be shown to exist (`LoopExists`): were there a shortest tail of the payload that none covers, one turn more of the loop would cover it, as a turn looks only further on (`TurnAhead`). |
| `DiscoveryProofs` | `TypeCorrect`, `AnswersReadBack`, `SilentBeforeReady` | `PayloadReadsBack` and `ResponseReadsBack`: the five fields of an answer are read as the values it was made of. `IntactIsRead`, `DamagedIsNotRead`: a datagram is taken for a request exactly when it is one. `Fresh`, `Typed` and `Unsent` carry this from the read of the socket over the three reads of shared state to the write; `Quiet` does so for the silence. `AnswersReadBack` assumes tuner counts below 256. |
| `GuideProofs` | `TypeCorrect`, `UndisturbedRefreshExact` | `GuideInv`, whose core is `Exact(p)`: at each step of an undisturbed refresh what it has fetched and what is left make up its filtered list; a day file of it that parses holds what was fetched; what it has read back agrees with what it fetched and, with what is left, covers it. `Sole` says that nobody else wrote meanwhile. No day file need have been written whole: one that does not parse ends the refresh. |
| | | The types need what `MakeLineup` makes of a list: `Visible` is a recursive function, so it must first exist (`KeptExists`, by the least number of turns that none takes), and then `VisibleKeeps` says that it keeps exactly the channels the setting lets through. |
| | `SettledRemains` | The second half of `GuideConverges`, for every instance. `LineupKept`: the lists in hand, in `lineup.json` and in memory all filter to the same channels, so that whoever writes or loads one last changes nothing. `GuideKept`: the step the scheduled refresh has reached says what it has fetched, read back and still to visit, and every day file of it that parses is of the present edition. `Undisturbed` lists what can still happen: `Settled` includes that the loops' context has not ended, and a `LoadLineup` that has read an old file and not set it yet is a list in hand, so that nothing is settled before it has. `Settled` names these conditions in the model, and TLC checks that they are reached (`GuideConverges`) and kept (`SettledStays`). |
| `ActivationProofs` | `SealedReadsBack`, `PaddingExact` | `PadFacts`: the length and the bytes of what `Pad` makes. A block of padding is added even to whole blocks, so the last byte always is a padding's. `PaddingExact` is the converse: what is unpadded was padded. |

Only model-checked: all liveness properties (`EndedStreamFreesTuner`,
`RootLoopRefreshes`, `RequestAnswered`, `AnnouncementsConverge`,
`GuideConverges`), which are beyond the prover. Every other property of a passing
run is a theorem. Those about requests one at a time are false otherwise: with
two overlapping requests `StoreImplemented`, for example, fails by a lost update,
which TLC finds when `MCConfig` is given a second handler.

## 6. Not modelled

- The XMLTV text of the guide, its pseudo-TV part, and which airings are over.
- The numbers of channels: major and minor are written together without the
  point (`client.go:323`), so that 1.11 and 11.1 collide. The models know a
  channel by its identifier.
- A tuner count of 256 or more, which `discovery.go:112` cuts to a byte.
- In `config`: a `PORT` given as the empty text, the clamping of numbers, and a
  database that moves because `OUT_DIR` changes while `DB_PATH` is not given: the
  new directory then starts with an empty database.
- A `TABLO_DEVICE` that is not among the account's devices.
- The branch of `handleAdminLogin` that sets a first password: `main` has always
  set one before.
- The hashing of the key, HMAC signatures and random identifiers in `crypto.go`:
  pure functions. The cipher itself is assumed (see Sealing).
- Logging and the web page; its calls are the inputs of the models.
- Go data races as such: `CacheGuideData`, `buildXMLGuide` and `lighthouseJSON` read
  `s.creds` and `s.cfg` without the lock (`client.go:403`). The models replace such
  a value in one step.
- The order of an `alive` and a `byebye` at the end (`ssdp.go:91`) is in
  `Discovery`; no property is stated of it, as nothing in the repository
  promises the goodbye.
- The rate of retries: a due task that fails is retried at once without end.
- Settings that take effect only at the next start although no restart is asked
  for: the log level, and `CreateXML` for the guide scheduler, which the first
  activation starts or not (`admin.go:493`, `main.go:121`). That the intervals
  wait for a start is in `Scheduler`.
- How many loops run: two first activations that overlap may start the schedulers
  twice (`main.go:119`). `Scheduler` has any number of loops.

## 7. Plan

What could still be added:

1. `RuntimeConfig` and `Activation` in one composition, with a select-device
   request overlapping the PUT of a form opened before it.
2. The guide number of a channel as an operator, checked against the channels it
   must tell apart.
