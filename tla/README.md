# A TLA+ model of lockit

lockit keeps credentials in one encrypted file, `~/.lockit/vault.lockit`. The
`lk` command edits it, a daemon can hold it unlocked and serve it over a Unix
socket, `lk sync` carries it to other machines through Google Drive, and
`lk export`, `get` and `import` turn it into text and back. This
directory models what these programs do to the files they share, checks the
models with TLC on small instances, and proves with TLAPS, for every instance,
their safety properties and that three of them implement an abstract one.

Paths below are relative to `src/crates/`.

## 1. The system

| Part | State | Operations | Shares state with |
|---|---|---|---|
| Unlocked vault (`core/src/vault.rs`) | header (salts, wrapped keys, version), vault key, entries | init, open, recover, set, delete, save | whoever opened the same file |
| Vault commands (`cli/src/main.rs`, `vault.rs`, `credentials.rs`) | `vault.lockit`, `device.key`, `credentials` | init, add, import, delete, get/list/run/export, recover, unlock | each other, the daemon, `lk sync pull`; no lock |
| Daemon requests (`cli/src/daemon.rs`, `ipc/src/server.rs`, `client.rs`) | the unlocked vault and the time of the last activity, behind one tokio mutex | unlock, lock, get, set, delete, status, auto-lock | clients (one connection per request), the vault file |
| Daemon lifecycle (same files) | `daemon.pid`, the socket's name, processes | start, run, stop, SIGTERM, PidGuard, bind | every other start and stop |
| Sync engine (`sync/src/engine/`, `sync_crypto.rs`) | local vault, backup copy, `sync-state.toml`, remote `vault.enc` and `manifest.json` | push, pull, sync with three strategies | other devices, local edits |
| Sync commands (`cli/src/sync.rs`) | the engine's state file and backup, the sync key | load, run, persist, restore; login, logout, key, set-key | the engine, each other |
| Google Drive backend (`sync/src/backends/google_drive.rs`, `http.rs`) | folders and files on Drive, the cached folder | find-then-create, patch, get, remove, list, migrate; retry | all devices |
| OAuth and tokens (`sync/src/auth/`) | the token file, the sync key's file | load, refresh, exchange, save, remove | every sync command of the device, Google |
| Export and import (`cli/src/main.rs`, `shell.rs`, `credentials.rs`) | none | print for a shell, as dotenv or JSON; parse and set | a shell, another device |
| Framing (`ipc/src/framing.rs`) | a stream | write and read a length and a payload | client and daemon |
| Expiry (`core/src/vault.rs`, `cli/src/credentials.rs`) | `expires_at` of entries | the two lists of `lk expire` | the vault |
| Keychain and Touch ID (`cli/src/biometric.rs`, `handle_unlock`) | one Keychain item | save (delete and add), load, clear | commands, the daemon, whoever changes the password |
| Cryptography, SDK, arguments, mobile stub | — | — | — |

Hard behaviours, and where they are in the code:

* **No lock between open and save.** A command reads the vault, waits for a
  prompt or derives a key for a second, and writes the whole file back, header
  included. So does the daemon, from memory that may be hours old.
* **Checks on what was read earlier.** `push` decides on a manifest and uploads
  later; `pull` decides on a local checksum and overwrites later;
  `start_daemon` looks at a PID file and spawns later.
* **Two writes that belong together.** Vault and manifest; vault and
  credentials file; device key and the vault wrapped under it; memory and file
  of the daemon; PID file and socket.
* **In-place rewriting.** A pull truncates the vault and fills it, with a backup
  as the net; `device.key`, `credentials`, `sync-state.toml` and `daemon.pid`
  are truncated and filled as well. Only `atomic_write` renames.
* **Requests that fail.** A request to Drive that timed out is sent again; the
  first may have executed, or may execute later, after others have written.
* **Find, then create.** Drive allows many files of one name: two devices that
  find none create two.
* **Clocks.** A client trusts a token until a time it computed itself; Google
  counts from another moment.
* **Waiting.** Clients time out while their request is queued; the auto-lock
  task competes with handlers for one mutex.

What makes each part correct is listed, hazard by hazard with the line where it
bites and the property that would catch it, in `PROJECT.json`.

## 2. The modules

```
ConflictDetector <- SyncEngine <- SyncRefinement (INSTANCE VaultSync) <- MCSyncEngine
                                                                     \- SyncEngine_proofs
UnlockedVault    <- VaultStore <- MCVaultStore
                              \- VaultStore_proofs
Daemon (INSTANCE AtomicDaemon) <- MCDaemon
                              \- Daemon_proofs
DaemonLifecycle  <- MCDaemonLifecycle
                \- DaemonLifecycle_proofs
DriveStore (INSTANCE RemoteStore) <- MCDriveStore
                                 \- DriveStore_proofs
SyncSession      <- MCSyncSession
                \- SyncSession_proofs
Keychain         <- MCKeychain
                \- Keychain_proofs
Interchange, Expiry, Framing <- Formats <- MCFormats
                                       \- Formats_proofs
```

**`ConflictDetector`** has the decisions of `conflict.rs` and `state.rs` as
operators: has either side changed, may a push or a pull go on, who wins by
last-write-wins (with the saturating subtraction of timestamps).

**`SyncEngine`** is `sync/src/engine/sync.rs` under `cli/src/sync.rs`. A device
has a local vault, a backup, a state file; the remote has a vault and a
manifest. A command is cut at each request and around each write of the vault
(`pc[d]` says where it stands): `Fetch…`, `UploadVault`, `UploadManifest`,
`DownloadVault`, `BeginWrite`/`FinishWrite`, `PersistState`, and
`BeginRestore`/`FinishRestore` for what `handle_pull` does on an error. A byte
string is a record: which version of the vault, sealed under which key and
nonce, damaged how. SHA-256 sums are the byte strings themselves. `EditVault`
is any other program that saves the vault meanwhile. The failures are
`RequestFails`, `WriteFails` and `Crash`; `BackupFails` and `CopyFails`, where a
copy of the vault breaks off half way; `RemoveFails`, where the copy cannot be
removed afterwards; and `WriteAndRestoreFail`, which is two. `lapsed` is history: a command
has started since the first fault, or that fault hit the very copy it needed.

**`VaultSync`** is what syncing promises: whole vaults move in single steps, and
a side that changed is given up only if the other changed too.
`SyncRefinement` maps the engine to it.

**`UnlockedVault`** has the vault file as a record — who can unwrap the vault key
and under which key the entries are sealed — and `open`, `recover`, `set`,
`delete` as operators on it. **`VaultStore`** runs commands, a daemon and a sync
on one `~/.lockit`; a command is cut at each access to `vault.lockit`,
`device.key` and `credentials`. The credentials file is the set of entries whose
text it holds: how an entry is written down (`from_utf8_lossy`, a value with line
breaks) is left out. Only commands write it, never the daemon; of two that write
at once, the end of the longer text stays. Faults: a save that fails before or after its
rename, a command that is killed, a power failure that loses what was not
synced. `fresh` and `stale` are history: whether anybody else wrote the vault
since the daemon's unlock, and whether a daemon has saved over that.

**`Daemon`** is `VaultHandler` behind its mutex: `queue` is who holds and who
waits for it, first come first served as tokio promises; `Handle`, `Save`,
`WriteMessage` are the steps of a connection's task, `CheckIdle` is the
auto-lock task, and `Timeout` a client that gives up, which the task does not
notice. **`AtomicDaemon`** is what clients may rely on.

**`DaemonLifecycle`** cuts `start`, `stop`, `run` and a daemon's own start and end
at each access to `daemon.pid`, the socket's name and the process table.

**`DriveStore`** is the backend under `SyncEngine`'s two files. One action is one
HTTP request and what the code does with its answer: `CheckCached`, `Search` and
`Mkdir` are `ensure_folder`; `Find`, `Patch` and `Create` are `upsert`; `Fields`,
`Get`, `Remove` and `List` the other calls; `ListLegacy` to `Drop` the migration.
`Retry` and `GiveUp` are `send_async_with_retry` and the error it ends in. A
request that got no answer goes to `orphans`, and `ExecuteLate` may run it at any
later time. `Trash` is the user in Drive's own interface. The variables under
"what was" only record the past for the properties.

**`RemoteStore`** is what the trait `SyncBackend` promises an engine: a store of
keys; a call takes effect, or tells what it saw, at a moment between its
beginning and its return. Calls are not atomic, so a read may answer with
anything the key held meanwhile; a lost write stays in `lost` until it lands.

**`SyncSession`** is what a sync command does before it syncs: load the tokens,
refresh them or log in, load the sync key. `login`, `logout`, `key` and `set-key`
run beside it. Files are truncated (`Open…`), filled (`Fill…`) and chmodded
(`Chmod…`), and `linked` says whether the file a process has open is still the
one with the name. A token has two ends: `until` for Google, `expires` for the
client. A request for one waits twice, each time up to the timeout: `Refresh` and
`Exchange` are the answer, `Receive` is its body, and only then the clock is read.

**`Keychain`** is `lk unlock` on macOS: `LoadItem`, `LoadFails` and `Prompt` get a
password, `Open` proves it, `Delete` to `AddAgain` are `save_password`, `Send`
tells the daemon. `Recover` and `Replaced` change the vault's password
meanwhile. The vault is only its password here; `VaultStore` has the rest.

**`Formats`** runs pure operators over all small inputs: a vault is printed, and
the text is evaluated by a shell or imported into another vault; expiry lists
are asked for at any time; a stream of messages is cut at any byte and read.
**`Interchange`** has the printers and parsers (`shell_quote`, `get`, `export`,
the dotenv parser, `parse_import_json`) and the shell, **`Expiry`** the
arithmetic at a width, **`Framing`** the length prefix. A text is a sequence of
tokens: characters, and the word `export ` in one piece, since that is the only
word a parser looks for; `$` stands for all special characters that
`shell_quote` lists and treats alike, "return" for white space that `trim`
removes and `shell_quote` does not list. JSON is a tree: `serde_json` writes and
reads it.

A definition named in a comment "Mutant of …" is a plausible bug in the code of
that definition. Each checked property is violated when its mutant is put in;
nothing else uses these definitions.

## 3. The runs

| Run | Bounds | Shows |
|---|---|---|
| `SyncRace` | 2 devices, 2 edits, 2 uploads, 2 faults, all commands at any time | types; a baseline's two checksums are of one vault; without a fault no damaged vault is backed up, uploaded or recorded; one fault leaves a whole copy of each vault until the next command, if it did not hit that copy |
| `SyncSerial` | 2 devices, 3 edits, 6 uploads, one command at a time | the manifest matches the vault; push and pull replace only the baseline they know; success means in sync; refinement of `VaultSync`; devices converge |
| `StoreRace` | 2 commands, daemon, 1 pull or 1 save by a newer lockit; 1 name, value and password; 2 keys | types, every copy of the vault consistent |
| `StoreSerial` | 1 command at a time, 2 names, 2 passwords, 2 keys, 2 events (sync, newer lockit, directory deleted), 1 fault | lost edits, old passwords and overwritten newer formats come from a daemon that knows an older file, and from nothing else; saves that succeed leave no text of an old entry; the device key fits |
| `DaemonRequests` | 2 clients, 3 requests of any kind, 1 fault, timeout 1, interval 1, time 3 | types; memory mirrors the file; an idle vault is locked in time; refinement of `AtomicDaemon`; every request is answered |
| `LifecycleRace` | 3 processes, 2 commands at a time, 4 orders, 1 fault | a torn PID file has a writer; after a race clients reach a daemon |
| `LifecycleSerial` | 3 processes, 6 orders one at a time, 2 faults, numbers reused | one daemon, reachable and managed; orders come true; only stale sockets are removed |
| `DriveStore` | 2 devices, 1 key, 2 contents, 2 calls of 2 attempts per request, 2 faults; Drive new, or with a folder and up to 2 files of one name | types; refinement of `RemoteStore`; migration removes nothing it has not copied; a second folder beside a known one needs a failed request |
| `SyncSession` | 2 processes, 2 commands after whatever came before, 1 crash; tokens live 2, buffer 1, request 1, time 3; 2 attempts, 2 refreshes, 2 grants, 3 keys | a token is taken for valid past its end for no longer than two requests exceed the buffer; one command at a time syncs with the key the user was told |
| `Formats` | values of ≤ 3 of 13 characters; ≤ 3 of 6 names, and five that are no names; times of 8, days of 2, 0–5 days' warning; bytes 0–1, 4-byte lengths, limit 2, ≤ 2 messages cut at each byte | a shell gets each value to the character; an import brings what an export printed; nothing expired or about to expire goes unlisted; a peer reads what was sent |
| `Keychain` | 3 processes, 3 passwords, 4 commands, 1 vault from elsewhere, 1 fault | what is kept opened the vault; racing saves leave an item |
| `StoreTornKey` | 1 power failure | **violated**: `lk recover` cannot get past the torn device key it is recommended for |

Why the bounds are enough. Conflicts need two devices and, on each, an edit the
other does not know: two edits; a third lets a conflict follow a resolved one.
Two uploads of one push each interleave in every way. A race for the vault file
needs two writers with different headers, that is a vault made or recovered
between another's open and save. The mutex needs a holder and a waiter besides
the auto-lock task. Two starts and a stop meet at every stage of a daemon's
coming up. Time in `DaemonRequests` covers an unlock, a request just before the
check, and the check after it. On Drive the interference is between two calls,
of which one may be retried and its first attempt land last; one name is enough,
because requests name one file each and listings are sets. Tokens need an answer
and a body which are each as slow as the buffer, and a token that ages by its lifetime. Three characters
make every pair of quotes with something between; a quote, an escape and a blank
meet in every order; the names that are none show that the properties need their
exception. Four bytes of two values hold lengths up to 15, and a message of 17
bytes is one whose length is cut (the property excepts it); 3 is over the
limit. For the Keychain, two saves need a third command
that clears or changes the password between them.

`MaxEdits`, `MaxUploads`, `MaxFaults`, `MaxKeys`, `MaxEvents`, `MaxTime`,
`MaxRequests`, `MaxOrders`, `MaxCalls`, `MaxGrants`, `MaxCommands`,
`MaxChanges`, `MaxCrashes` and `MaxCredentials` (which is the program's own limit, made small)
are all the bounds there are; they stop users and the environment, never a
program in mid-course. (Three exceptions: `MaxKeys` also stops the making of a
third device key, `MaxGrants` Google at a second login, and `MaxTime` the
clock.) Runs do not check deadlock because at a bound nothing is left to do.

**Serial and race.** Several properties are promises to a user who waits for one
command before the next; they are checked in the serial runs. In a race they
fail, because nothing locks: a push that fetched the manifest before another
device uploaded overwrites that upload; a pull overwrites an edit made while it
downloads; two starts make two daemons; an `lk add` opened before `lk recover`
brings the old password back. Some of this a document denies (§5). The race runs
check what must hold all the same.

A daemon needs no race to be late: it holds the vault it read at its unlock
while commands come and go. `SerialSpec` of `VaultStore` has such a daemon, and
`NoLostUpdate`, `PasswordIsTheLastSet`, `NewerFormatKept` and `VaultOpensHere`
except its save (`StaleSave`, `stale`); nothing else is excused for being late. In the same way
`SyncsWithTheToldKey` speaks of commands that neither overlapped nor died, and
`RemoteStore` promises nothing once there are two folders.

**Fairness.** `SyncSerial`: the process of a running command goes on (weak
fairness of `Proceed`), and each device runs `lk sync` again and again (strong
fairness of `StartSync`, since it waits for others to finish); edits, pushes and
pulls are owed nothing, and behaviours cut off by the bound on uploads are
excluded by the property itself. `DaemonRequests`: tokio polls every task that is
ready, and its mutex is fair. `LifecycleRace` and `LifecycleSerial`: the kernel
runs every process and delivers every signal. No user, fault or clock is fair,
and the other runs check safety only.

## 4. The proofs

Proved, for any number of devices, connections, commands, processes, keys,
names and values and any bounds: the types of all models but `Formats`, which
has no variables of a type worth a name, every safety invariant and action
property that a passing run checks, and the three refinements. Assumed are the named assumptions on the constants alone
(`SyncAssumption`, `TimestampsAssumption`, `PublicationAssumption`,
`StoreAssumption`, `VaultAssumption`, `DaemonAssumption`, `LifecycleAssumption`,
`DriveAssumption`, `SessionAssumption`, `NoneAssumption`, `KeychainAssumption`,
`FormatsAssumption`, `ByteAssumption`, `WidthAssumption`).
They say that limits are numbers, that `None`, `Torn` and the like are not
data (`Option` and a failed parse are told from values), that a vault is finite and its names
and values are texts, and that a byte has more than one value. Four theorems have a hypothesis as
well, named below.

Each model has an inductive invariant `IInv`, some more of them; a proof has one
lemma or step per action, lemmas for what actions have in common, and a theorem
at the end that combines them. What is proved of `Spec` holds of the specifications
with fairness too. Where a run has its own next-state relation, for users who
wait for each command, the theorem is about that (`SerialSpec`,
`FairSerialSpec`): these promises fail in a race.

**`SyncEngine_proofs`**, first part: devices, edits, failures and crashes
interleave as they like.

* `BaselinesAreSound` — each baseline has two checksums of one vault. This
  is not inductive: the step that records must know that the blob it names
  opens to the plaintext it holds. `IInv` adds what a command holds at each step
  (`HoldsOperands`), that this is plaintext (`HoldsPlaintext`), and that the
  blob beside it opens to it (`BlobOpens`). It holds with a shared key, with
  different keys, and with none.
* `DamageComesFromFaults`, `OneFaultSparesACopy` — before the first failure only
  a vault that a pull is filling is damaged, and a whole copy of it is on the disk;
  after one failure, and what its command does about it, there still is one
  until the next command starts. Two exceptions are in the property's words: the
  failure of the copy a pull makes just before it writes, since
  `handle_pull` restores what is left of that copy (§5), and the first vault of
  a device, of which there is no copy. `DamageInv`
  adds that what a command holds in memory is whole, and that what a torn
  vault is being filled with is what the command holds; else a backup or an
  upload could carry damage on.

**`SyncEngine_proofs`**, second part: one command at a time, no edit while it runs,
no failure.

* `ManifestIsUpToDate`, `PushesAreNotBlind`, `PullsKeepEdits`, `SuccessIsInSync` —
  the conflict checks do what they are for. `CommandInv` says, step by step,
  what a command has learnt that is still true when it acts: the manifest it
  fetched is the remote vault, the plaintext it read is the file, and a side is
  replaced only if it did not move or the other did too (`MayUpload`,
  `MayDownload`).
* `Implementation` — the engine implements `VaultSync`: an upload of a manifest is
  the moment a vault is published, the end of a write the moment one is
  adopted, an edit is an edit, and everything else is a stutter.
  `RefinementInv` adds that a command goes by the baseline on disk until it
  records another, that the backup is the vault it stands for, and that the
  remote is sealed under the shared key. The hypothesis `OneKey` says that the devices were given
  one sync key, which is what `lk sync set-key` is for: with two keys a device
  cannot read what another published, and syncing promises it nothing.

**`VaultStore_proofs`**

* `VaultsAreConsistent` — whoever overwrites whom, password and recovery phrase
  lead to the key of the entries. `IInv` extends consistency to every copy in a
  command or the daemon, since any of them may be the next file. This is why
  `save_to_internal` may write a stale header without corrupting anything: it
  writes it with its own entries.
* One command at a time, beside the daemon, syncs and newer versions:
  `OldPasswordsStayDead`, `TheDeviceKeyFits`, `NoEditIsLost`,
  `NewerVaultsAreLeftAlone`, `SuccessLeavesNoStaleText`. `SerialInv` says what each
  command holds at each step compared with the files it read (`HoldsCurrent`:
  the device key it loaded is the one on disk, the header it will write is the
  file's, its entries are the file's with its edit), and that the daemon's
  copy is the file until somebody else has written (`DaemonCurrent`). After that
  its saves bring the old header and the old entries back: the first four theorems
  say that nothing else does.
  `SuccessLeavesNoStaleText` needs no exception, since a command writes the
  credentials file of the vault it has just saved.

**`Daemon_proofs`**

* `MemoryIsTheFile` — `IInv` says that whoever saves has the mutex and that its
  edit is all that memory has beyond the file its predecessor left
  (`SavingOK`, `VaultOK`): releasing the mutex between edit and save would
  break it.
* `IdleVaultIsLocked` — `TimerOK` says that the auto-lock task never sleeps past
  its check, and that the next check comes before the timeout and one interval
  have passed since the last request.
* `Refinement` — the daemon implements `AtomicDaemon`; the step in which a handler has
  its answer is the one in which the request takes effect.

**`DaemonLifecycle_proofs`**

* `TornPidFileHasAWriter` — without failures and reuse of process numbers, a PID
  file that does not parse is about to be filled. `IInv` says why no stop kills
  the writer: a process that has not written its number is not known to
  anybody (`NewcomersUnknown`), and whoever has the file open is writing it
  (`OpenedByWriters`).
* One order at a time, crashes and reuse included: `OneDaemonServes`,
  `TheDaemonIsManaged`, `NoSocketIsStolen`. `SerialInv` follows the one process
  that may be alive: from when it has written its PID file until a SIGTERM
  reaches it the file has its number, from when it has bound the socket has its
  name (`DaemonInv`), and a command beside it has read that number. The
  hypothesis `"run" \notin Orders` is the run's too: `lk daemon run` does not look
  for another daemon, so with it two daemons serve, in any order of commands.

**`DriveStore_proofs`**

* `NothingIsLostInMigration` — a lost `Drop` may execute at any time, so `IInv` says
  of each request still under way that what it drops is stored
  (`RequestGood`), and of each call that it holds what was in the old place
  (`CopiesWhatWas`), beside the types and places of its operands.
* `OneFolderUnlessFailed` — while nothing has failed, a call that is about to make
  a folder knew of none (`KnownInv`).
* `Implementation` — the backend implements `RemoteStore`. `SeenInv`: while there
  is one folder, what a call holds — the hit it found, the contents or fields it
  read — is something its keys have held since it began (`SawTruly`). The proof goes
  through each request that may run late, since one may change any file under any call.

**`SyncSession_proofs`**

* `ValidTokensAreNearlyAccepted` — whoever saved the token and however slow the
  answer and its body were, `is_token_valid` passes a token past its end for
  less time than two timeouts exceed the buffer. This is not
  inductive: a token may be in a file with any two ends. `IInv` adds that a
  client believes in a token at most two waits past its end (`BeliefBounded`), and
  that a process that waits, for either, has not waited longer than the timeout.
  In the code timeout and buffer are both 30 seconds, so this is half a minute in
  which a refused token is sent; with a buffer of two timeouts it would be none.
* `TheToldKeyIsUsed` — `KeyInv` says that a key is made only when the user was told
  none, and that the key a command has read is the one told.

**`Keychain_proofs`**: `KeptWereProven`, `TouchIdIsTrue`, `SavedStaysFound` — `IInv`
adds that a command about to save holds a password that opened the vault once,
that one which says touchid holds one the Keychain has kept, and that a typed
password begins without that word. `SavedIsFound` needs nothing more: whoever
deletes the item is on its way to add it. `TouchMeansKept` and the types of
`Keychain`, `SyncSession` and `DaemonLifecycle` are proved and not run.

**`Formats_proofs`**: vaults of any size, texts and messages of any length. What is
proved is what recursive functions compute, and the library's induction
theorems cannot be used with these provers. The module starts with an induction
they can use: a *set* of numbers that has 0 and every successor is `Nat`
(`NatInd`, from the well-foundedness of `<`). A fold is then the end of a run
through a step function (`Run`, `Fold`: it exists, is unique, and a fold over
`s \o t` goes on where the one over `s` ended), and `FoldLeft` and `FlattenSeq` of
the community modules, which recurse over sets of indices, are such folds
(`SetFoldIs`, `FlattenIs`).

* `ShellsGetTheValues` — the shell is a machine that reads one token at a time.
  `ReadShellQuote` follows it through a quoted value: whatever the value, the
  machine is back in the mode "word" behind it and has the value, to the
  character. Lines follow each other (`ReadExportLines`), and assignments to
  names that differ keep their values (`PutAll`).
* `ImportsBringTheExport` — a `Piece` is a text that is lines the parser takes,
  each once an entry of the names it stands for; a line of `export` is one
  (`PieceOfEntry`: after trimming, splitting at the first `=` and stripping
  quotes the key and value are there again), comments and blank lines are one
  of nothing, and pieces of different names make a piece (`PieceConcat`). So the
  parser finds each name once, whatever the order of printing, and setting
  them one after another (`SetAll`) leaves the rest alone. JSON needs no
  exception: its tree brings any name and value to its place.
* `PeersReadWhatWasSent` — `StreamInv` says that what was read are the first
  messages, and that what is left of the stream begins behind the last of
  them; `ReadFrame` says what one frame reads as, whole or cut anywhere, and
  rests on `DecodeEncode`: four bytes give back every length below `BYTE`
  to the fourth.
* `ExpirySilenceIsSafe` — from the definitions, for any width and time. It leaves
  open whether a credential is expired at its last second, on which the code
  and its comments differ (§5).

The exceptions in these properties are real: `NamesStayApart`, since names are
printed in upper case; `WellNamed`, since nothing checks a key (`A=B`, an empty one,
one with a blank) nor the profiles of a JSON import; `Carried`, since dotenv has no
escape that its own parser reads. `FormatsAssumption` allows all of these.

**Only model-checked**: liveness (`EventuallyInSync`, `EveryRequestIsAnswered`,
`RaceHasAWinner`, `OrdersAreCarriedOut`), since fairness and ENABLED are out of the
prover's reach.

## 5. Disagreements between code and documents

One has a run, above: the error about a damaged device key (`cli/src/vault.rs:45`)
recommends `lk recover`, which stops at the same error (`StoreTornKey`).

The models show these too, and no run is kept for them. The properties named
have an exception for them, or are checked where they cannot happen; checked
without, by `Spec` or with the exception taken out, TLC finds each in a few steps:

* After recovery the "old password should no longer work" (`core/src/vault.rs:667`, a
  test); a daemon unlocked before it brings it back with its next save, and with
  it the entries of that time (`~stale` in `PasswordIsTheLastSet`, `StaleSave` in
  `NoLostUpdate` and `NewerFormatKept`). `lk recover` does not tell the daemon.
* `CHANGELOG.md:31-32` and `:44` say that commands no longer write the plaintext
  credentials file, `SECURITY.md:55` that this was "removed as of 0.1.0";
  `save_and_sync` (`cli/src/main.rs:166`) writes it, and its own comment says so.
  `NoStalePlaintext` says only that what it has written is not out of date.
* `encrypt_and_upload` says "Upload vault + manifest atomically"
  (`sync/src/engine/sync.rs:157`); they are two requests, and a command that
  ends between them leaves a manifest of another vault (`ManifestMatchesVault`).
* `CHANGELOG.md:16` says push "refuses to overwrite newer remote", and the comment
  on `pull` (`sync.rs:297`) that it fails "if local changed since last sync"; both
  look once and write later (`NoBlindOverwrite`, `PullKeepsEdits`).
* `CHANGELOG.md:40-41` says the daemon's singleton check uses a `connect()` and has no
  race; `start_daemon` reads the PID file, and two starts can both go on
  (`OneDaemon`). `bind` says it removes a stale socket "from a previous run"
  (`ipc/src/server.rs:47`); it removes one that is in use as well
  (`OnlyStaleSocketsRemoved`).
* `is_token_valid` is to say whether a token is "still usable"
  (`sync/src/auth/token.rs:22`). The client waits up to 30 seconds for an answer and
  up to 30 for its body before it reads the clock, and its buffer is 30: for up
  to half a minute it passes a token that Google refuses (`ValidIsNearlyAccepted`).
* `expired_credentials` is to return credentials whose end is "before
  `now_unix_secs`" (`core/src/vault.rs:353`; `:49` says "after which"), and returns
  those that end now as well (`SilenceIsSafe` takes either).

These are beside what the models' properties say:

* `replace_file_with_backup` (`sync/src/engine/sync.rs:444`) copies the vault over the
  backup that `handle_pull` has just made. If that copy breaks off, `handle_pull`
  restores what there is of it over a vault nobody had touched: one
  failure takes both (`CopyFails`). And a pull that died leaves a good backup,
  which the next pull overwrites with the broken vault before anything else.
* `replace_file_with_backup` (`sync/src/engine/sync.rs:447`) removes the backup
  whether or not restoring from it worked; a restore that fails leaves neither.
* An edit through the daemon never reaches the plaintext credentials file, which
  says of itself that it is "auto-generated".
* `CHANGELOG.md:38` says the daemon's runtime is `new_current_thread()`; it is
  `new_multi_thread()` (`cli/src/daemon.rs:271`).
* The comment on `delete_saved_password` (`cli/src/biometric.rs:225`) says it is for
  when the vault's password changes; only `lk unlock --clear-biometric` calls
  it. After `lk recover`, `lk unlock --biometric` stops at the old password,
  without the fallback to a prompt that it has when there is no item.
* `sync/src/engine/conflict.rs:64`: a device's first push overwrites whatever is
  on the remote ("upload is safe").
* `recover_with_mnemonic` (`core/src/vault.rs:204`) does not look at the
  version, and turns a vault of a newer format into one of its own; `open`
  refuses such a vault. `NewerFormatKept` excepts recovery for this reason.
* The core design (`docs/superpowers/specs/2026-03-24-lockit-core-design.md:67`)
  says that after a failed save the "original file is unchanged"; an error from
  syncing the directory comes after the rename (`SyncDirFails`).
* `stop_daemon` signals whatever process has the number in the PID file.
* `lk sync status` compares a checksum that begins with `sha256:` with one that
  does not, so the remote never "matches last sync".
* The module comment of `google_drive.rs` says that old data is migrated
  automatically; nothing calls `migrate_from_appdata`. If it were, a migration
  that found no file could overwrite one uploaded meanwhile.
* `ensure_folder` does not look at the status of its search: a refusal reads as
  no folder, and a second one is made (`SearchRefused`). So do two devices that
  upload for the first time at once. Nothing merges them.
* No command checks a key. One with `=`, a blank or nothing in it is stored and
  printed; a shell that evaluates `get --export` then fails or sets another
  name, and `lk import` refuses the text or splits the key.
* `lk export` as dotenv is called a backup (`cli/src/main.rs:1196`); it leaves out
  the names of profiles and the case of keys, and a value with a single quote
  or a line break does not come back. JSON brings all values back, no expiry
  dates. Import of several profiles does not validate their names.
* `ensure_logged_in` says it retries transient errors; it retries all.
* A crash in `save_tokens` leaves a file that stops every sync command until
  `login` or `logout`; a refresh that is saved after a `logout` logs in again. A
  torn or empty `sync-key.txt` is silently no key, and `lk sync key` never makes
  another.
* The message about a missing baseline recommends `lk sync push --strategy`
  (`cli/src/sync.rs:213`), an option `push` does not take.
* A large `--warn-days` wraps in a release build, and then nothing is listed as
  about to expire.
* The daemon's SetCredential does not ask `check_vault_size`, every command does.
* An idle vault may stay open for the timeout plus a check interval;
  `SECURITY.md:51` says 15 minutes, `docs/ARCHITECTURE.md:90` configurable.

## 6. Not modelled, and why

* **Cryptography**: by its contract only. **MessagePack, JSON, date parsing**:
  libraries.
* **Two sync commands on one device** with their engine: at most one runs in
  `SyncEngine`. In `SyncSession` they do overlap, up to where the engine starts.
* **The vault key of sync being changed** (`lk sync set-key`) under the engine: a
  device keeps its key there.
* **Pages of Drive listings, tokens that expire in mid-command** (the request
  then fails, which is a fault of `DriveStore`), **PKCE and the state string.**
* **CSV imports** of 1Password and generic tables: their columns are found by
  comparing header strings, a matter for tests.
* **Argument parsing, printing, the macOS calls themselves, the SDK wrapper, the
  mobile stub, scripts and CI**: no state that the other parts depend on.
* `change_password` is called only by tests.

## 7. Plan

1. Sync engine and conflict detector, abstract `VaultSync`, proofs of its race
   and serial properties and of the refinement. *Done.*
2. Vault store and its proofs, race and serial. *Done.*
3. Daemon, abstract `AtomicDaemon`, proofs and refinement. *Done.*
4. Daemon lifecycle and its proofs. *Done.*
5. Drive backend, abstract `RemoteStore`, proofs and refinement. *Done.*
6. Tokens and the sync key, and their proofs. *Done.*
7. The Keychain and its proofs. *Done.*
8. Export, import, expiry, framing over all small inputs, and their proofs for
   all inputs. *Done.*
9. Left: two sync commands on one device in `SyncEngine`; the CSV imports.
