# brokre in TLA+

Specifications of [brokre](../src/README.md), a local credential broker: it
stores passwords in an encrypted vault and runs `ssh`, `mysql`, ... with the
password typed into the prompt, so that the caller (a human, or an AI agent
through MCP) never sees it. Rust, about 22 000 lines, plus a JavaScript launcher.

There is no server that everybody talks to. Every `brokre ...` command, the MCP
server, the manage HTTP server, the injector and askpass helpers and the
detached browser servers are separate processes, and they meet in files under
`~/.brokre`: the vault, the audit log, the keys, the bastion session, the
manage record. Most of what is hard about brokre is what these processes do to
each other through those files, and that is what the modules are about.

Paths below are relative to `../src/` (the crate is in `../src/src/`).

## Inventory

| Component | Code | State | Operations | Talks to |
|---|---|---|---|---|
| Bastion session and gate | `src/bastion/{session,gate,unlock_coord,mcp_gate,key,policy}.rs`, `src/manage/api.rs` 384–617, `src/cli/bastion.rs` | `run/bastion_session.json` (unlocked at, last active, limits), `bastion/key.json` (verifier), `bastion/policy.json` | unlock, lock, set-key, check (`is_unlocked`), renew (`touch_session`), the gate in its modes | CLI exec, MCP tools, manage API, browser |
| Vault store | `src/vault/store.rs` | `vault/store.jsonl.enc`, its temporary file, its lock file | list, get, get_by_id, insert, update, delete | everything that uses a credential |
| Vault callers | `src/vault/service.rs`, `src/cli/{exec,rm,reveal,injector}.rs`, `src/manage/api.rs` 865–978 | copies of records, for as long as a session lasts | exec, save, create, rotate, meta edit, remove, inject | vault store, key store, audit log |
| Key store | `src/vault/keychain.rs` | `.master_kek`, `.audit_hmac`, or two keyring entries | get or generate | vault callers, audit log |
| Record encryption | `src/vault/crypto/*` | none (DEK wrapped by master key and by reveal key) | encrypt, decrypt for exec, decrypt for reveal | vault callers |
| Audit log | `src/audit/{logger,query}.rs` | `audit/audit.log`, HMAC chain | append, verify, list | every operation |
| Manage server | `src/manage/{server,instance,api,auth}.rs`, `src/cli/manage.rs` | in memory: token, idle clock, expired flag, login failures; on disk: `run/manage.json`, `run/manage.lock` | start or find, register, unregister, idle expiry, HTTP routes | browser, gate, CLI, MCP |
| Port forwards | `src/tunnel/{forward,forward_relay}.rs` | `run/forwards.json` and a socket per forward, child `ssh -N` processes | ensure, list, stop, auto-forward | exec, tunnel agent |
| Session relay | `src/tunnel/{protocol,agent,client,session_relay}.rs` | two frame streams over an ssh pipe, a PTY and a child on the bastion | hello, exec, data, signal, resize, exit | routed exec |
| Elevated session pool | `src/mcp/elevated_session.rs`, `src/runtime/{pty_session,elevated,session_markers}.rs` | live root shells by (alias, mode, user), their clocks and output buffers | run (reuse, new, close), sweep, shut down | MCP server, injector |
| PTY runtime | `src/runtime/{pty,prompts,pty_drain,injector_child}.rs` | scan window, injection state machine, raw mode | run a child under a PTY, inject, capture | exec, injector |
| Pipe and askpass runtime | `src/runtime/pipe_exec.rs`, `src/cli/injector.rs` | askpass state and owner files, ssh mux sockets | run, prune, one secret per prompt | exec |
| ssh argument handling | `src/runtime/ssh_identity.rs`, `src/bastion/route.rs` | temporary key files, mux control paths | rewrite argv, materialise keys, quote, parse routes, detect loops | exec, transport |
| Child guard | `src/runtime/child_guard.rs` | registered children and temporary files, signal handlers | register, unregister, terminate all | every runtime |
| Bastion transport | `src/bastion/{transport,discover,registry,list_policy,probe,model}.rs`, `src/cli/list.rs` | registry file, probe cache | run on a bastion, discover, probe, list, enable, disable | gate, exec, MCP list |
| MCP server | `src/mcp/{server,exec_normalize}.rs` | the pool above, an embedded manage server | tools: list, exec, exec_elevated, setup, audit, policy | all of the above as subprocesses or in process |
| CLI | `src/main.rs`, `src/cli/*` | none of its own | argument parsing, dispatch | all |
| Profiles and web UI | `src/manage/{profiles,onboard,browser}.rs`, `src/manage/static/*` | none | field metadata, pages | manage server |
| ssh pool | `src/runtime/ssh_pool/*`, `src/runtime/ssh_rpc.rs` | sidecar daemon, socket, pid file | none: nothing calls it | — |
| Hardening and terminals | `src/security/*`, `src/utils/*` | process flags | set limits, mask, prompt | all |
| Launcher and install | `packages/brokre-mcp/*`, `install.sh`, `src/cli/upgrade.rs` | installed binary and version stamp | install, upgrade, configure clients | none at run time |

What makes each correct:

* **Bastion session.** A gated call is admitted only while a human's unlock is
  in force: not past its maximum lifetime, not past the idle limit, not after a
  lock. A wait for an unlock ends.
* **Vault store.** An atomic map: no lost edit, no alias twice, a crash leaves
  the old vault or the new one.
* **Vault callers.** What a stale copy writes back must not mix credentials,
  undo a rotation or bring back what was removed; a session gets the password
  of the credential its arguments come from.
* **Key store.** One key, for good.
* **Audit log.** The chain verifies and lists whatever interleaves and dies.
* **Manage server.** At most one standalone server; nobody starts a server, or
  removes the record of one, on account of a server that answers, as far as the
  code can help it; idle servers expire.
* **Session relay.** All of the output, then the exit code, then the end.
* **Elevated pool.** An answer is of the command that was asked; no session
  outlives its limits; a command that timed out leaves nothing behind.
* **Child guard.** No child outlives its brokre, and no call ends the children of
  another.
* **PTY runtime.** A secret is typed at the prompt that asks for it and nowhere
  else; no prompt that a run can serve is left standing; the run ends.
* **ssh argument handling.** Whatever is inserted into the line, ssh connects to
  the host and runs the command that were asked for.
* **Bastion transport, MCP server.** A list says of each entry what is true of
  it, whatever order the answers come in; every call is answered.
* **Port forwards.** State describes live forwards; two calls do not start two.

The hazards, each at its line, are in `PROJECT.json` under `hazards`, with the
properties that cover them.

## Modules

| Module | Models | Kind |
|---|---|---|
| `BastionSession` | the session file, the gate in its modes, the opener's lock, the unlock wait | detailed |
| `VaultMap` | what the vault store promises | abstract |
| `VaultStore` | the vault file, the sidecar lock, the temporary file | detailed, implements `VaultMap` |
| `VaultClients` | the callers and their stale copies, over `VaultMap` | composition |
| `KeyStore` | `get_or_init` with file and keyring | detailed |
| `AuditLog` | append, verify and list | detailed |
| `SessionRelay` | client and agent of a routed session, their threads, two frame streams, the PTY | detailed |
| `ManageInstance` | the manage servers of `brokre manage` and `brokre mcp`, their record and start lock | detailed |
| `ElevatedPool` | the pool of root shells, the calls that share it, the sweeper, the shells | detailed |
| `SshArgs` | every rewriting of an ssh, scp or sftp line, and what OpenSSH makes of the result | operators |
| `ExecRuntime` | one exec of a saved record in pipe mode: the line (by `SshArgs`), the files of its secrets, ssh and its askpass helper, the child guard, SIGTERM, the caller's deadline, another brokre's clean-up | composition |
| `PtyInject` | one run on a pseudo-terminal: scanner, injector, main loop, the program | detailed |
| `BastionList` | lists, MCP calls, probes, children on bastions, the registry's editors, the manage server's request thread | composition |
| `BastionSession_proofs`, `VaultClients_proofs`, `ManageInstance_proofs`, `SessionRelay_proofs`, `ElevatedPool_proofs`, `BastionList_proofs` | theorems about the module of that name | proofs |
| `VaultFiles_proofs` | theorems about the files of the vault: `VaultStore`, `KeyStore`, `AuditLog` | proofs |
| `Runtime_proofs` | theorems about what runs a program: `ExecRuntime`, `PtyInject` | proofs |
| `MC...` | symmetry, extra model values and the sets of cases for TLC; the constants are in the `.cfg` files | instances |

### BastionSession

*State.* The session file is `session` (absent, torn, or the record of
`bastion/session.rs` 12–17). Each thread has a `pc` in the gate, the copy it
loaded and the write it has in hand. `fs::write` is two steps, so a reader may
see the torn file between them, and a crash may leave it. The clock is a
counter that any step may fall behind. Keys, passphrases and HTTP are left out:
an unlock request is one that got past them.

*Actions.* One per step between two accesses of the shared files:
`is_unlocked` (load, compare, clear), `touch_session` (load, truncate, write),
the opener's lock, the poll loop with its deadline, the TTY prompt, the manage
routes, `bastion lock`, and crashes. Each gate mode is the path its branch of
`gate.rs` takes. A thread that asks a manage server (`find`, `ask`) waits for it:
no read there has a timeout, and the poll looks at its deadline between rounds
only.

*History.* An unlock has a number (`uid`); `granted`, `lastUse`, `saved`,
`revoked` and `carried` remember of it when it was given and used, and who had it
in hand when it was revoked. No guard reads them.

### VaultStore, VaultMap, VaultClients

`VaultStore` keeps files and in-memory lists as sets of records; the order of
lines matters only for an alias with two records, which `UniqueAliases`
excludes. `list`, `get` and `get_by_id` are one request, since both gets search
what list returns. `write_all` is `OpenTmp`, a `WriteLine` per record, `Rename`.
`Abort` is an I/O error or a death at any step.

`VaultStore` implements `VaultMap` with `Contents` as the refinement mapping:
everything is a stutter but the rename. `VaultClients` then uses the map, so a
caller's get, insert, update and delete are atomic there, and nothing else is:
between the get and the write of a caller any number of steps of others happen.
A password is `[of, version]`: the credential it was set for and how often it
was rotated. Labels, host and `last_used_at` are left out: writing them back
writes the whole record, which is the point.

### KeyStore

One account. `mode` is the environment of a call: `file`
(`BROKRE_ALLOW_FILE_KEYCHAIN`, and always on macOS and, by
`prepare_platform_storage`, on Linux unless `BROKRE_USE_KEYCHAIN` is set),
`ring_only` (`BROKRE_USE_KEYCHAIN`), `ring` (neither: Windows). Every call has
an environment of its own; the initial states range over all of them, and the
properties name the environments they are about.

### AuditLog

The log is a sequence of lines of events; an append writes the event and then
the newline, either may be the last thing its process does, and a write may be
cut short. `verify` and `list` take no lock, so they are predicates of every
reachable state and not processes. The HMAC covers the event and not its
`prev_hmac`; it is the event's number here. All events are signed with one key,
which is `KeyStore`'s business.

### SessionRelay

The two pipes hold writes, not frames: the agent writes a frame as its length
and its payload, and its writer's mutex (`wlock`) is what keeps the frames of
the pump and of the main thread apart. Pieces of output and input are
numbers, so that "nothing missing, nothing twice, in order" is a prefix. The
threads are the client's main and stdin threads and the agent's main thread,
pump and input sink; the inner brokre is a child that writes, reads and ends as
it likes. Pipes hold `Cap` writes, so that a full pipe blocks its writer. Losing
the connection and the death of either process are actions.

`session_relay.rs` does not join its pump before it writes the exit frame: a
session may lose the end of its output and still return the right code. The
module has that behaviour; `StreamsInOrder` promises a prefix of the output and
no more, and whole frames and the input in order.

### ManageInstance

A server is a process and a number; its port and token are that. The record is
a server, absent, or blank between `register_instance`'s truncate and its
write. `find_running_instance` is `ReadRecord`, `Probe`, `Remove`, and `look`
says on whose behalf: the first look of a call, the look under the start lock
(for `brokre mcp`: the look in `refresh_live_manage`), or a refresh for a call
that waits for an unlock. `busy` are the servers whose one thread is at a request
that waits for a child, or for the server itself (`api.rs` 413); who asks one of
them waits until it is free again. `open` keeps track of whose open file still is the
record, since a removal makes the write of another go to an unlinked file.

*History.* `fresh` holds the calls and shutdowns that began after the record was
last written. `RecordKept` uses it to say exactly what remains of "a live
server stays on record", which the code does not guarantee: a removal is by
name, so a call that read the record of a server that is gone may remove the
one written since. In the same way an `mcp` whose record could not be written
keeps a server that nobody knows, until it expires.

### ElevatedPool

A call goes through the steps of `ElevatedSessionPool::run` with the pool's
mutex in `lock`. `job` is what it has typed into its session: the hygiene
command of a new session, or its own. A session's shell reads lines, runs
jobs, and writes marker and output lines to `buffer`; a job or a login prompt
may eat a line that was typed for the shell. What the reader thread has yet to
read counts as not yet written, which no one can tell apart: the shell is
asynchronous. `quiet` and `old` stand for the two limits that a session may
have passed, so that no clock is needed; a deadline may pass at any time.

The end marker counts only at the beginning of a line, and the shell prints it
right behind the command's output. A command whose last line has no newline
(`printf x`) is therefore never answered: it times out and its session is
dropped. `JobEnds` has that case, and `EndIsSeen` excepts it. `LimitsHold` is
two things at once: a call returns, and a session that is idle, old or dead ends.

### SshArgs and ExecRuntime

*Arguments* are records that say what the code looks for in a word: its kind
(option letters, option with its value attached, setting, `--`, word), its
letters, its value (none in `-o ControlMaster`), and for a word the class it is
sorted in by its text (launcher, address,
sudo, interpreter, reader of its input, ...). `SshArgs` has the operators that
work on sequences of them: which options take the next word, where the target
is, the merge of saved and typed words, the insertion of `-i`, `-O`, `-n`,
`-tt` and of mux settings, the removal of mux settings, the line of a route,
the choice between pipe and terminal. Next to them, external, stands how
OpenSSH itself reads such a line (`SshParse`) and which of two settings counts
(`Effective`), so that "the line still means the same" can be stated.

*The exec* goes from the gate through the preparation of its line, key file and
askpass files to the spawn of ssh, its registration, the wait and the clean-up,
one action for each step something can come between: SIGTERM (the handler runs
on the main thread, takes the mutex of the registered groups, and gives ssh its
grace), SIGINT and SIGHUP (no handler: `Unhandled`), the caller's deadline with its own grace (`run_with_timeout`), the
askpass helper that ssh starts for each secret, the end of the shared
connection's master (`elsewhere` are those of other hosts, which `PruneMux` may end),
and the clean-up of a brokre that reads the owner file
before the pid is in it. A route re-enters the exec with the line it builds.

*History.* `struck` remembers where the main thread was when SIGTERM came, or
that another signal ended the exec;
`other = "misled"` that a clean-up read the owner file while it was empty.

### PtyInject

What the program prints is a sequence of tokens, one for each text that the
scanner recognises: the prompts (host key, key passphrase, login, second
login, sudo, su), the banner of a login, the end of the connection. The scanner
is its loop of `pty.rs`: poll, read, look at the window, arm, and `rescan`.
The injector takes the pending request, lets the program settle, spawns the child that types,
drains and records. The main loop opens the gate of the user's input, forwards
it, hears of ^C, and tears the run down. They share the atomics of the source
and nothing else, so every step between two accesses is an action. A `Case`
says how the run was started (saved record, outer hop, route with two records,
behind brokre on the bastion, `sudo -i`, no record), which secrets the program
will ask for, whether they are right, and what the user types; each case is an
initial state.

*History.* `typed`, `byHand`, `clean`, `fed`, `served`, `accepted` and `lost`
say what happened to prompts and input; no guard reads them.

### BastionList

A list's worker asks the gate, probes the vault's records with `Concurrency`
threads over two work queues, reads the registry, and asks each bastion through
a `brokre ssh` child that has a gate of its own and a deadline. In an MCP server
the answer has a timeout and the worker does not: it goes on after its list was
answered. `group` and `tracker` are who ends whose children. The editors of
`bastions.json` load, truncate and write like `fs::write`. The manage server has
one request thread; a request for a synchronisation makes that thread a caller
with a child too, whose gate polls the same thread. Statuses are facts about
records (`[of, source, up]`), so that an answer which pairs an entry with the
status of another is told from a true one. A record is told by the way to it, its
profile and its name (`from`); what the code addresses it by (`addr`) leaves the
profile out. The inside of the gate is
`BastionSession`'s: here it is open, shut, or waited for.

## Runs

| Run | Bounds | Shows |
|---|---|---|
| `bastion_safety` | 2 threads, `mcp_exec`, limits 1 and 2, poll 1, clock to 3, 2 unlocks | admission limits and the finality of a lock |
| `bastion_returns` | 2 threads, all six modes, limits 0 and 1, clock 1, 1 unlock | every gated call ends, unless a manage server it asks never answers (fair) |
| `vault_store` | 2 processes, 2 aliases, 2 bodies | the store is an atomic map and frees its lock |
| `vault_clients` | 2 callers, 2 aliases, 3 credentials, 1 rotation each | stale copies mix and revive nothing |
| `keys` | 3 calls in any environments, 3 keys | the key settles; `BROKRE_USE_KEYCHAIN` keeps the key out of files |
| `audit_log` | 3 processes, 4 events, 1 of them cut short | the chain verifies, nothing is missed |
| `session_relay` | 2 pieces each way, pipes of 2 writes, codes 0 and 2 | output, input and exit code arrive as they should or not at all; the call returns |
| `manage_instance` | 2 `brokre manage`, 1 `brokre mcp` with 1 server | one standalone server, no needless removal, calls return unless the server they ask never answers, idle servers end |
| `elevated_pool` | 2 calls on 1 key, 2 sessions, 2 lines of output | answers are the command's own, limits hold, shells end |
| `exec_runtime` | 4916 lines and environments, 2 fields, 3 prompts | the line keeps its meaning, a plain command stays off the shared connection, no ssh is left behind but in the named cases, secrets come in turn, calls return |
| `pty_inject` | 24 runs, each prompt at most twice | secrets are typed where they belong, prompts are served and none is overlooked, what is saved was accepted, runs end |
| `bastion_list` | 6 situations of up to 2 lists, 2 requests, 2 editors, 4 records, 2 bastions, 2 probe threads, 1 expiry of the session | lists are true, children are ended by their own calls, the registry keeps its entries, calls return |

*Why the bounds are enough.* Every race here is between a process that holds
something stale and one that changes the file; a third process only repeats the
part of one of them. The key file gets three calls because a settled key needs
two to race and one to come later. Two aliases let a write go to the wrong one;
three credentials let an alias be removed, created again and be compared with a
third. Two unlocks are what a lock and a late renewal need; the clock passes
both limits. One torn event is enough for it to be first, last, in the middle
and alone. Two pieces make an order, and a pipe of one frame makes writers
wait in the middle of a frame. Two `brokre manage` compete for the lock while
the `mcp` removes and overwrites records without it. In the pool the mutex
admits one call at a time, so the second call is any later one: it finds the
session of the first in use, idle, old, dead, or still running a command that
timed out. Sessions of different keys share nothing but the mutex.

The lines of `exec_runtime` are the product of every shape of saved words (a
port, mux settings in pairs, without a value, alone or attached, an option of
brokre), leading options (a flag, an own key, `-n`, `StdinNull`, an option of
brokre, `--`) and commands (none, plain, sudo, an
interpreter's script, a reader of its input, an option letter the code looks
for, a second ssh, brokre on the bastion) with the environments of an exec;
`scp` and routes are smaller products. Two fields and three prompts make a
retry after the last field. The runs of `pty_inject` have one case for each
option the scanner's branches read, and each order of prompts that a host, a
key or a route can put; two tries let a wrong secret be refused once and asked
for again. `bastion_list` puts side by side what shares state: three calls of
one server; probes, of which two can end in the wrong order while one record in
the middle is not probed; two editors with two requests of the page, or with a
reader; the page's synchronisation with an unlock, a lock and an expiry. The
limit on bastions is 2, so that it is met.

*Fairness.* `bastion_returns`: a thread that can take a step of the gate takes
it (weak fairness: it is a running thread, a poll loop with a deadline, a
clock that advances); nothing is assumed of humans, of the order in which
`flock` serves its waiters, or of the manage server, which need not answer, and
the wait at a TTY prompt counts as an end. `vault_store`: weak fairness of the steps of an
operation, for the same reason; a process may still die instead.
`session_relay`: of the client, the agent's main thread, its pump and its
sink; none of the human's typing, the client's stdin thread or the inner
brokre. `manage_instance`: of the steps of a call and of the idle threads;
nobody need ask a server anything, and no request a server is at need end. `elevated_pool`: of the steps of a call, whose
waits all have deadlines, of the sweeper's loop, and of a shell at its prompt
that has a line to read (used by `NoPromptLeft` alone); no login, command or
connection need end. `exec_runtime`: of the handler, the caller, the helper, and
of the end of an ssh that was signalled; not of the command's end.
`pty_inject`: of the threads and the injector's child, whose loops all have
a sleep and a bound; not of the program or the user, who need not answer
`offer_save` either. `bastion_list`: every thread
goes on while it can and every wait has a deadline, the probes' sockets, the
polls, the children and the MCP calls; nothing is assumed of prompts at a
terminal, of unlocks, of networks that answer, or of editors. (The timeout of a
probe is for each read, so a server that sends its banner a byte at a time can
hold a probe longer than any bound here says.) The other runs are safety only.

### Disagreements and known gaps

The modules have the following behaviours of the code; where one would break a
property, the property excepts it by name, in the comment above it.

Against what the project's documentation says:

1. A renewal that has loaded the session writes it back after `bastion lock`
   (`session.rs` 81; the command's help in `main.rs` 182 says "Lock (clear) the
   bastion session immediately."). `RevokedStaysDead` is what remains: a lock is
   final for every session that no renewal had in hand.
2. A session that outlives a rotation puts the old password back when it sets
   `last_used_at` (`exec.rs` 661; README.md 490: "create / rotate only").
3. Two first runs each return a key of their own (`keychain.rs` 77; SECURITY.md
   38: "generated on first run"). `SettledKey` is about a key that is in place.
4. Input reaches the program before the secret: the gate opens by itself after
   two seconds, and the injector opens it although `defer_stdin` is set
   (`pty.rs`; its comment: "pipe data cannot arrive before password
   injection"). `HeldUntilInjected` names the two openings.
5. A synchronisation whose session lapses between the handler's check
   (`api.rs` 406) and the gate in `run_on_bastion` makes the manage server
   poll itself; the gate's comment promises an end ("until unlocked or
   timeout", `gate.rs` 320), but the poll's read has none. Whoever asks that
   server later waits with it: `probe_manage` (`instance.rs` 57) and
   `fetch_unlocked_status` (`gate.rs` 377) read without a timeout. The calls of
   `BastionSession` and `ManageInstance` return but for a server that never answers,
   which `CallReturns` and `CallsReturn` except.
6. A routed exec without the tunnel hands its inner command on as one joined
   word, which `is_routed_bastion_trailing` never recognises: it runs in pipe
   mode, against the comment in `pipe_exec.rs`.
7. An exec that ends of SIGINT or SIGHUP leaves its ssh running, in a process group
   of its own; so does a SIGTERM between fork and registration (`child_guard.rs` 209,
   219, 282; its head: "does not leave orphan `ssh` processes"). `NoOrphan` excepts
   both by name.
8. `has_null_stdin_flag` finds the letters of `-n` and `-f` in the attached value of
   another option, such as a saved `-oControlMaster=auto`, and a command that reads
   its input gets none (`ssh_identity.rs` 909; comment at 916: "already requests
   disconnected stdin (`-n`, `-f`, `StdinNull=yes`)"). `ArgvFaithful` excepts such
   lines (`Misread`).
9. An exec whose host has no living shared connection tells the masters of all
   other hosts to exit and removes their sockets (`ssh_identity.rs` 527; comment at
   497: "Remove dead mux sockets"). `PruneMux` does so too; `DetachedFromMux` says
   that no plain command does.

Session, vault, keys, log, servers: a renewal delayed after its check renews a
session that has expired (`gate.rs` 232); `rm` verifies one record and may
delete another that has taken its alias (`rm.rs` 73); a failing keyring read
replaces the key (`keychain.rs` 121); an event cut short makes list and verify
fail from then on; a live manage server may lose its record, and another is
then started beside it; the relay's last output may come after its exit frame
(`session_relay.rs` 344); a privileged command without a final newline times
out, and one that times out is not audited (`elevated_session.rs` 180).

Execs: the file of a decrypted key stays, since `exec_saved` ends in
`process::exit` with its guard in scope (`exec.rs` 666); a word that begins with
`-i`, wherever it is, keeps the record's key from being offered; settings
inside the remote command, attached (`-oControlMaster=auto`) or as `-S` and `-M`
are misread by the mux rewriting, and `ControlMaster` alone keeps the shared
path; `--` before the host makes insertions land behind it; an attached value
that has a `t` counts as that flag; after a SIGTERM between fork
and registration the orphan holds the pipes its caller reads; a
clean-up that finds an empty owner file removes a living exec's files.

Terminals: the host-key question gets the secret of a record with one field
(`SecretAtItsPrompt` excepts it; that "yes/no" never gets one, `prompts.rs` 149 and
`pty.rs` 893, is said of runs without declared fields),
and the password prompt then none; so does the prompt for a key's passphrase, of a
record with a password only (`field_for_prompt`, `pty.rs` 144, and the last line of
`should_arm_vault_inject`, 260); a second elevation, or the second password that
another program than ssh asks for, is left to the user; a record with a key's passphrase only has
it typed at a password prompt; a key prompt still in the window hides a later
password prompt; a banner before the login passes for one after it, which opens
the gate, ends the capture and lets the inner password be typed at the outer
prompt of a route; a second hop's prompt that comes before the first injection
is recorded and names no host gets the first hop's password; after a login by
key on the outer hop the inner one counts as the outer's; on a route with the
inner host's record, an outer password that was refused is followed by the inner
host's, typed at the outer prompt (`second_ssh_hop`, `pty.rs` 219, counts
injections, not logins); a host-key question answered by hand while its injection is
pending lets that secret be typed at whatever comes next; a failed injection
is not followed by another look at the window; a request armed while another
settles loses its field; the drain makes the scanner's descriptor non-blocking
too, which can end the run or swallow a prompt; in a run without a record a
"yes" is saved as the password if none is asked for, a later sudo's password if
no banner was seen, and one that is not ASCII byte by byte; a child not reaped in
0.8 s counts as exit code 0; raw mode is on while the gate is shut.

Lists: of two overlapping edits of the registry one is lost; a registry torn by
a crash stays unreadable, and then no alias is a bastion to the gate; after an
MCP list has timed out its worker still asks the remaining bastions; a bastion
that failed is missing from the list with a line on stderr;
`BROKRE_PROBE_CONCURRENCY=0` never starts a probe and never ends.

## Theorems

All are for any number of processes and any values of the bounds.

* `BastionSession_proofs`: `TypeCorrect`, `LockFinality` (`RevokedStaysDead`)
  and `AdmissionBound` (`AdmissionBounded`), from one inductive invariant. A
  session file alone does not say whether it may be there: the invariant
  follows a generation through the file, the copies in hand and the writes on
  their way, and says that no deadline in any of them is later than its unlock
  and renewal allow.
* `VaultFiles_proofs`, the store: `TypeCorrect`, `Uniqueness` (`UniqueAliases`),
  `NoLostEdit` (`EditsCurrent`) and `Refinement` (`ImplementsMap`). The
  invariant adds to the properties that the writer holds the lock from its read
  to its rename, and that the temporary file is a part of the writer's list.
  With `Rename`'s guard the file then becomes exactly the edit of itself, and
  that is one step of the map.
  The key: `KeyIsSettled` (`SettledKey`). What a call that found a key in place
  needs is not about that call: as long as it lasts, the file holds that key and
  no other call is making one (`KeyStays`), so whoever looks from now on reads.
  The log: `ChainVerified` (`ChainVerifies`) and `AppendsRecorded` (`Recorded`).
  The invariant says of every event that follows no cut that it names its
  predecessor (`Linked`), of the holder of the lock that what it read last is
  still the tip (`PrevFits`), and that the last piece of the log is the holder's
  from its first write to its last (`LastIsOwn`). That `verify` stops at no place of such a log is an argument about
  the first place it could stop at, line by line.
* `VaultClients_proofs`: `TypeCorrect`, `Coherence` (`Coherent`), `OwnPassword`
  (`InjectsOwn`) and `CreatesOnly` (`OnlyCreateFills`). The invariant says of
  every copy in hand what `Coherent` says of the vault: it is a record that was
  created under that alias, up to rotations of its own password. A write-back
  then keeps the vault coherent however old its copy is, and since the store's
  update only changes an alias that has a record, only a create fills one.
* `ManageInstance_proofs`: `TypeCorrect`, `StandaloneIsOne` (`OneStandalone`)
  and `RecordStays` (`RecordKept`). A server that is up says nothing of the lock
  by itself: the invariant follows a `brokre manage` from its second look to its
  end and says that it holds the start lock all the way, whatever happens to the
  record, and that it never makes another call. For the record a second
  invariant, `Watched`, says what a thread that began after the record was
  written can have made of it: it has read this record or none, it removes it
  only when its server did not answer, which is final, and it does not come to
  register another.
* `Runtime_proofs`, pipe mode: `TypeCorrect`, `Registered` (`NoOrphan`) and `InTurn`
  (`AskpassInTurn`). A signal without a handler is an exception of `NoOrphan` and of
  its theorem, not of the model: every invariant holds through it. SIGTERM's handler runs on the main thread and so finds the
  registered groups as they were where the signal struck; `Guarded` ties the
  place of the main thread to what ssh and the groups can be there, and `Counted`
  ties the number in the state file, and the one a helper has read, to how many
  secrets were answered.
  The terminal: `PtyTypeCorrect`, `ScannerEnds` (`ScannerEndsWithTerminal`),
  `StdinHeld` (`HeldUntilInjected`) and, of runs that are `InOrder`, `SecretPlaced`
  (`SecretAtItsPrompt`: the field that is asked for, or at a prompt whose field the
  record lacks its only one). What is typed was asked for three threads earlier, at a
  prompt the injector never looks at again; so the invariant (`SecretInv`) says,
  as long as nobody has answered by hand, that a prompt which is still to be read
  or dealt with is the last thing printed and the program waits at it
  (`OutWaits`, `WindowWaits`), that an injection asked for and not yet typed suits
  the prompt the program waits at, with nothing unread behind it (`AskedFits`), and
  what the injector's records must say once a hop of a route has its password
  (`OuterDone`, `DualDone`). That a banner means the login is behind (`BannerLate`)
  is what keeps the printed text from opening the gate too early.
  `SavedLine` (`SavedIsAccepted`) is about runs without a record that are
  `LoginLast`. Before the login the run is in one of four turns of a prompt - it is
  printed, it is on the screen and its answer is captured, the user has typed, half
  of it is forwarded - or the user has struck ^C (`Turns`); once the login has taken
  a line that is what was captured, and nothing is captured again, since the banner
  was seen or is the next thing to be read (`Taken`). Where a line is saved, the run
  has ended (`SavedLast`).
  `PromptServed` has two parts. The first has a theorem of its own, `PromptsNoticed`
  (`NoneOverlooked`), with no hypothesis on the runs: a prompt that the scanner would
  answer now has an injection or a rescan on its way, or one has failed (`Noticed`).
  `PromptsServed`, of both parts, is about runs that are
  `InOrder` and `OneEach`: what the injector has recorded was typed at a prompt of
  the same kind, or later (`KeyServed`, `LoginServed`, `InnerServed`, `SusServed`),
  and of two prompts that the program has reached the one it waits at is the later
  (`Once`); so what the scanner refuses because of a record has been served. On a
  route the elevation also needs the opposite, that both logins were recorded
  (`HopsDone`).
* `SessionRelay_proofs`: `TypeCorrect`, `InOrder` (`StreamsInOrder`) and
  `ToldTruly` (`ExitTruthful`). The two pipes and the places of five threads make
  one sequence each way: what is shown, what is in the pipe, what the pump holds,
  what is in the PTY and what was written follow each other without a gap. That
  frames stay whole needs that a half frame in the pipe is the doing of whoever
  holds the writer's mutex, and the code's truth that nothing comes before the
  hello and that an exit frame holds the child's code.
* `ElevatedPool_proofs`: `TypeCorrect`, `NothingBehind` (`OneAtATime`),
  `OwnAnswer` (`AnswerIsOwn`) and `EndFound` (`EndIsSeen`). The three rest on one
  another and on what makes a session usable: a command that may still run has a
  call that polls for it, or its session is out of the pool and out of every
  hand; nothing of a command is in a buffer before it is typed; and a command
  that is polled for waits in the line, runs with exactly its output so far
  behind its begin marker, or has ended with its end marker behind all of it.
* `BastionList_proofs`: `NoneLeft` (`ChildrenOwn`), `NothingLost`
  (`RegistryKept`) and `ListsTrue` (`ItemsTrue`). Every step is shown to be one caller's (`Acts`): it leaves
  the child, the registration and the tracker of every other alone. `Tidy` says
  in which places a caller can have a child at all. For the registry, the file
  and what each writer has in hand are registries that fit (`Fits`): what a
  writer has loaded may be out of date, and a later write may undo another's
  edit, but none drops a bastion that nobody disables. `ListsTrue` has an invariant
  of its own on top of that one (`LInv`): the entries gathered so far are the
  vault's own records in their places, then, once each, what the bastions that
  answered list (`Built`); a probe's result names the record its thread was given
  (`Results`); and no bastion still to be asked has answered (`Queue`), for which
  it needs that the registry has none twice, which the first invariant says.

Assumptions: `NoRecord` is not a body, the bounds are naturals, no process is
both a `brokre manage` and a `brokre mcp` or one of its own servers, a mark such
as `None` is not one of the values it is told from, an exit code is not the mark
of a lost session, the hygiene command is no call's, the manage server and the
MCP exec of `BastionList` are none of its lists or editors, the registry that
one of its situations begins with is one the program may have written, and no two
records of a vault, here or on a bastion, have profile and name in common (which
`VaultFiles_proofs` proves of the store; a name alone may be two records'), and
the runs of `PtyInject` are of their type. Each is
named in its module and evaluated by the runs. `SecretPlaced` has a hypothesis of
its own on the runs, `InOrder`, which leaves out what the list of terminals above
says goes wrong: a host-key question that a record with one field could answer while
somebody types, and a
route whose prompts come in an order its bookkeeping does not expect. The runs of
`pty_inject` are all in order, which TLC evaluates (`MCInOrder`). So are they
`LoginLast` (`MCLoginLast`), which of the runs without a record leaves out those
that ask for another host's password beside the login's or for an elevation before
it, and `OneEach` (`MCOneEach`): the key's passphrase, each host's password and one
elevation are asked for once, in this order; a locked key has its passphrase in the
record, unless it has several fields or none; an elevation on a route comes after two
logins by password, or after none on its first host; a program that is not ssh
asks for one password. In the runs `OneEach` leaves out the scanner does refuse
prompts it could answer: two elevations of one session, or the passwords of another
program than ssh. Before the proof TLC checked `PromptServed` and
the parts of `Tracked` on more runs than `pty_inject` has: the 2544, with nobody
typing, that four records, three ways of running and every order `OneEach` allows
give.

The type invariants are proved and are not properties of a run, each a theorem or
a part of the inductive invariant of its module; `BastionList_proofs` needs of the
types only who has an entry in which table (`Shaped`).

Each inductive invariant was model-checked on the constants of the module's run
before it was proved. Proving them asked four things of the models: type
invariants in parts, one named for each part of the state; `Spans`, which names
the pairs of markers that `Parses` reads between; `Retains`, which says what
`Vec::retain` keeps where a fold over the sequence said it before; and `Kept`, whose
entries are at the places they had before the filter, gaps included. The proof of
`ItemsTrue` also found the model wrong in two places: an entry was told by its name,
which two profiles may share, and an alias of any profile could be enabled as a
bastion, where the code asks for an ssh record.

The proofs about the log and the terminal asked for more. `VerifyChain` says what it
compares line by line, where it concatenated the lines. In `PtyInject` two `CASE`s
had arms that overlap, which leaves open in TLA+ which arm counts (TLC takes the
first): `FieldForPrompt` and `InterruptPeer` are conditionals now, in the order of
the code. The sudo prompt of a route is the inner host's (`Owner`), and a route
tells its hops apart only as long as no password is refused (`TellsHops`): with
either left out the invariant is not inductive, and TLC then showed the runs in
which the property is false.

Only model-checked, and why: `ArgvFaithful` and `DetachedFromMux`, since the
operators of `SshArgs` are recursive over the words of a line, and what recursion
computes for every input is an induction; and everything about liveness (`CallReturns`, `LocksReleased`,
`SessionEnds`, `CallsReturn`, `IdleEnds`, `LimitsHold`, `NoPromptLeft`,
`RunReturns`). Liveness under fairness, ENABLED and induction over data are out of
reach of the prover; where an argument by the least counterexample does, as for the
first event that `verify` could refuse, there is a proof.

## Plan

Done: `BastionSession`; `VaultMap`, `VaultStore`, `VaultClients`; `KeyStore`;
`AuditLog`; `SessionRelay`; `ManageInstance`; `ElevatedPool`; `SshArgs` and
`ExecRuntime` (with the child guard and the askpass files); `PtyInject`;
`BastionList`; the proofs above.

Left, in this order:

1. `BastionSession`, extended by the policy file and a torn key file; `ManageInstance`,
   by the API's own session and its login failures.
2. `VaultClients` under an exec of `ExecRuntime`: the write-back at its end is
   there one step of a caller.

## Not modelled

Cryptography (AES-GCM, Argon2id, HMAC) is taken as ideal. Rendering, argument
parsing and quoting, the web pages, the JavaScript launcher, the installer and
self-upgrade are pure or of no consequence for the shared state. Process
hardening is a set of system calls at start. `exec_normalize` rewrites the text
of one MCP call.

Code that no command reaches is left out: the ssh pool (`src/runtime/ssh_pool`,
`ssh_rpc.rs`; nothing calls `maybe_exec_via_ssh_pool` and `main.rs` does not
dispatch `--internal-ssh-pool`), the port forwards (`src/tunnel/forward.rs`,
`forward_relay.rs`; no command starts or stops one), and the probe cache
(`probe_record` has no caller).

Of the modelled components, left out: what the terminal shows and suppresses,
window sizes and the in-process secret of other builds (`pty.rs`); the text of
a route and the check of `BROKRE_BASTION_PATH` for loops (`route.rs`); the
copying of pipes; the policy file, the bytes of the key file, strict mode and the set-up page;
filtering and layout of lists.

Windows differs where the code says `cfg(not(unix))`; the Unix paths are
modelled.
