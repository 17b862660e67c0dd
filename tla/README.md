# A verification project for vbox

vbox shows the windows of Linux guest applications as native windows of a macOS
host. This directory holds TLA+ models of its parts, the TLC runs that check them
on small instances, and TLAPS proofs. Paths below are relative to `src/crates/`
unless they start with `src/`.

## The system

| Part | State | Operations | Talks to |
|---|---|---|---|
| `vbox-controld` (controld/) | map of instances (port, server pid, app pids) behind a mutex; `state.bin`; token and certificates | start / stop instance, launch app, status, wait for socket; flush and reconcile; authenticate | spawns `vbox-server` and guest apps; serves control sessions, one thread each |
| `vbox-server` (server/) | per view: a Wayland compositor (windows, popups, child surfaces, focus, modes, text inputs, clipboard); process-wide: input and clipboard slots, connection count, socket files | accept, handshake, view, input, clipboard, volume | guest apps over Wayland; the client over TCP or QUIC |
| `vbox-client` (client/) | host windows mirroring guest toplevels, gestures, keys held, composers, clipboard and volume pollers, transport choice | window events in, input events out | `vbox-server`, the macOS pasteboard and window system, controld |
| wire protocol (proto/) | framing, message types, datagram header of frame tiles | encode / decode | all of the above |
| `vbox` CLI and library UI (vbox-cli/, vbox-swift/) | machine list, passwords, instance ports, pid files, launchers | ssh, install, run, stop | all of the above, as processes |

Hard behaviours: request threads that share the instance map and one temporary
file; a daemon that dies with its children alive and restarts from disk; processes
that exit, become zombies and give their pids to others; two clipboards that mirror
each other through pollers, worker threads and caches; a compositor whose windows,
popups and child surfaces go away in any order; two event loops that echo each
other's mode changes; input for windows that are gone; unreliable datagrams beside
ordered streams; a transport that falls back while the first one is wound up;
commands that share files, ports and background processes without a lock and are
killed anywhere.

What makes each component correct:

- **Instance state of controld.** No two entries share a port, every running server
  is in the map or provably lost by a crash, the pids it will signal still belong to
  its own processes, and what it holds is on disk between requests. Every request
  ends although `start_instance` keeps the mutex through its slow part.
- **Clipboard bridge.** Both sides end with the last copy, a copy arrives, the
  mirroring does not feed itself.
- **Compositor surfaces and tiles.** Maps keyed by surface hold nothing for a surface
  that is gone; what the viewer's framebuffer shows belongs to surfaces that are there.
- **Window modes.** When all is quiet the two sides agree, and all becomes quiet.
- **Gestures.** The guest's button is balanced, a gesture ends with the button, a
  border resize moves its own edges.
- **Keyboard, focus, text.** No key stays down, the focus is with a live window, text
  arrives once and in order. Composers neither lose nor double a character.
- **QUIC data plane.** A tile is shown whole, at most once; window events arrive, in order.
- **Sessions.** The count, the socket name and the input slot belong to the sessions
  that run; a viewer has a session or knows that it has none; everything ends.
- **CLI.** A command talks to its own instance's server, `stop` leaves nothing of the
  instance, an interrupted command leaves nothing the next one cannot mend (a login, the
  trust between host and daemon), commands end.

## Modules

| Module | Models | Composes |
|---|---|---|
| `Controld`, `MCControld`, `ControldProofs` | controld/src/state.rs, snapshot.rs, utils.rs | |
| `Clipboard`, `MCClipboard`, `ClipboardProofs` | client/src/clipboard.rs, server/src/wayland_session/clipboard.rs, host_clipboard.rs | both ends and the channels |
| `Compositor`, `MCCompositor`, `CompositorProofs` | server/src/wayland_session/mod.rs, surface_capture.rs, client/src/viewer/frame.rs | compositor and framebuffers |
| `Toplevels` | window modes of wayland_session/mod.rs, output.rs | |
| `Viewer` | client/src/viewer/app.rs, fullscreen.rs, adopt.rs, geometry.rs | extends `Toplevels` |
| `Windows`, `WindowsProofs` | the two event loops and the channels between them | `Toplevels`, `Viewer` |
| `Geometry` | client/src/viewer/move_resize.rs, geometry.rs, `aspect_fit_rect` | |
| `Option` | Rust's `None`, which the viewer's modules share | |
| `Gestures` | the left button in app.rs | `Geometry` |
| `TextBuffer` | abstract: text sent in order, once | |
| `Composer` | client/src/viewer/ime/, `handle_ime`, `send_host_text` | refines `TextBuffer` |
| `Keyboard` | `handle_keyboard`, focus and close events of app.rs, input.rs | |
| `Seat` | focus, keys, button, text-input-v3 of wayland_session/mod.rs | extends `Keyboard` |
| `Input`, `InputProofs` | viewer and seat with both channels; the proofs about `Gestures` and `Composer` too | `Keyboard`, `Seat` |
| `ViewStream` | abstract: what a data plane promises | |
| `QuicFrames`, `QuicFramesProofs` | server/src/data_plane/quic_listener.rs, client/src/data_plane/quic.rs, proto/src/data_plane.rs | refines `ViewStream` |
| `Sessions`, `SessionsProofs` | server/src/main.rs, quic_listener.rs, socket.rs, io.rs, input_registration.rs; client/src/net.rs, data_plane/ | client and server |
| `Cli` | vbox-cli/src/main.rs, context.rs, process.rs: a command as a process | |
| `Control` | controld/src/main.rs, tls.rs; client/src/ctl/; controld-install | extends `Cli` |
| `Stack` | the instance commands of runtime.rs, client/src/launch.rs | extends `Control` |
| `Hosts` | remote.rs, machines/, keychain.rs, ssh.rs | extends `Stack` |
| `Library` | library and launcher commands of runtime.rs, library_ui.rs | extends `Hosts` |
| `Commands`, `MCCommands`, `CommandsProofs` | all commands together | `Control`, `Stack`, `Hosts`, `Library` |

`map` in PROJECT.json gives the lines of every definition. What follows is how state
and actions correspond.

### Controld

| Model | Code |
|---|---|
| `instances`, `lock` | `DaemonState::instances`, a `Mutex<HashMap>` |
| `pc`, `req`, `victim`, `child`, `snap`, `fd` | the locals of an RPC on its session thread |
| `proc` | the guest's process table: running, zombie, owner |
| `tmp`, `disk` | `state.bin.tmp`, `state.bin` |
| `lost` | servers running but not in `state.bin` when a daemon died |
| `StartInstance`, `KillVictim`, `SpawnServer` / `SpawnFail`, `StartCheck` | `start_instance` (mutex held from the first to the last) |
| `StopInstance`, `LaunchApp`, `LaunchCheck`, `Attach`, `Status` | the other requests |
| `FlushSnap` ... `FlushDone`, `FlushFail` | `flush()`, which holds the mutex for the copy only |
| `Crash`, `Restart` | death of the daemon; `new` and `reconcile_on_startup` |
| `ProcExit`, `ForeignSpawn` | the kernel |

### Clipboard

| Model | Code |
|---|---|
| `pb`, `HostCopy`, `HostCopyDone` | `NSPasteboard` and the applications that use it, which clear and set in two calls |
| `PollCount`, `PollText`, `PollDropEcho`, `PollForward` | the poller thread |
| `InstallRecv`, `InstallClear`, `InstallSet`, `InstallRecord` | the installer thread |
| `last_installed_from_guest`, `last_sent_to_guest` | the two echo caches |
| `registered`, `Register`, `DropUnregistered` | the global slot `CLIPBOARD_SENDER` |
| `ApplyHostClipboard`, `Stale` | `apply_host_clipboard` |
| `GuestCopy`, `GuestClear`, `ReaderPost`, `ReaderFail` | `new_selection` and the reader threads |

### Compositor

| Model | Code |
|---|---|
| `windows`, `surface_to_window`, `popup_routes`, `popup_order`, `child_surface_*`, `current_buffers` | the fields of `App` |
| `alive`, `role`, `parent`, `loc` | smithay's view of the client's objects |
| `host` | one `FrameBuffer` per viewer window; a pixel is the surface that painted it |
| `WindowOffset`, `CopyRect`, `Repaint`, `RepaintMoved` | `surface_window_offset`, `surface_copy_rect_with_bounds`, `repaint_window_from_cached_buffer`, `repaint_moved_child_surfaces` |
| `Commit` with `RootCommit`, `ChildCommit`, `Detach` | `CompositorHandler::commit` with `copy_committed_shm_buffer` |
| `NewToplevel`, `NewPopup`, `Reposition`, `ToplevelDestroyed`, `PopupDestroyed`, `SurfaceDestroyed`, `BufferDestroyed` | the handlers of these names |
| `ApplyTile`, `ApplyConfigured` | `apply_tile`, `resize_for_remote_size` |

Geometry has one dimension. The message stream is taken as reliable and ordered, so
the framebuffer is updated in the step that queues the message; datagrams are the
business of `QuicFrames`, and focus that of `Seat`. Errors of the shm copy (a
truncated pool) are not modelled. A pixel of a destroyed subsurface belongs to nobody:
the code deliberately does not repaint for those. `wl_subsurface.set_position` has no
effect before a commit, so the commit picks the locations that were set.

### Toplevels, Viewer, Windows

| Model | Code |
|---|---|
| `windows`, `next_window_id` | `App::windows`: mode, size, restore size, what the last configure asked for |
| `RequestWindowResize`, `ToggleWindowMaximize`, `SetWindowFullscreen` and the guest's requests | the functions and `XdgShellHandler` methods of these names |
| `GuestConfigure` | the application acting on the latest configure |
| `view`, `pending_*`, `retired_window_ids`, `empty_windows_since` | `ViewerWindow` and the fields of `ViewerApp` |
| `osq` | Resized events winit has queued: their handler may see a later state of the window |
| `HandleMessage`, `Resized`, `RedrawRequested`, `FlushDue` (with `FlushDueResizes`), `GraceOver` | the handlers of the viewer's event loop |
| `s2c`, `c2s` | the two ordered channels |

Sizes have one dimension and are equal within the 32 px of `physical_size_close`.
Timers have no clock: a deadline may pass at any moment after it is set. The host is
macOS; both values of `VBOX_HOST_CHROME` and the guest's options are initial states.

### Geometry, Gestures

`Geometry` holds `resize_direction_at`, `clamp_manual_resize`, the tile rectangles
and the coordinate functions, on whole units of a small screen. `Gestures` has one
action per event of app.rs that touches a left-button gesture: press, release,
motion, wheel, the titlebar, the guest's `MoveRequested` and the release grace. `left`
is the host's button, `guest` what the guest was told; `build` is the platform and
the environment.

### TextBuffer, Composer

A syllable is `[l, v, t]`, a kana `[base, mark]`; `sent` is what was sent, spelled in
primitive jamo, so that "the same text" can be said at all: composing and spelling are
inverse. `Composer` maps to `TextBuffer` with `out <- sent` and `held <-` the spelling
of what is pending.

### Keyboard, Seat, Input

| Model | Code |
|---|---|
| `pressed_guest_keys`, `pressed_guest_modifier_counts`, `modifiers` | the fields of `ViewerApp` |
| `KeyPressed`, `KeyReleased` with `HandleKeyboard`, `FocusMoves`, `CloseRequested`, `ViewDestroyed` | `handle_keyboard`, `WindowEvent::Focused` and `CloseRequested`, the end of a window |
| `KeyUnseen`, `lost` | releases macOS keeps for itself |
| `active_window_id`, `text_inputs`, `pending_text_input` | the fields of `App` |
| `FocusWindow`, `InjectText`, `PreeditTextInput`, `FlushPending` | `focus_window`, `inject_text`, `preedit_text_input`, `flush_pending_text_input` |
| `pressed`, `pointer` | smithay's keyboard and pointer (external) |

A text has a number and a kind ("ascii", "shifted", "other", "preedit"). `delivered` records
which window got it and whether the window it was typed in was gone.

### ViewStream, QuicFrames

| Model | Code |
|---|---|
| `queue`, `writer`, `WriteTile`, `WriteWindowEvent`, `WriteOther` | the writer task of quic_listener.rs |
| `channel_streams`, `streams` | the per-window streams; the first is the main one |
| `datagrams` | datagrams in flight, read in any order or never |
| `pending`, `Pushed`, `Returned` | `FrameTileDatagramAssembler::push`: what it keeps, what it returns |
| `CompositorLoop`, `Abort`, `ServerReads`, `ClientWriterEnds`, `ViewerCloses` | the ways a session ends |

A message is named by its place in `log`, so a mixed-up tile is one whose bytes carry
two numbers. `ViewStream` is refined with `last` and `shown`, which record what
reached the viewer.

### Sessions

| Model | Code |
|---|---|
| `net`, `mode`, `build` | a viewer process: its data-plane mode, and whether version, token and certificate pin fit the server |
| `c`, `s` | the two ends of a QUIC, TCP view or TCP input connection |
| `active` | the counter of the accept loop |
| `sock`, `lock`, `listening` | the socket and lock file by owner, the sockets that are listened on |
| `slot` | `INPUT_SENDER` |
| `raced` | a socket was bound while another session stood between probe and unlink, or between two unlinks |
| `Crash` | the server dies and leaves its files |

### Cli, Control, Stack, Hosts, Library, Commands

A command is the sequence of steps it still has to take (`todo`); a step that fails
ends it as `?` does, and a step whose result the code drops goes on. A store is
loaded, changed in memory, written to its `.tmp` file and renamed, as four steps. The
processes share `instance-ports.tsv`, pid files, the tunnels, controld's instances,
the TLS directory, the two JSON files, the keychain and the launcher bundles.
`history` remembers whether commands have overlapped or one was killed: properties
that the code keeps only for commands that run one at a time and to their end say so
with `~mixed`, those it keeps for interrupted commands as well with `"overlap" \notin
history`. Every write and rename may fail, and a write that fails may leave the file
cut. A process id is never used again; stale pid files are therefore harmless here,
which the code cannot know. A killed command is taken not to have an ssh or scp child
that goes on after it.

| Model | Code |
|---|---|
| `tls` | the six files of the host's tls directory, each written by a step of its own; a certificate is the pair of its own key and the key that signed it, a key file its pair |
| `guest` | the three files scp sends, in its order; a copy may stop after, or within, each |
| `tls_bootstrap`, `WriteCert`, `write_secret` | ctl/tls.rs: the CA is kept if both its files are there; a certificate, then its key |
| `daemon`, `controld_install`, `DaemonRestarts` | the running daemon with the certificates it has loaded, and the systemd unit it is restarted from, which an interrupted script may have rewritten |
| `add_default_tls_env`, `Handshake`, `handle_session` | whether the host uses TLS (three files exist, be they right or not) and whether controld accepts a call: over TLS, or with the token |
| `keychain`, `keychain_account` | the machines whose account holds their own password; accounts may be shared, as `sanitize_id` is many-to-one |
| `set_password`, `delete_password`, `Forget` | `security` may fail after it has stored, and may delete nothing without anybody noticing |
| `Edit`, `save`, `save_overrides` | the change to a loaded store, its write to `.tmp`, the rename |

What the code leaves behind when a command is interrupted, which the properties name:

- between `client.pem` and `client.key.pem` (tls.rs:157-158) the host is locked out of a
  daemon with TLS until the next complete bootstrap;
- a cut `ca.key.pem` makes every later bootstrap fail until the file is removed;
- a deleted password whose store was not saved yet, and the password of a host whose
  account another host uses, make ssh ask for a password that is not there until the
  machine is saved again; a password that `security` refuses to delete stays.

## Runs

Times are for two workers. Every action and every disjunct of the next-state relations
is taken in some run.

| Run | Question | Answer | States, time |
|---|---|---|---|
| `controld_races` | Do two sessions, exits, foreign pids, failing writes and a crash keep the map right? | ports distinct, no server orphaned by the daemon's own steps, owned pids cannot be reused | 392 k, 40 s |
| `controld_serial` | Is `state.bin` whole and complete between requests, through two crashes? | yes, with one session | 176 k, 15 s |
| `controld_live` | Does every request end? | yes | 52 k, 20 s |
| `clipboard_sync` | Do both sides end with the last copy, and can the two directions feed each other? | yes, for new texts copied one side at a time; host copies arrive; no | 138 k, 20 s |
| `compositor_children` | Do the maps and the viewer's framebuffer follow surfaces that come and go in any order? | yes, for opaque roots | 81 k, 100 s |
| `windows_modes` | Do viewer and compositor agree on the mode, and stop? | yes | 180 k, 30 s |
| `gestures_left` | Are buttons balanced, do gestures end, do the other edges stay? | yes on macOS | 1.2 M, 45 s |
| `composer_text` | Is what is typed what is sent, in order and once? | yes | 540 k, 30 s |
| `input_keys` | Can a key stay down, the focus dangle, text change its order? | no, Space and typed ASCII excepted | 2.7 M, 55 s |
| `quic_view` | Does QUIC keep the promises of a data plane under loss and reordering, and do events arrive? | yes, events while there are no more windows than streams | 602 k, 110 s |
| `sessions_views` | Do viewers that come, fail over, crash and go leave count, name and slot right? | yes, but for two windows in socket.rs | 137 k, 60 s |
| `cli_commands` | Do commands that overlap, fail and are killed reach their own server, clean up and end? What do commands interrupted one after the other leave behind, and does the next one mend it? | yes, within what each property says; a daemon with TLS can be called but for one window, which the next bootstrap closes, and a login is broken only by a step that takes its password | 514 k, 120 s |

`TypeOK` is among the invariants of `controld_races` and `clipboard_sync`. The other
modules that have one (`GestureTypeOK` and `ComposerTypeOK` in two of them) document
their state with it; it holds in their runs too, when the line `INVARIANT TypeOK` is
added to the configuration.

### Configurations that end in a counterexample

Each of these checks one statement of the repository that the code does not keep.
They are not among the twelve runs.

| Configuration | Property | Statement | What happens |
|---|---|---|---|
| `Controld_torn.cfg` (MCControld) | `NoTornState` | state.rs:482 "an interrupted write doesn't leave a torn `state.bin`; the rename-from-`.bin.tmp` trick is the guarantee" | two flushes share `state.bin.tmp`; one renames what the other has just truncated, and the daemon dies |
| `Controld_untracked.cfg` (MCControld) | `AppsTracked` | state.rs:1 "single source of truth for what vbox-server processes are running, on what ports, with which guest apps attached" | `launch_app` for an instance that is gone leaves an app no entry records |
| `Clipboard_echo.cfg` (MCClipboard) | `EchoIsKnown` | clipboard.rs:144 "don't relay it back — the guest already has it" | the cache is never cleared: the guest holds another text by then |
| `Clipboard_order.cfg` (MCClipboard) | `GuestOrder` | proto/src/clipboard.rs:40 "receivers ignore out-of-order or duplicate serials" | one reader thread per copy, and the installer does not read the serial |
| `Compositor_shadow.cfg` (MCCompositor) | `NoGhost` | mod.rs:1326 "Re-emit the parent toplevel so it overwrites that stale region" | the viewer skips transparent pixels, so a popup stays visible over a shadow |
| `Input_chord.cfg` (Input) | `NoStuckSpace` | app.rs:1555 "that we previously swallowed" | the release is swallowed by the modifiers at the release: Space pressed before them stays down |

### Configurations that go further

Two more pass, and are not among the twelve runs either. `Clipboard_bursts.cfg`
(MCClipboard, 912 k states) checks `NoEchoStorm` for users who copy at any moment, also
in the middle of an installation, and texts copied before; `NeverEchoStorm` proves that
case, too. `Commands_interrupted.cfg` (MCCommands, 303 k states) checks `TlsAgrees`,
`BootstrapMends` and `LoginsMend` with two kills and a bootstrap more.

### Bounds

- `Controld`: two instances, two ports and two sessions are the smallest setting
  in which a port conflict, a lock hand-over and two overlapping flushes happen;
  three pids let one be reused while two entries hold theirs; three or four requests
  let a start be followed by a conflicting start and a stop; one or two crashes give
  a recovery from a recovered state. Instances, ports and sessions are symmetric in
  the runs without liveness.
- `Clipboard`: three copies are a copy, an answer and a third that meets their
  caches; one text is over the size limit; one selection may be cleared by its
  owner. `Fresh` and `Bursts` select the users: texts that are new, and copies made
  at any moment instead of once the other side's has arrived.
- `Compositor`: one toplevel slot that can be used for two windows, one popup, one
  subsurface that hangs on either; windows one or two pixels wide and children two
  pixels wide at -1, 0 or 1, so that every side is clipped and a child can be
  outside. `Disposable` holds the root only: with a subsurface in it `RectCovers`
  fails, a hazard listed in PROJECT.json.
- `Windows`: two windows, one of which can replace the other; three things user and
  application do of their own accord, with any number of reactions: enough for a
  request of each side and one that crosses both.
- `Gestures`: a 4 x 4 screen, windows of at least 2 x 2, six events: a press, a drag
  there and back, a request of the guest in between, a release and what follows.
- `Composer`: jamo that cover every branch (a consonant that is a final, one that
  begins a double final, one that is neither; vowels that combine), five characters:
  a syllable with a double final and the vowel that splits it.
- `Input`: two windows of two clients, one of them a terminal; one key of each class;
  five events; a queue of two instead of 32.
- `QuicFrames`: four messages, tiles of two chunks and tiles over the frame limit, an
  assembler of one frame instead of 32, one stream for two windows, so that every
  limit is met. With two windows alive for the one stream, the writer waits at
  `open_uni` for a stream whose window's end is behind it in the queue, and only the
  loss of the connection ends the wait: `EventsArrive` excuses sessions that were ever
  so crowded (`Crowded`), and TLC finds it violated without that condition.
- `Sessions`: two viewers in any mode and with any fault of the handshake, two
  connections at most, one crash: the second viewer meets the first one's end.
- `Commands`: two processes at a time, from fourteen mixes of two to four commands that
  overlap; two ports for three instances; one fault. Three processes for the mix of two
  starts and a stop were checked separately. Five more mixes, of three to six commands,
  are begun one at a time and in any order (`alone`), with one kill besides any number of
  failures and restarts of the daemon: an interrupted bootstrap, a failing one and the
  one that mends; two hosts with one account.

### Fairness

- `Controld`: a session thread that can take a step does (`WF` on its steps and on
  its flush), because the kernel schedules threads and the only thing a request waits
  for without a time limit is the mutex; the daemon is restarted by its service manager (`WF` on
  `Restart`). Nothing is assumed about processes: a child may never exit.
- `Clipboard`: poller, installer and compositor loops run for ever with sleeps in
  between, and an application that has cleared the pasteboard sets its text. Readers
  need no fairness: what they wait for is up to a guest application.
- `Windows`: both event loops handle what is queued, timers fire, and an application
  answers a configure, which is what the protocol asks of it. The user and the
  application's own requests are not fair.
- `QuicFrames`: the tasks of both ends run. Datagrams are not fair: all may be lost.
  The viewer may stay open for ever.
- `Sessions`: threads and tasks run, a handshake that makes no progress times out (the
  code sets 2.5 s and the socket timeouts), and a client sees that its connection was
  closed. Users, crashes and faults are not fair.
- `Commands`: some process that can take its next step does. Calls to controld
  (call.rs:24), pings and the waits for sockets and processes have time limits in the
  code; the wait for a viewer to be closed has none, which `CommandsFinish` names; the
  ssh and scp children that `process::run` starts have none either, and that they end
  is an assumption on ssh.
- `Compositor`, `Gestures`, `Composer`, `Input`: no liveness is stated.

## Refinements

`Composer` implements `TextBuffer` (`Buffers`) and `QuicFrames` implements `ViewStream`
(`Delivers`). Both are checked as `PROPERTY` of their runs and proved
(`TextAlwaysBuffered`, `ViewDelivered`). Each abstract specification has three actions
and says what a reader of the interface may rely on.

## Proofs

Each `*Proofs` module proves invariants of its component for every value of the
constants: any number of instances, viewers, windows, surfaces, messages, copies or
events where the runs have two or three. The only assumptions are the ones the modules
name for their constants, which TLC evaluates in the runs. Where a theorem has a
hypothesis of its own, the run it belongs to sets its constants accordingly, and the
paragraph below says what goes wrong without it.

| Theorem | States | Hypothesis |
|---|---|---|
| `ControldProofs!TypeCorrect` | `TypeOK` | |
| `PortsAlwaysDistinct` | `PortsDistinct` | |
| `PidsAlwaysPinned` | `OwnedPidsPinned` | |
| `ServersNeverOrphaned` | `NoOrphanServer` | |
| `NeverTornSerially` | `NoTornState` | `OneSession`: one session at a time |
| `DurableSerially` | `TrackedIsDurable` | `OneSession`, `~DiskFaults` |
| `ClipboardProofs!TypeCorrect` | `TypeOK` | |
| `NeverEchoStorm` | `NoEchoStorm` | |
| `LastCopyAlwaysWins` | `LastCopyWins` | `Fresh`, `~Bursts` |
| `NothingStaleTracked` | `NoStaleTracking` | |
| `RootCommitAlwaysSettles` | `RootCommitSettles` | |
| `NoGhostEver` | `NoGhost` | `Opaque`, `IsHome` |
| `RectAlwaysCovers` | `RectCovers` | `Opaque`, `IsHome`, `Disposable` holds no child |
| `LastAlwaysInStep` | `LastInStep` | |
| `ModesAlwaysAgree` | `ModesAgree` | |
| `InputProofs!TypeCorrect` | the types of viewer keyboard and seat | |
| `FocusAlwaysAgrees`, `TextAlwaysInOrder`, `NoKeyStuck` | `FocusAgrees`, `TextInOrder`, `NoStuckKey` | |
| `ButtonsAlwaysBalanced`, `GesturesAlwaysEnd` | `ButtonsBalanced`, `GestureEnds` | |
| `EdgesAlwaysFixed` | `OppositeEdgesFixed` | `RoomyMonitor` |
| `PreeditAlwaysShowsHeld` | `PreeditShowsHeld`, which no run repeats | |
| `TextAlwaysBuffered` | `Buffers`: `Composer` implements `TextBuffer` | |
| `AssemblerAlwaysSound` | `AssemblerSound` | |
| `ViewDelivered` | `Delivers`: `QuicFrames` implements `ViewStream` | |
| `SessionsProofs!TypeCorrect` | `TypeOK` | |
| `CountAlwaysAgrees`, `NameAlwaysOwned`, `InputAlwaysReachesView` | `CountAgrees`, `OwnsName`, `InputReachesView` | |
| `TlsAlwaysAgrees`, `BootstrapAlwaysMends` | `TlsAgrees`, `BootstrapMends` | |
| `LoginsAlwaysMend`, `LibraryAlwaysCurrent` | `LoginsMend`, `LibraryCurrent` | |
| `OwnServerAlwaysReached`, `StopAlwaysClean` | `ReachesOwnServer`, `StopIsClean` | |

All but `PreeditShowsHeld` need a stronger invariant than they state. One lemma per
action shows that it preserves the part it can disturb; the strengthenings were checked
with TLC on the runs' constants before they were proved.

**Controld.** `PortsDistinct` is not inductive: the conflict check and the insertion are
several steps apart, and a restart loads a map from disk. `IndInv` adds

- `LockHeld`: the mutex is held across steps exactly by a thread inside
  `start_instance`;
- `DownIsIdle`: threads exist only while the daemon does;
- `LocalsSet`: a thread has the locals its label needs;
- `PortReserved`: between check and insertion no entry has the port, which holds
  because nobody else can insert;
- `CopiesDistinct`: the copies in flight, in `state.bin.tmp` and in `state.bin` have
  distinct ports, so a restart cannot bring a conflict back.

`OwnInv` adds for `OwnedPidsPinned` that the child a thread holds and the entry it has
removed are unreaped processes of this daemon (`ChildHeld`, `VictimHeld`) and that no
two of them share a pid (`ServersApart`, `ChildrenApart`): waiting for one process must
not free the pid another holds. `OrphanInv` adds for `NoOrphanServer` that a start
overwrites only an entry it has taken out (`StartReady`), that a daemon that is down has
no map (`DownEmpty`) and that a file that is not whole has no entries (`FilesWhole`).
`TornInv` says that the flush of a single session, or of startup, owns the temporary
file from open to rename (`WholeWrite`); `WritesMap` that it writes the map as it is.
`OneSession` is needed because `flush()` writes without the mutex: `Controld_torn.cfg`
is the counterexample with two. `~DiskFaults` is needed because a request whose flush
fails has changed the map.

**Clipboard.** `EchoInv` bounds the frames by `changeCount`, that by what has been
copied or waits to be installed, and that by the copies. `LastInv` follows the last copy
on its way: the serials on the wire rise and only the newest frame can be applied last
(`Ordered`), at most one guest copy is on its way up (`OneUp`), and the winner is at its
goal or at one of the stages before it (`GuestWins`, `HostWins`). With a text copied
twice `Clipboard_echo.cfg`, and with bursts `Clipboard_order.cfg`, show how the last copy
loses.

**Compositor.** For `NoStaleTracking`: a role object may go after its surface, so `Roles`
says which map a surface of each role can be in; nothing is used about where a surface is
on the screen. For what the viewer shows, `BaseInv` links a window, its toplevel and its
framebuffer (`Linked`) and says that a cached root buffer has the window's size (`Sized`).
`GhostInv` adds that a child is routed to, tracked for and seen in the window of its
toplevel only (`Homed`, `Placed`), and that a popup whose pixels are seen is still routed
while its root can be painted again (`Routed`); `Tracked` says the same of the rectangle
recorded for a child. `WindowOffset` walks up the parents: that it reaches a root is shown
by induction over the depth, in set form (`LeastMember`), from `ForestAssumption`. The
hypotheses are needed: over a transparent root a popup stays visible
(`Compositor_shadow.cfg`); a surface that is attached to another toplevel later
(`IsHome` excludes it) leaves its pixels in the first; and a child whose wl_buffer was
destroyed loses its rectangle without a repaint (the hazard at mod.rs:2069).

**Windows.** For `LastInStep`: a window leaves macOS's own fullscreen for another size
than it has there (`Steady`), so that a Resized event is queued whose handler repairs the
cache. No message finds its window missing, because a window is created in the viewer
before anything else is said of it and nothing is said after its destruction (`Channel`),
which rests on ids not being used again (`FreshIds`). `ModesAgree` needs `ModeInv`: the
last message on its way about a window's fullscreen state is true, and when there is none
either the viewer's cache is true or the viewer has asked and will be answered (`Heard`);
a window is announced once (`Once`); with host chrome nobody toggles a maximized window
(`NoToggle`).

**Input.** `IInv` is the conjunction of

- `Numbered`, `Hosted`: window numbers are below the next one wherever they are spoken of;
- `Sent`: the texts on their way are in the order they were typed;
- `SeatFine`: the focus is a living window, and what is delivered, queued and on its way
  continue each other in order;
- `Tracked`: a key that is down in the guest, or will be once what is on its way is
  handled, is in the viewer's table for the window with the focus, and the modifiers
  counted are those in the table;
- `IsHeld`: what is in the table is held, a modifier at least as often as counted, unless
  the host kept a release.

`FlushPending` handles any number of queued texts in one step; what it keeps is shown by
induction over the texts, again in set form (`Induction`, from `LeastMember`). `TextInOrder` speaks of texts whose window still lives.
Without that it is false, which TLC shows with seven events and no keys: text of a closed
window waits in the queue, later text of the same window is committed at once in the
window that has the focus by then.

**Composer.** `PreeditShowsHeld` is inductive. For `Buffers`, `Takes` says of one
transition of a composer that what it commits and what it then holds spell what it held
and what was typed. It is shown for every branch of `PushConsonant`, `PushVowel`,
`SplitFinal`, `ApplyMark` and `PushKana` by taking the tables apart (a compound vowel
or a double final spells its two parts), and then for a whole text by induction. `BufferInv`
says that what is pending is a glyph of the composer in use, and what was sent a text.

**Gestures.** A press begins exactly one gesture (`OneGesture`), a suppressed release
belongs to the titlebar (`TitlebarAlone`), and after the release there is none (`AtRest`).
For the edges, no step makes the window smaller than the smallest (`MinSize`); a tile to
half of a monitor could, if the monitor did not take two windows side by side. That it
does is `RoomyMonitor`: 480 by 320 pixels, twice `MIN_VIEWER_WIDTH` and
`MIN_VIEWER_HEIGHT`. `Gestures` and `Composer` share the module `InputProofs` with `Input`.

**QuicFrames.** For the ordered channels (`StreamInv`): a message that is written goes
behind all earlier ones of its window, because the window's stream is the one
`channel_streams` names or nothing is left to read. For the tiles (`TileInv`): a frame
number names one message, a chunk is in flight or in the table but not both, and a tile
that went on a stream lacks a chunk for ever. Both together give the step part of the
refinement: every step maps to a step of `ViewStream` or to a stutter.

**Sessions.** A running session keeps the socket name because no other one is about to
unlink the files (`Holder`), and none gets there because the probe finds the owner
listening (`Listeners`). The count needs that a connection enters it once (`Unmade`).
`OwnsName` and `InputReachesView` excuse the two windows socket.rs leaves open (`raced`).

**Commands.** A command is a list of steps, so the invariants go by what a thread has still
to do. `Lined` says which steps there are (`Formed`) and that, while commands have not
overlapped, at most one thread has steps that touch the TLS files, the machine stores or
vbox.app (`Solo`). For every list of such steps a thread can have left, `Keyed` says which
files are of the one CA and which certificates have the key beside them, `Built` whether
the binary is that of the source, and `Kept` what the two JSON files, their `.tmp` files,
the copies in memory and the keychain hold for each machine. `Keyed` and `Kept` are kept
also when commands fail or are killed. The first rests on the order of the writes: a
server certificate is of use to the daemon only with its key, so that a daemon never
loads what was left half-written (`OneCa`), and leaves are signed by the key of the CA
that is on disk. The second rests on the password being stored before a store says that
there is one. `LibraryCurrent` is stated for commands that run to their end. The
assumptions are `HostsAssumption` (a remote host is no virtual machine, and a virtual
machine's account is its own) and `MixesAssumption` (a machine command names a machine,
any other an instance).

The commands on an instance have too many lists of steps to go through one by one. `Fit`
says instead in which order the steps come in each of them: which step follows at once
(`Chained`), and that between two marked steps others do not occur (`InOrder`): between
`start` and `ping` a command does not change its instance or port, between `kill.viewer`
or `kill.tunnel` and `kill.control` it starts no viewer and no tunnel. It is shown of
every command by putting its list together from pieces, and of what is left after a step.
`Situated` adds that such a command is about an instance. Two invariants rest on it:

- `OwnServers`, for `ReachesOwnServer`: no two servers have a port in common, and a thread
  that has started its server and has still to ping has the port of that server, unless
  the server was ended. Nothing is used about instance-ports.tsv: whatever the races for
  it hand out, controld refuses a port another server has.
- `Tidy`, for `StopIsClean`: while commands have run one at a time, a process that runs
  and is not leaked is named by the pid file of its kind and instance (`Named`), or it is
  the one whose pid a thread is about to write or for whose end a launcher waits
  (`Awaited`); and from `kill.viewer` or `kill.tunnel` on, the instance has no such viewer
  or tunnel (`Ended`). At `kill.control` only a named control tunnel can be left.

Only model-checked is liveness under fairness (`RequestsFinish`, `HostCopyArrives`,
`Settles`, `EventsArrive`, `ViewerSettles`, `SessionsEnd`, `CommandsFinish`), which is out
of the prover's reach. Every other property of the runs is stated by a theorem, some under
the hypotheses named above.

## Not modelled

`components` in PROJECT.json has a reason for each part.

- Wire framing is a sequential codec with round-trip tests, and appears as reliable
  ordered channels.
- The volume bridge sends one value in one direction without an answer.
- The inotify wait for the Wayland socket is one step of `Stack`.
- Debug dumps, argument parsing, printing, icons, machine probing and the SwiftUI front
  end are input and output without state that another part reads.
- In the viewer: drawing, themes, titles, scale factors and scrolling.

## Plan

1. The volume bridge and the socket wait, as small modules beside `Sessions` and `Stack`.
2. The hypotheses of `NoGhost` and `RectCovers`: a weaker one than `Opaque` that speaks of
   what the root of a popup covers.
