# TTBOX in TLA+

TTBOX is the software of an RK3588 box that captures an HDMI signal, runs a
neural detector on it, selects a target and emits mouse reports over a USB
gadget.  A C++ core (`core/`), a USB proxy (`usbproxy/`), a Python web console
(`plugins/web`), a plugin framework (`framework/`), release and OTA scripts
(`scripts/`) and a cloud licence service outside the repository make up the
system.  This directory holds TLA+ modules of its control logic, the TLC
configurations that check them on small instances, and TLAPS proofs.

Run a configuration with `tlc -workers 2 -config X.cfg M` and a proof with
`tlapm M.tla`; `PROJECT.json` lists every run with its module, the source lines
behind every definition, a mutated definition that each property catches, the
hazards and the findings.

## 1. Inventory

Every component, the state it keeps, its operations, who it talks to, what is
hard about it and what makes it correct.

| component | state | operations | talks to | hard | correct when |
|---|---|---|---|---|---|
| Licence authority (`auth/LicenseDaemon`, `OfflineCardClient`, `LicenseStore`, `LicenseGate`, licence handlers of `app/Application`) | status and card under a mutex; `license.json`, `state.json`; the published snapshot | activate, activate_cloud, deactivate_cloud, verify_now_blocking, the daemon scan, heartbeat, boot | IPC threads, main thread, disk | locks are released between the steps of one request; crash between two files; stale publication | a status never mixes licences; the gate opens only for accepted ones; refusals roll back; acknowledged activations survive |
| Online licence check (`auth/TtboxLicenseClient`, `LicenseDaemon::do_check_cycle_locked`) | status, backoff, next check | card-login, retry, fallback | licence server over HTTP | outage against refusal, backoff against expiry | fail-open on outages, fail-closed on refusals, bounded by the expiry |
| Licence files (`auth/LicenseStore::write_file_atomic_`, `load`) | one file and its temporary | write-rename, load with clean-up | several writers and readers, crashes | fsync and rename order, one temporary name per process | a reader sees one written document, whole |
| Runtime lifecycle (`runtime/CoreRuntime`, `app/Application::run`, `RuntimeIntent`) | wanted and actual runtime, persisted intent, post-update check, watchdog | start, stop, retry, watchdog recovery, check after an update, model switch | capture, workers, aim thread, IPC, licence gate | one lifecycle mutex against callbacks and retries; crash between persistence and action | what the user last asked for wins; a failed start leaves nothing running |
| Frame pipeline (`capture/V4L2Capture` with `LatestFrame`, `rknn/WorkerPool`, `pipeline/AimTargetMailbox`, the scan of `aim/AimThread`, `preview/PreviewModule`) | a ring of driver buffers, one newest frame, one slot per worker, last frame number | fill, dequeue, publish, release, claim, infer, offer, take_latest, start, stop, reload | a thread each | shared frames against buffers that are written again, out-of-order workers, restarts | no buffer lost or queued twice, no task of another session, nobody reads unmapped memory |
| Inference and decoding (`rknn/RKNNEngine`, `Preprocess`, `rga/RgaProcessor`, `DecodeNMS`, `DetectionGeometryFilter`, `model/ModelAdapter`) | NPU memories and their binding, the RGA's middle buffer; decoding keeps none | set up, preprocess, infer, decode, filter | NPU, RGA | a binding that cannot be undone, set-up that fails half-way, five output layouts | the NPU reads the frame it is asked about; a model is decoded as its adapter says |
| USB proxy (`usbproxy/*`) | endpoints, queues and threads of a setting; pending motion and button mask; the transfers in flight | start-up, EP0 requests, forward, inject, reset, stop | raw-gadget, libusb, core | threads that are stopped by flags and signals, queues that are freed under them, one pending motion for two senders | no thread or sink outlives its queue, motion is neither lost nor doubled, stopping ends |
| Aim and output (`aim/AimThread`, `mouse/AimStateMachine`, `mouse/TriggerController`, `output/*`, `controller/*`) | suspension, remainder, triggers, button to release | decide, emit, release, reset | pipeline, usbproxy | the user and the configuration act between the steps of a frame | what is sent belongs to the press of now |
| Target selection and lead (`mouse/TargetSelector`, `LeadPredictor`, `RecoilController`) | tracks, lock, ages | update per frame | AimThread | long sequences of frames, hysteresis, three layers of matching | one lock, not given up early, never on a ghost |
| Model registry (`model/ModelRegistry`, `ModelPackage`) | packages on disk, selection | import, validate, install, select, remove | runtime, disk, IPC | death between file operations, retries, files replaced outside | only a checked package is published or selected |
| IPC server (`ipc/IpcServer`) | sockets, live connections | accept, serve, drain | web console, scripts | one detached thread per connection, limit, stop | no handler outlives the objects it uses; slots come back |
| Configuration (`config/ConfigManager`, `model/RuntimeProfile`, configuration parts of `app/Application`) | layers of `config.d`, profile, difference to the baseline | load, repair, migrate, patch, save | IPC, disk | saves cut off anywhere, a release that changes the baseline | disk and memory agree; a release changes what the user left alone |
| HID capture and forward (`hid/*`, `common/SpscQueue`) | ring, threads; packages of a command line tool | open, forward, stop | hidraw, gadget | ring without locks, hot unplug | in order, once, lost only by overflow |
| OTA (`scripts/ttbox_ota_updater.py`, `ttbox_release_install.sh`, `plugins/upgrade`) | staged release, `current` link, status file | check, download, verify, install, roll back | systemd, core | power loss at every step | the link names a complete release |
| Cloud session (`plugins/web/lib/cloud_client.py`, `cloud_session.py`, `heartbeat_worker.py`) | session token, last heartbeat | login, heartbeat, revoke | cloud, core IPC | late answers after logout | a logged-out session does not reactivate |
| Web console, plugin framework, Wi-Fi manager | login sessions, plugin states, AP or station mode | HTTP handlers, load and start, connect | core IPC, scripts, NetworkManager | failing plugins and calls | thin over the core |
| Preview, V1 platform skeleton (`platform/*`), `ttbox_motion`, training, tools, deploy, docs | none that feeds back | | | | |

### Behaviours that are hard here

* The core releases a mutex between the steps of one request almost everywhere:
  `LicenseDaemon::activate` takes `mu_` five times, `Application` publishes a
  snapshot it read earlier, `IpcServer` runs every connection in its own
  detached thread.
* Persistence is by separate files: `license.json`, then `state.json`; the
  runtime intent, then the running state; package files, then the selection.
  A crash can fall between any two of them.
* The network fails in classes (no answer against a refusal) that have to be
  told apart, and time passes while backing off.
* Hand-overs between threads keep only the newest item, so an item can be
  skipped or arrive late, and a component can restart under its neighbour.
* The USB proxy stops threads by flags it takes back afterwards and by signals
  that interrupt only a thread that is inside its system call, and frees the
  queues they use.
* The pending motion of the proxy has two senders that each take it and give
  back what they could not send.

The `hazards` of `PROJECT.json` list the forty that matter most, at their lines.

## 2. How the modules fit together

| module | of | built on |
|---|---|---|
| `LicenseStateMachine` | the pure state machine of a licence | |
| `LicenseDaemon` (proofs `LicenseDaemonProofs`) | the licence authority, its files and its gate | `LicenseStateMachine` |
| `LicenseOnline` (`LicenseFileProofs`) | the check cycle against the server | `LicenseStateMachine` |
| `LicenseFile`, `AtomicRegister` (`LicenseFileProofs`) | one file by system calls, and the register it implements | |
| `CoreRuntime` | the runtime object, as operators | |
| `RuntimeLifecycle` (`RuntimeLifecycleProofs`) | main loop, control, model switches, updates | `CoreRuntime` |
| `V4L2Capture` | the ring of buffers and the newest frame | |
| `FramePipeline` (proofs `FramePipelineProofs`) | capture, workers, mailbox, aim scan, preview | `V4L2Capture` |
| `InferenceEngine` (proofs `FramePipelineProofs`) | one worker's NPU and RGA memories | |
| `DetectionDecode` | outputs to boxes, as operators | |
| `UsbEndpoints` (`UsbEndpointsProofs`) | EP0 loop, endpoint threads, signals, hotplug | |
| `SyntheticMouse` | the same proxy without a mouse, its injectors | `UsbEndpoints` |
| `InterruptRing` (`UsbEndpointsProofs`) | the ring of libusb transfers of one reader | |
| `UsbDescriptors`, `UsbRules`, `UsbTransfers` | placement and rewriting, injection rules, control and bulk transfers, as operators | |
| `MouseControl` (`ReportPathProofs`) | pending motion, button mask, event subscription, and the core's reader of it | |
| `HidLayout` | report descriptors and the merging of reports, as operators | |
| `HidForward`, `BoundedQueue` (`ReportPathProofs`) | the forwarder daemon and its lock-free ring, and the queue the ring implements | |
| `AimDecision` | aim state machine and the two triggers, as operators | |
| `AimControl` (`ReportPathProofs`) | the loop of the aim thread | `AimDecision` |
| `TargetSelector` (`ReportPathProofs`) | `select` with its tracks and layers | |
| `ModelRegistry` | the model library between its file operations | |
| `IpcServer` | connections, their limit, the stop | |
| `ControlPlane` (`ControlPlaneProofs`) | requests through `IpcServer` into `ModelRegistry` | both |
| `ConfigStore` (`ControlPlaneProofs`) | layers, repair, migration, requests, saves | |
| `OtaUpdate` (`OtaUpdateProofs`) | job files, updater, installer and rollback | |
| `MC...` | instances for TLC; the checks of the pure operators | |

Two modules that share no state may be explored in one run, *side by side*:
from one set of initial states, either moves as long as the other is still in
its initial state (`MCNext` of each `MC` module).  The behaviours of such a run are
exactly those of the one and those of the other, so an invariant or a step
property holds in it when it holds in each.  Fairness is stated of one of the
two only, and the liveness properties are about that one: once it has moved the
other cannot, so its behaviours and their fairness are those it has alone.  The
other one is checked for safety only.

Pure operators (`DetectionDecode`, `UsbDescriptors`, `UsbRules`, `UsbTransfers`,
`HidLayout`) are checked by the named assumptions of the `MC` modules, which TLC
evaluates over every input of a small set before it explores anything; what can
be said of them for every input is proved (section 6).

Abstract specifications: `AtomicRegister`, what the callers of a licence file
take it for, and `BoundedQueue`, what the two threads of the HID forwarder take
their ring for.  A next step would be the register for the model selection.

## 3. The modules and the code

### Licence: `LicenseStateMachine`, `LicenseDaemon`, `LicenseOnline`

`LicenseStateMachine` has the pure functions of `LicenseStateMachine.hpp`:
`ApplyCheckResult` (success, refusal, network-class failure with its fallback),
`NextBackoff`, `AllowRun`.  A status is a record of state, time of the last
check, expiry, next check, and `grant`, the licence whose features are in force
(feature lists are compared only by where they come from).

`LicenseDaemon` is the offline build.  Threads are IPC callers and `Main`; `pc`
names where a request stands, and every step of a request is one section of
the code between two acquisitions of `LicenseDaemon::mu_`, so the order in
which `activate` reads the baseline, installs the card, judges it, rolls back,
and saves `license.json` and then `state.json` is that of the source.

| state | code |
|---|---|
| `status`, `card`, `cloud` | `status_`, `card_`, `cloud_active_` under `mu_` |
| `disk` | `license.json` and the baseline of `state.json` (missing, corrupt or a number) |
| `gate` | the snapshot of `LicenseGate`, published by `Publish` after `TakeSnapshot` |
| `pc`, `call` | where each IPC handler is, its arguments and the snapshots it took on entry |
| `acked`, `attempted`, `quiet`, `revoked` | history used by the properties |

A card is a model value with an expiry, an issue date and a verdict: signing,
canonical JSON and the machine binding (`foreign`) are the verdict.
`EarlyIpc` lets requests arrive while the start-up check runs, as in
`Application::run`, where the IPC server is started before.

`LicenseOnline` is `do_check_cycle_locked` with `TtboxLicenseClient`: each check
gets an acceptance, a refusal or no answer, and sleeps for the backoff or the
heartbeat.

### Licence files: `LicenseFile`, `AtomicRegister`

`write_file_atomic_` system call by system call: unlink of the old temporary,
open, writes, fsync, read-back, rename, fsync of the directory, each failing or
not; `load` in any other thread, which removes temporaries; kill and power loss
anywhere.  Entries and contents have an image on disk that follows on its own
or by fsync.  The temporary is named after the process, as in the code.
`AtomicRegister` is what the callers take the file for: `Put` replaces the
document in one step, `Settle` makes it durable, power loss returns to what is
durable.

### Runtime: `CoreRuntime`, `RuntimeLifecycle`

`CoreRuntime` is the object itself as functions from record to record:
`Initialized`, `Running`, `Stopped`, `RolledBack`, `WithPool`, `Inferred`.
`RuntimeLifecycle` is who calls them: `Application::run` (first start, retry,
watchdog, commit of the model that decodes its first frame, end of the
post-update check), `RUNTIME_CONTROL`, `MODEL_ACTIVATE`,
`MODEL_SET_CONCURRENCY`, licence publications, the OTA scripts (as the states
they write and the restarts they cause), kills.  `runtime_lifecycle_mutex_` is
the variable `txn`: a model switch waits for a first frame with the mutex held,
and every other user of it needs `Idle`.  `ApplyGates`, `FirstFrame` and the
fault and licence changes are not under it, as in the source.

| state | code |
|---|---|
| `intent`, `profile`, `active`, `version`, `bootVersion`, `ota` | files: runtime intent, profile, `active.json`, installed release, `core_boot_version`, the status of the updater |
| `want`, `smoke`, `waiting` | `runtime_wanted_`, `post_update_smoke_`, the wait of the main loop for a first frame |
| `core` | the `CoreRuntime` object: up, pool, readiness, gates |
| `runningId` | the published current model |
| `txn` | the switch under way: stage, kind, target, what to go back to |

### Frames: `V4L2Capture`, `FramePipeline`

`V4L2Capture` is the ring.  A buffer is in the queue of the driver, filled
(`done`), or captured; `LatestFrame` and the consumers hold frames, and a
`shared_ptr` is alive while one of them does.  `Superseded` notes for the frame
that is replaced the index the code notes (`index`, that of the new frame), and
`Ready`/`Returned`/`Kept` are `release_ready_buffers`, which runs at the head
of each turn and at its end.  The driver (`Fill`) is external.

`FramePipeline` adds the threads.  `plan` is what `CoreRuntime::stop` or
`reload_workers` has still to join, in the order of the code (preview, aim,
workers, capture); a thread is told to stop when it is at the head.  A worker
takes the frame whose number is its own modulo the number of workers, holds it
while preprocessing, infers, and offers to its slot; `Scan`/`Look`/`Aim` are
`take_latest`, slot by slot while the workers go on.

### Inference: `InferenceEngine`, `DetectionDecode`

`InferenceEngine` follows the pixels of one worker.  Loading (`Init`, query,
input memory, binding, output memories, decoder) fails at any step and falls
back as the code does; a binding of the NPU's input cannot be undone
(`ctx.input`), which is what makes a fallback delicate.  A frame then goes
through the RGA (with its middle buffer when it crops and resizes), the copy or
the DMA buffer, and `rknn_run`, which notes in `seen` what it read and for
which frame.

| state | code |
|---|---|
| `ctx`, `mems`, `ready`, `bound` | the RKNN context and its binding, `input_mem_`/`output_mems_`, `zero_copy_ready_`, `bound_input_dma_fd_` |
| `content` | what the NPU's input memory, the RGA's buffer and the runtime's own copy hold |
| `middle`, `size` | the middle buffer of `RgaProcessor` (size noted, handle, mapping), the size asked for |
| `model`, `options` | what the file says of its input, `pass_through` and `external_dma_input` |

`DetectionDecode` is functions: `DecodeType` (what `ModelAdapter` says of a
model), `Process` (what the decoder does with it), one operator per output
layout, `Nms`, `PostFilter`, `Paired` (heads and bodies), `MapCoords`, `Finish`.
The sort is not stable, so an order is any of `Orders`.

### USB proxy: `UsbEndpoints`, `SyntheticMouse`, `InterruptRing`, operators

`UsbEndpoints` has the start-up (scan, probe, set-up), the EP0 loop with its
ioctl (`armed`, `fetch`), `terminate_eps` step by step (flag, signal, join,
clean), `start` of the threads of a setting, reader and writer of each
endpoint, the injector's push into a sink, signal handler and hotplug callback.
A thread is told to stop by `stopAll` (reset and reconnection) or by its own
`stopEp`, and a signal ends an ioctl only if the thread is inside it: a reader
at `work` after the signal stays.

| state | code |
|---|---|
| `pc`, `job`, `at`, `last` | where `ep0_loop` is and for which reason it stops endpoints |
| `rd`, `wr`, `stopEp`, `live`, `len` | the two threads of an endpoint, its flag, whether queue and mutex are allocated, the length of the queue |
| `sink`, `inj` | `inject_sinks`, and the injector under `inject_sink_mutex` |
| `stopAll`, `stopEp0`, `stopSent`, `signalled` | the flags of `proxy.cpp` and `usb-proxy.cpp` |
| `ready`, `expected`, `layout` | the interfaces whose report descriptors arrived, and what came of them |

`SyntheticMouse` is the same program started without a mouse
(`usbproxy/synthetic.cpp`): the EP0 loop of its own, and injector threads that
read their generation only once they run.  `InterruptRing` is the ring of
`device-libusb.cpp`: submission before counting, one callback at a time,
cancellation and the wait for the last transfer.

`UsbDescriptors` (placement on the endpoints of the UDC, addresses both ways,
intervals, packet sizes, choice of a setting), `UsbRules` (modify, stall, ignore,
operations on bytes) and `UsbTransfers` (`send_data`, control requests,
isochronous batches) are operators.

### Mouse and HID: `MouseControl`, `HidLayout`, `HidForward`, `BoundedQueue`

`MouseControl` has the command threads (moves, and the load-modify-store of
`BUTTON_CMD`), the injector clock (take, send, give back), the endpoint reader
that merges pending motion into a physical report (take, merge, write or give
back), the subscribers of `event.sock`, and `PhysicalMouseReader` of the core at
their other end.  `owed` is history: what was accepted minus what was sent or
dropped at a limit.  `HidLayout` parses report descriptors (ids, ranges,
padding, wheel) and builds and merges reports.  `HidForward` is the forwarder:
each access of its two threads to the ring of `SpscQueue` (`head`, `tail`, slot
sequence, data) is a step; devices fail and the process is told to stop at any
point.  `BoundedQueue` is the ring as its users see it: `Offer`, `Accept` or (when
it is full) `Refuse`, `Take`.  Mapped onto it, a read offers, the store that publishes
a slot accepts, the one that frees it takes, the failed comparison of `try_push`
refuses, and every other access is no step at all.

### Aim: `AimDecision`, `AimControl`, `TargetSelector`

`AimDecision` has `AimStateMachine::update` (`NextSM`) and the two triggers as
functions from record to record.  `AimControl` is the loop of `AimThread`: a frame
reads the buttons and configuration once, resets what a released press must
not keep, decides, and sends packets, each of which passes `OutputGate`, which
reads both again.  The user presses and lets go and a configuration is set
between any two steps.

| state | code |
|---|---|
| `suspended`, `rawGuard`, `allowedLast` | `hotkeys_suspended_`, the guard's bit of `last_raw_buttons_`, `last_injection_allowed_` |
| `sm`, `one`, `two` | `state_machine_` and the two triggers of `trigger_` |
| `release`, `throttle`, `carried` | the button to release and when, `trigger_throttle_frames_`, where the remainder comes from |
| `host` | what the receiver has down and the last motion it got |

`TargetSelector` is `select`: matching of tracks through the layers (lock,
rectangle, reuse), grace, cooldown, hold and hysteresis, new tracks and trim.
Boxes have one coordinate; squares of distances and ages in frames stand for
floats and clocks.

### Control plane: `ModelRegistry`, `IpcServer`, `ControlPlane`, `ConfigStore`

`ModelRegistry` keeps, for each identifier and each place (the current layout,
the older layout, staging), a directory with four facts: the content of `model.rknn`, the
checksum of the manifest, whether it has the dimensions a validation writes,
and the checksum in `ok.json`.  Operations are sequences of file operations,
each of which may fail or be the last one before the process dies.

`IpcServer` has the accept thread, the connections with their timeouts, the
limit with its counter, and `stop` (join, shut, drain).  `ControlPlane` joins
the two: a connection thread waits for the lifecycle mutex, runs an operation of
the registry, answers or throws, and the client may be gone; `Destroy` is the
application object that goes away after `stop`.

`ConfigStore` is the layers of `config.d`: load, difference to the baseline,
profile with its repair, the migration of the output switch, requests, and the
save (write, sync, rename, sync of the directory, publication), with a new
release that replaces the factory layer under a running core.

| state | code |
|---|---|
| `factory`, `device`, `durable` | `00-factory.json`, `10-device.json`, what of the latter a power loss may leave |
| `base`, `root` | `ConfigManager::layer_base_`, `root_` |
| `profile` | the `RuntimeConfig` in force, with `zero_copy_input_set` |
| `pc`, `job` | where the program stands, and the save under way |

### Updates: `OtaUpdate`

The console creates a job file and then writes it; a path unit starts the
updater as long as there is one.  `process_jobs` and `OtaUpdater.run` are
followed from step to step: download and signature, unpacking, merging a
delta with the current release, the check against a downgrade, the installer, the health
check, the rollback, the archive.  The installer copies, checks the copy,
publishes it (with a release of the same name moved aside), switches the link,
checks the units, restarts, probes and prunes.  Between any two steps both may be
killed (the unit has a timeout) or power may fail, and any call may fail:
`Dies` is `set -e`, which does not see what stands in a condition.  What is left
stays in `dirs` under its name and is met by the next update.

| state | code |
|---|---|
| `dirs` | the directories of `/opt/ttbox/releases` by version and suffix (`<ver>`, `.staging`, `.ota.staging`, `.ota.staging.full`, `.old.*`), whether complete, and the order of their times, which `list_versions` sorts by |
| `current`, `serving` | the link, and the release the services were started from |
| `jobs`, `status` | the job files in the order of their names; the state in `ota_status.json` |
| `upd`, `ins` | where the updater and the installer stand; `ins.tree` is the previous release to go back to, and later the tree being removed |

What a release does is a constant (`Fit`): it works, works but for the USB proxy
(only the updater looks at that), does not answer, has a unit that cannot run,
or has no units.  `RuntimeLifecycle` knows an update by its status and the
restart it causes; the two are checked side by side, not composed.

## 4. The runs

| run | question | bounds |
|---|---|---|
| `license` | do activation, rejection, revocation, persistence and restart keep their contracts, and does the gate close after expiry? | 1 caller, the daemon thread and the start-up check; 2 cards (older, forged), 1 cloud licence, clock 3, 2 requests, 1 crash, 1 failed write |
| `license_file` | is a file a register, across failures? beside it: fail-open on outages, fail-closed at expiry? | 1 writer, 2 documents of 2 chunks, 1 failing call, 1 kill or power loss, 2 process ids, 4 inodes; clock 16: two full backoffs and heartbeats past the longer lifetime |
| `lifecycle_models` | is what is published ready, what runs licensed? beside it: is the current release there and whole, does every update end? | 2 models, 3 licences, worker and inference faults, files that fail to be written; 6 releases, 8 packages, 2 jobs, 1 kill or power loss, 2 failing calls |
| `lifecycle_live` | does a stop hold, does the check after an update end, does a wanted runtime recover? | 1 model, 2 releases, 1 kill, 1 update, capture faults, the licence published once more |
| `pipeline` | are buffers accounted for, is nothing read after it is unmapped, do tasks stay in their session, does a stop end? beside it: does the NPU read its frame? | 2 buffers, 3 frames a session, 2 sessions, 2 workers, 1 poll failure, 1 reload; 2 sizes, 2 outputs, 3 frames |
| `usb_endpoints` | do queues outlive their users, do threads leave with their setting, does stopping end? beside it the transfer ring | a mouse endpoint and an OUT endpoint in setting 1 of a second interface, queue of 1; 2 injectors; 2 transfers, 1 report waiting |
| `mouse` | is motion conserved and drained, does the core's view of the buttons catch up? beside it: is the HID ring a queue? | 1 client, 1 subscriber, 1 button, 2 deltas above the limits, 1 move, 1 command, 2 reports, 1 refusal, 1 lost connection; ring of 2, 5 reports, 1 fault |
| `aim` | does what is sent belong to the press of now? beside it: one lock, not given up early, on no ghost? | 3 configurations, 1 change, 2 sessions, 3 presses; 6 places, frames of up to 3 boxes, 2 tracks kept, 3 created |
| `control_plane` | is the library whole and checked through retries, faults and deaths, does the server drain? beside it: do disk and memory agree, does a release keep settings? | 1 model, 2 contents of which 1 loads, 2 connections at a limit of 1, 1 mishap; 4 device files, 2 baselines, 2 requests, 2 faults, 2 crashes, 2 releases |
| `license_revoked` | (violation) a revoked licence stays locked | 2 callers |
| `pipeline_kept` | (violation) a frame in use is not written | 3 buffers, 4 frames |
| `config_zerocopy` | (violation) an absent zero-copy key follows the global one | no request |

Why the bounds are enough.  One caller of the licence is checked beside the
daemon thread, the heartbeat and boot; that the status never mixes two licences
and that the gate is sound for *any* number of callers is proved (section 6).
A kill or a power loss leaves a temporary behind that the second process id
meets; four inodes cover the document in memory, the one on disk, a left
temporary and a new one.  Two models are the old and the new one of a switch.
Two workers are the smallest number with an order, two sessions the smallest
with a left-over, two buffers the tightest ring (the pipeline's invariants also
hold with three buffers and four frames, 4.9 million states).  An IN endpoint
that injects and an OUT endpoint in another setting are the two kinds that are
stopped in different ways.  A delta above one report and above the backlog
makes motion be split and cut.  A ring of two is the smallest `SpscQueue` works
with, and five reports go around it twice.  Three frames of distance cover
grace, cooldown, hold and the buffer of tracks, which are two or three.  One
identifier has every place a package can be in; the identifiers of the
registry meet only in the selection.  Requests and releases in
`ConfigStore` change leaves of each kind (shared with the baseline, own, of
three states, repaired by a range).  Two jobs let the second meet what a killed
or failed first one left, under the same version or another, and a kill with
two failing calls covers a rollback that fails as well; with two kills and
three failing calls the properties hold too (a million states).

Symmetry is used in `license_file` only, over documents, inodes, process ids and
writers; its properties are invariants and step properties.

`CHECK_DEADLOCK FALSE` is set where the system really may stop: the licence
process stopped for good (`LicenseFile.cfg`), the last of the bounded sessions
(`FramePipeline`), the end of the proxy, of the core, or of what clients and
mouse have to say.

### Fairness

* `LicenseDaemon`: weak fairness of the daemon scan, the heartbeat, the clock
  and of every started request, since each is a loop with a timed wait or a
  handler without one; no fairness of arrivals, crashes or failures.
* `RuntimeLifecycle`: weak fairness of the main loop, of a switch under way
  (its wait for the first frame has a deadline), of frames of healthy hardware,
  and of `Boot` (systemd restarts the service).  `SmokeEnds` assumes that the
  lifecycle mutex is finally free: `std::mutex` is not fair, and a user who
  activates models without end could keep the main loop out.
* `FramePipeline`: weak fairness of every thread, because no wait in them lacks
  a timeout (`poll` waits 50 ms to 1 s, `wait_new` has a timeout, the aim
  thread sleeps).  The driver is not fair: it may stop delivering.
* `UsbEndpoints`, `SyntheticMouse`: weak fairness of EP0's steps and of each
  thread's steps outside its ioctl; a writer's ioctl ends because the host
  polls IN endpoints.  Strong fairness of `Clean`, which needs a mutex the
  injector takes again and again.  No fairness of the host, the user's signals or the
  mouse: `StopsEnd` names the one wait on the host that remains.
* `MouseControl`: weak fairness of each thread; lost connections are bounded.
* `OtaUpdate`: weak fairness of the updater and the installer, whose waits all
  have timeouts and which systemd starts again as long as there is a job.  Kills
  and failing calls are bounded; nothing is assumed of the console.  At its
  end the MC module lets the run stand still, so that the deadlock check of
  both sides stays on.
* `ControlPlane`: weak fairness of threads; a silent client is bounded by the
  socket timeouts (`ReadEnds`).  Strong fairness of `Handle`, a lock that
  others release again and again.

## 5. What the checks show

Held, and easy to get wrong:

* the licence in force, its expiry and its features belong together
  (`NoMixedLicence`); an acknowledged activation survives a crash and a
  rejected one (`RestartRestoresAcked`, `AckedCloudStaysInForce`); the
  downgrade baseline never moves back; an expired cloud licence closes the gate;
* one saving thread makes a file a register: never torn, nothing saved lost;
* a session opens only with a licence for capture or inference
  (`NoSessionWithoutLicence`); a stop that reached the disk holds through
  restarts, retries and updates (`StopHolds`); a published model has decoded a
  frame (`CurrentModelIsReady`);
* no task of one session reaches the next (`SourceIsSession`), which needs
  `mailbox_->clear()` before the aim thread starts; the stop order alone keeps
  frames mapped while they are read (`NoUseAfterClose`);
* whatever step of setting up the NPU's memories fails, an inference reads the
  frame it is asked about or is refused (`EngineIsSound`);
* no reader, writer or injector of the proxy touches a queue that was freed
  (`QueuesAlive`), no thread of an old setting survives (`NoStaleThreads`), and
  `terminate_eps` ends but for one wait on the host (`StopsEnd`);
* the injector and the endpoint reader lose and double no motion although each
  gives back what it could not send (`MotionConserved`);
* the lock-free ring is a bounded queue: whole reports, in order and once, refused
  only when it is full (`RingIsAQueue`);
* a trigger's first shot and its burst belong to one press
  (`TriggersKeepToThePress`), the remainder of an earlier press moves nothing
  (`NoCarryOver`);
* the library publishes and selects only what the validator passed, through
  failed file operations, deaths and retries, and an install can be repeated
  (`LibraryIsSound`, `OnlyPassedIsPublished`);
* an outage is bridged as long as the licence lasts and no longer
  (`OutageIsBridged`);
* whatever is killed, the link names a directory, what the installer makes
  current is complete, and a reported success is current (`CurrentIsSound`: the
  check of the copy is what keeps leftovers of a killed update out, and the
  downgrade check what keeps the current release from being moved aside); every
  job ends with its outcome told (`UpdatesEnd`);
* every slot of the connection limit comes back and no handler outlives
  `stop` (`ThreadsAreAccounted`);
* a restart finds the configuration that was in force (`DiskMatchesMemory`), and
  a release changes only what was left at the baseline (`UpgradeKeepsSettings`).

Violated, each with a run and a finding:

* `license_revoked` - a rejected ACTIVATE restores the status it saved on entry,
  and with it a licence that was revoked meanwhile (`LicenseDaemon.cpp:148`);
* `pipeline_kept` - `capture_loop` notes the index of the new frame for the old
  one, so the buffer of the newest frame is queued to the driver while it can
  be read (`V4L2Capture.cpp:650`).  The ring still never loses a buffer, which
  is why nothing but the pixels shows it;
* `config_zerocopy` - a key whose absence means "follow the global key" is
  written with its default by the first repair (`RuntimeProfile.cpp:393`).

### Further observations

Met while modelling; the models show the first group when a bound or a guard
is lifted, the others follow from the lines named.

Licence:

1. `verify_now_blocking` writes the result of the start-up check over a cloud
   activation completed meanwhile (`LicenseDaemon.cpp:118`, comment at `:98`).
2. `activate` judges its card by the shared status: a rejected card can be
   persisted when another activation has just succeeded (`:206`).
3. The downgrade check and `save_state` are not one transaction, so with two
   activations the baseline can move back (`:178`, `:242`).
4. A refusal followed by an outage gives Fallback, with the features still
   cleared (`LicenseStateMachine.hpp:120-121` and `:220`).
5. The temporary is named after the process only (`LicenseStore.cpp:167`, against
   `:213`): with two saving threads, one opens and truncates what the other is about to
   rename, and a torn `license.json` results.  `load` removes the temporary of a save
   under way (`:229`): the save fails, the old file stays.
6. With a corrupt `state.json` the baseline is rebuilt from `license.json` at
   every load and never written back (`:301`); a cloud activation then makes
   it 0.

Lifecycle:

7. The rollback of a cold activation restores the selection but leaves the new
   model in the core, which is published later under the old name
   (`Application.cpp:1946`, `:1193-1200`, against the comment at `:1323`).
8. Starting a runtime that already runs does not persist the wish to run
   (`:1602`, against `:1756`).
9. `core_boot_version` is written before the post-update check ends; a death in
   between comes back with the runtime running (`:1727`, `:1230`).
10. Start, restart, retry and the watchdog keep the gates of the last
    initialisation (`:1620`, `CoreRuntime.hpp:75`); the watchdog's inference
    check does not ask whether inference is licensed (`:1156`, against `:1074`).
11. `initialize()` assigns `core_runtime_` without the mutex while IPC is served
    (`:931`).

Frames and inference:

12. With `stop_detect_enabled` the probe dereferences the frame after
    `frame.reset()` (`WorkerPool.cpp:339`, `:469`).  `stop()` of a pool that is
    only preloaded returns early; its destructor frees the engines.
13. After the RGA's middle buffer failed to be allocated or imported, the size
    stays noted with no handle: going back to that size fails every frame until
    it changes again (`RgaProcessor.cpp:302-332`).
14. The number of boxes is cut before the field of view is applied: a box
    outside displaces one inside (`OutsideDisplacesInside` of `MCFramePipeline`;
    the pair layout cuts again after it, `DecodeNMS.cpp:540-556`).
15. Several shapes the adapter accepts are refused by the decoder with every
    frame (end-to-end rows of fewer than six fields, some multi-output models);
    a part of the frame larger than the frame keeps the old part;
    `e2e_skip_nms` has no effect (`DecodeNMS.cpp:773-777`); two heads that match
    one body output it twice.

Configuration and library:

16. An explicit `output_enabled=false` over a baseline that is false is dropped
    by the difference at the next save, and the migration then turns it on
    (`:434`, against `Application.cpp:258`).  The first migration runs without
    `config_persist_mutex_` while IPC is served (`:271`).
17. Layers that sort after `10-device.json` win over what is saved; a profile
    leaf of a baseline that the program does not know makes every start repair
    and write; a repair that cannot be written is used in memory and repeated.
18. An import whose `remove_all` silently fails keeps the old `ok.json`; a
    removal cut off by a death leaves a staging copy that a retried removal
    refuses, against the comment at `ModelRegistry.cpp:844`; leftovers in
    `cache/.installing_*` are never cleaned; `write_file_atomic` does not sync.

HID:

19. A forwarder that has stopped by itself ends the process at `stop`
    (`HidForwarder.cpp:109`: a joinable thread is destroyed); an unplugged device
    leaves the status running; `SpscQueue` with `N = 1`, which its assertion
    admits, is broken.
20. `reencode` takes the buttons of a plain mouse report for a report id (right
    button 2) or drops it (3, 4); the package tool may activate, fail and note
    the package itself as its previous one, against its comment.

USB proxy:

21. Waiting for a device looks at no stop flag, so the first SIGTERM is ignored
    until a device comes and a second one forces the exit; SIGTERM and an
    unplugging, in either order, still force it (`device-libusb.cpp:29-31`).
22. Two injectors of different configurations can run, because the generation
    is read by the new thread (`synthetic.cpp:156`, against `:34`); the mode
    never sends a change of buttons alone; what exceeds one report is dropped.
23. After a short OUT control packet the device is still sent `wLength` bytes,
    the rest never written, against the comment at `proxy.cpp:1750`
    (`ShortPacketIsPadded` of `MCUsbEndpoints`); a rule whose replacement equals its pattern
    repeats for ever (`:676`, `ReplacementEnds`); a rule that lengthens an OUT
    request makes a later stall rule miss it (`LongerRequestEscapes`), and
    rules on OUT control requests run before their data is read (`:1682`).
24. The last lines of a ring callback use the ring after their decrement of
    `inflight` (`device-libusb.cpp:626`); a callback that tested `stopping`
    before the destruction resubmits after the cancellation, and the ring is
    leaked after 300 ms; one failed resubmission is permanent.
25. A signal between the test of a flag and the ioctl is lost; an interrupted
    event fetch leaves `ep0_loop` without `terminate_eps`; a refused
    `SET_CONFIGURATION` of several uses the new interfaces with the old index.
26. A report the injector built before a physical one and queued after it shows
    the buttons of before (`inject_clock.cpp:68`); `BUTTON_CMD` is a load and a
    store (`mouse_control.cpp:337`), so of two at once one may be lost; a
    blocking send holds `subscribers_mutex`.
27. Two `SET_CONFIG`s at once share one temporary file.

Aim:

28. Once a lock near the crosshair is lost, the hysteresis never expires: with two
    candidates farther away no switch happens (`TargetSelector.cpp:312`,
    against `MouseTypes.hpp:628`).
29. The trim keeps the tracks lost longest and drops the freshest (against
    `TargetSelector.hpp:69`); `lost_frames` does not grow for tracks that are not
    active; `head_body_stable` drops a head for a body that is then rejected.
30. The second trigger's `has_lost_` survives (`TriggerController.hpp:314`);
    `first_delay` never delays the first shot after a reset; with neither key
    configured it fires while suspended.
31. A release that is refused or fails to be sent is forgotten
    (`AimThread.cpp:557`); `AimStateMachine` leaves `locked_` set on two ways
    out.

Updates:

32. A merge that fails leaves `<ver>.ota.staging.full`
    (`ttbox_ota_updater.py:387`), which `list_versions` takes for a release: a
    rollback may go to this half tree, and pruning keeps it in place of a good
    one.  An interrupted `rm -rf` of pruning (`ttbox_release_install.sh:492`) leaves
    a half tree that is then the newest.  `<ver>.ota.staging` is not removed
    after a success, nor after an exception that is not an `OtaError`, against
    the updater's `:16`.
33. A rollback goes to the newest other tree, whatever became of it: after a
    release that failed before, it goes there and not to the one that ran
    (`:513-520`).  The updater ignores its exit status
    (`ttbox_ota_updater.py:508`, against the installer's comment at `:531`) and
    reports that it rolled back.
34. A release without `deploy/systemd` ends the script before the link is
    switched back (`:302`, against `:445`): the link stays on it.
35. Neither health check looks at the version, so when every restart fails the
    old processes answer for the new release (`:395-400`).
36. Killed between the switch and the health check, the job is done again and
    refused as a downgrade, and the release that was never checked stays current;
    killed between SUCCESS and the archive, the update is reported as FAILED.
37. The path unit may start the updater between the creation of a job file and its
    writing (`ttbox-web.py:2717`): the accepted job fails as invalid.
38. Nothing keeps an operator's rollback and an update apart: a rollback to a
    `.full` tree that a merge then renames leaves the link dangling.

## 6. What is proved

TLAPS checks these for every value of the constants (under the named
assumptions of each module):

| module | theorem | says |
|---|---|---|
| `LicenseDaemonProofs` | `TypeCorrect`, `StatusNeverMixes`, `GateIsSound` | types; `NoMixedLicence`; `GateOnlyOpensForAccepted` |
| | `BaselineNeverGoesBack`, `AckedCloudStays`, `RestartRestores` | with one thread of requests: `BaselineNeverMovesBack`; `AckedCloudStaysInForce`; `RestartRestoresAcked` |
| `LicenseFileProofs` | `OneWriterIsAtomic`, `OneWriterKeepsSaved`, `OneWriterRefines` | `DocIsWhole`, `SavedStaysSaved`, the refinement of `AtomicRegister` |
| | `OutageBridged` | `OutageIsBridged` (`LicenseOnline`) |
| `RuntimeLifecycleProofs` | `TypeCorrect`, `RunningRuntimeIsWanted`, `PublishedModelIsReady`, `SessionsAreLicensed`, `StopStays` | types; `RunningIsWanted`, `CurrentModelIsReady`, `NoSessionWithoutLicence`, `StopHolds` |
| `ReportPathProofs` | `MotionIsConserved`, `RingAlwaysDelivers`, `RingIsABoundedQueue` | `MotionConserved`; `RingDelivers`; `RingIsAQueue`, the refinement of `BoundedQueue` (`HidForward`) |
| | `NothingCarriesOver`, `TriggersKeep`, `SuspensionStays` | `NoCarryOver`; `TriggersKeepToThePress`; `SuspensionKept` |
| | `LockStaysSound`, `TargetStays` | `LockIsSound`; `NoSwitchInGrace` (`TargetSelector`) |
| | `InjectorSettles` | the injector writes to an interface that moves the pointer as soon as there is one, and stays with it (`HidLayout`) |
| `FramePipelineProofs` | `NoFrameIsUsedAfterClose`, `TasksAreOfTheSession`, `EngineStaysSound` | `NoUseAfterClose`; `SourceIsSession`; `EngineIsSound` |
| | `BuffersStayAccounted` | `BuffersAccounted` (`V4L2Capture`) |
| | `DecoderFollowsAdapter`, `AuxCutIsSafe`, `NmsIsGreedy` | a frame is decoded as the adapter said or refused; the aux threshold skips nothing that passes; what the NMS keeps (`DetectionDecode`) |
| | `DecoderSeesWhatIsShown`, `BoxesStayInFrame` | the decoder's part of the frame is the one the model is shown; boxes lie in it |
| `UsbEndpointsProofs` | `QueuesStayAlive`, `NoThreadIsStale`, `RingStaysSound` | `QueuesAlive`; `NoStaleThreads`; `RingIsSound` |
| | `PlacementIsReversible`, `RequestsAreAnswered` | endpoints are placed one to one, and requests find back (`UsbDescriptors`); control requests (`UsbTransfers`) |
| `OtaUpdateProofs` | `CurrentStaysSound` | `CurrentIsSound` (`OtaUpdate`) |
| `ControlPlaneProofs` | `LibraryStaysSound`, `OnlyPassedHolds`, `ThreadsStayAccounted` | `LibraryIsSound`, `OnlyPassedIsPublished`, `ThreadsAreAccounted` |
| | `DiskAlwaysMatches`, `UpgradesKeepSettings` | `DiskMatchesMemory`; under `BaselinesAlike` `UpgradeKeepsSettings` (`ConfigStore`) |

*Licence.*  `NoMixedLicence` is not inductive: a rollback writes back a status
taken earlier, and a publication a snapshot taken earlier.  The invariant `IInv`
says that every status anyone holds (the shared one, those in `call`, the
snapshots, the gate) is sound, and what each request has established at the
label where it stands (`Phases`); each step copies one of them or applies
`ApplyCheckResult` to one, and the lemma `CheckedIsSound` does the rest.  These
theorems hold for any number of callers at once, which the run does not try.

What was answered and what is on disk is another matter: with two callers, or with
requests during the start-up check, the three properties about them are false
(observations 1 to 3).  So the theorems assume one caller (`Callers = {c}`); the
last two also `~EarlyIpc`, and `RestartRestores` that no card is taken from a key
file, which would be checked in place of the one on disk.  With them:
* `BaselineHeld`: from the downgrade check to `save_state` the card in hand is no
  older than the baseline, which no other step moves;
* `Stored`: from the save to the answer the licence in hand is the one on disk, and
  the last one answered stays there until another is tried;
* `CloudHeld`: a cloud licence that was granted is in force, has been revoked or
  has expired.  The start-up check cannot undo it (`Serial`), the 60 s scan only ends
  it when it has expired (`GrantLasts`), and a boot restores it from the disk;
* `CardJudged`: an activation judges its own card, so a card answered with success
  is genuine; then `Restarted`: from a boot to the first request this card is the
  one that is checked, by the start-up check or by the scan, and `CheckOfCard` says
  what a check makes of a genuine card.

*Files.*  The theorems assume one writer (`Writers = {w}`); with two they are
false (observation 5).  `IInv` relates the stage of the writer to its inode:
from the fsync to the rename the temporary, in memory and on disk, is the whole
of `arg`, and no other name leads to its inode.  The refinement maps the rename
to `Put`, the directory sync and write-back to `Settle`, power loss to
`PowerLoss` and everything else to a stutter.

*Online check.*  `Accepted` says what the last acceptance left in the status until
the server refuses the card: its content, its expiry, and a state that runs while
it is unexpired.  `NearWake` bounds how far ahead the thread may be asleep: one
sleep from now, and one sleep from the expiry while the licence runs; then time
passes only up to the wake-up.  A sleep is the longest of the backoff cap, the
thread's heartbeat and the interval the server names.  The last belongs there:
when it exceeds the other two, the main thread's check may be answered with a
shorter licence while the thread sleeps to the next check of the longer one
(`LicenseDaemon.cpp:472-482` reads the expiry before it sleeps, and nothing wakes
it), and the licence stays `Valid` until then.  The code's defaults, a minute
against an hour, are far from that.

*Runtime.*  There are some thirty actions and four properties.  The lemma
`NextKind` sorts every step into five kinds: it keeps the core and what is
published, ends the session, begins one with a licence, retries, or publishes.
Each property is then proved of the kinds, once.  `RunningIsWanted` holds in the
stronger form `core.up => want`.  `StopHolds` needs `Stays`: after a recorded stop
no check after an update is pending, the file says stop, and no switch that
could start the core again is under way.

*Mouse.*  Each of the two threads that take pending motion keeps it in a variable
of its own until it is sent or given back.  `MotionConserved` alone does not say
that this variable is empty when the thread takes the next step, and a step that
replaced a held one would lose it; `EmptyHands` adds that.  All other steps
leave the four terms of the account alone (`OthersPreserve`).  The assumption
(`MotionAssumption`) is that deltas are integers and the limits natural numbers.

*Frames.*  `JoinedSound` says why a thread may be there: the runtime goes on, or
`plan` still names it.  `PlanSound` says that the capture comes last in a plan
that closes, and once only; so when it is joined the plan is empty, nobody is left
inside a loop, and a frame is held only between taking it and dropping it
(`HeldSound`).  A failed start and a reload that fails twice have plans of their
own, which keep to the same.  For `SourceIsSession` every task that is about, in
a slot, in the scan or with the aim thread, is of this session: the session changes
only in `start()`, which clears them when no worker is left to offer one.

*Buffers.*  `RingInv` has the three places a buffer can be in, the driver's queue,
filled, and captured; they are apart (`RingApart`) and together they are all the
buffers (`RingWhole`).  Every entry of `pending` names a captured buffer, and no
buffer is listed twice: an entry that goes back to the queue was listed and is
listed no more (`ReleaseIs`).  Which entries those are is a part of a sequence,
and `EntriesAt` takes it by the rank of each position; `RanksAreAll`, the
pigeonhole principle, says that every rank is found, once.  The assumption
(`CaptureAssumption`) is that the number of buffers is natural.

*Inference.*  What an inference reads is decided by the memory the NPU's context
is bound to.  `BindingIsKnown` says what that can be: nothing before loading, the
engine's own memory or the RGA's after it, and the latter only for a model whose
pixels need no work; with it the copy of a frame into that memory, or the
RGA's own write, is what `rknn_run` reads (`CopyIsRead`).

*Decoding.*  The modules of pure operators are checked by assumptions over small
sets of inputs; these theorems say it of all of them.  What a fold computes
cannot be proved by induction here, so `NmsIsGreedy` takes the loop of `nms_boxes`
for what it is in the code, a sequence of rounds: a specification
(`NmsLoop`) whose variables are the boxes kept and the candidates looked at, and
whose step is `Keep`, the operator that `Nms` folds.  `NmsSound` is then an
invariant over any number of rounds.  That the fold *is* the last state of these
rounds is read off the definitions and not proved.  The order is one in which
scores do not rise, which is all the sort promises.  `DecoderSeesWhatIsShown` is
an invariant over any sequence of profiles: the first has no area or one that fits
(`Usable`), as the worker starts with no part to fall back on, and each of the others
may be any.  `AuxCutIsSafe` needs that the best score is there (`BestIsThere`), for
which `SmallestExists` gets the least element of a set of numbers from the
well-foundedness of `<`.

*HID ring.*  `Window` describes the slots of the `N` positions from the first
report inside to the first there is no room for: a published position has its
own number plus one and its report, a free one its own number.  These positions
have `N` different slots (`SlotsDiffer`, from the arithmetic of division, proved
in `ModDistinct`), so a thread that changes its slot disturbs no other position; a
released slot is at once the free slot one round later (`SlotRepeats`).
`Counters` lets `head` and `tail` lag by one between the hand-over and the
increment.  The bounds of the run are not used: any number of reports may pass.

The refinement of `BoundedQueue` rests on the same invariant.  The queue is the
accepted reports that were not delivered, so it is the store into the slot that
counts and neither the copy before it nor the increment after it.  `PublishAccepts` needs
that a place is still free at that store, two steps after it was tested
(`Receiving`: the other thread can only make more room), `ReleaseTakes` that the copy
taken before the store is the front of the queue (`Sending`), and `PushRefuses` that a
slot with another number means a full queue, although the sending thread may be
about to free one.  `InsideGrows` and `InsideShrinks` are the two facts about
sequences it takes.

*Aim thread.*  Only `Decide` decides anything; what it relies on was left by the
frame before, by `start()` or by the user.  `CarriedSound`: while injection was
allowed, the remainder is of this press (whoever is not allowed clears it, and
whoever was not allowed before does).  `GuardSeen`: a guard's button that is down
and was not seen down has been pressed since the last flip.  `ShotsCounted`: an armed
trigger has counted at least the shots of the burst, so it is spent in time; that
goes on through a configuration without the first trigger, which disarms it.
`FrameOfOne` and `FrameOfTwo` say what one frame makes of each trigger.  The
assumptions are `DecisionAssumption` and `AimAssumption`: all delays and bounds
are natural numbers.

*Target selection.*  `TableSound` is said of the table of tracks between any two
layers of `select`: identifiers differ, the locked track is the one the identifier
names (`LockedBy`), every track that is not locked was last seen a whole grace ago
or more (`FreeAreOld`: a lock is only given up then), and the held one has been
away no longer than the hold runs (`HeldSeen`).  Ageing, matching, giving up, adding
and trimming each keep it (`AgedSound`, `SeenSound`, `MissedSound`, `FreedSound`,
`TrimSound`).  Trimming is the hard one: the table is sorted and its tail is
cut, and the lock must not be in the tail.  The order is total (`CutOrders`, from
`BeforeOrders`), a table in it is a permutation (`InOrderIs`), and the lock is
first in it, so it survives any limit but 0 (`SelectorAssumption`; the default is
64 and no configuration sets it).

*USB proxy.*  A job of EP0 walks over the interfaces, and `Served` says which of
them have their endpoints at each point of it: those from the one in hand on while
it stops them, those before it while it starts them, all but one during a
SET_INTERFACE.  `LiveSound` says that what is allocated is just the endpoints of
the settings in force on these interfaces, so clearing the one in hand leaves
nothing of it.  `RunningSound` gives the reasons for which a thread may have ended:
its flag, a reset under way, or a proxy that is told to stop (`FlagsSound`: then
EP0 is told too).  With `JoinedSound` no thread is inside its loop when its queue
goes.  Signals, hotplug and the steps of the threads are proved at once, as steps
that end no thread without a reason and start none (`RunningStep`).  The theorems
are about the proxy with and without a mouse (`ProxySpec`).

*Ring of transfers.*  `InflightSound` says what `inflight` counts: the transfers
submitted, but for the one that is submitted and not counted yet, whether or not
its callback has run already, when the counter may be one below zero.
`FilledSound` says that none of them has been retired unless there was a failure,
so a reader that waits has been told or has something in flight.

*Placement and requests.*  `remap_config_endpoints` is a loop as well, and
`Placing` has its rounds as steps of `Place`.  `PlaceInv` says that a candidate of the
UDC serves one endpoint of the device, in a direction it has, and that every
endpoint the host sees was placed so; then two of them have two addresses
(`AddressesApart`).  This needs `UdcSound`: a UDC takes any address at every
endpoint, or has a fixed one at each, once in a direction.  It is what the list of
a UDC looks like; with a mixed list two endpoints could be given one address.
`RequestsAreAnswered` goes through the answers of `ControlIn` and `ControlOut`.
`InjectorSettles` treats the arrivals of report descriptors in the same way, a step of
`Chosen` each: every interface sends its own once.

*Updates.*  `Turns` says who may change the directories: the updater while no
installer runs, an installer while the updater waits for it or is off.
`UpdaterStands` and `InstallerStands` say what each has established where it
stands: the copy is whole from its check to its publication, the target from
there to the switch, the tree to go back to stays until the probe has
passed, and no tree in `doomed` is the current one.  A delta's merged tree
is never current while it is made, as its base is (`CheckBase`).  The theorem
(`UpdateAssumption`: versions are numbers, the packages name known ones) holds for
any packages, jobs, kills and failing calls.  It rests on the guard that keeps an
operator's rollback and an update apart, which the code lacks (observation 38).

*Control plane.*  An operation of the library holds the lifecycle mutex from its
first step to its answer, so one operation stands in the middle at a time, and
`OpStands` says what it has established there: an import has cleared what it
copies over, a validation has a report only of a load that succeeded, an
installation a staging directory with a credential and nothing installed yet, an
activation a package the validator loads, a removal something that is not
selected.  A death leaves all of this but the operation, so the rest is said of
the directories themselves: what a report in staging is about has passed
(`StagingSound`), what was published could be published again (`FreshSound`).
From `StagingSound` a published content has passed, and from `FreshSound` an
install that is repeated is answered OK.  On the side of the server, `SlotsSound`
counts one slot for every thread and one for the thread about to start, and says
that the list `stop()` waits for has every thread on it; `StopSound` says that
the accept thread has been joined before `stop()` goes on, so none is added behind
its back.  The assumptions are `RegistryAssumption` and `IpcAssumption`.

*Configuration.*  Two lemmas carry it: what `layer_diff` takes out, merging puts
back (`DiffRestores`), and a profile that was read and is written reads as it was
(`RoundTrip`).  `MemorySound`: the layers merge to the document in memory, or,
once a save has renamed its file, to the one it will publish.  `ProfileSound`
relates the profile to that document; it is weaker after a fault, when a repair may
be in memory only.  The assumption (`ConfigAssumption`) is that documents have
known leaves, and a list of hotkeys where they have one.
For `UpgradeKeepsSettings`, `SavedSound` says what the next start would read
*whatever baseline it finds*.  The theorem needs `BaselinesAlike`: the baselines
name the same leaves of the profile, and none that is repaired (a region) or
read together with another (the two forms of the hotkey).  `00-factory.json`
says in its `_comment` that a runtime profile belongs in `10-device.json`, and
names none of its leaves.  Without the hypothesis the property is false: TLC
finds that a region a new baseline adds, or changes where the device file still
has one that was not repaired, is taken although it was not left at the baseline, or
the reverse, when the repair after the upgrade cannot be saved; and likewise that
a list of hotkeys left at the old baseline is replaced by the flat hotkey of the
device file.

Only model-checked: all liveness; that the folds and recursive operators compute what
they should on the inputs of the `MC` modules; and the modules the table does
not name.

## 7. What is not modelled

* In `LicenseDaemon`: cryptography and JSON (a verdict), the unreachable
  heartbeat request of the offline build.  In `LicenseOnline`: HTTP and TLS.
* In `RuntimeLifecycle`: failure codes and `runtime_started_` (no decision reads
  them), the preview and mouse reader a session starts along with it, updates
  of the profile of a running session, refusals of the registry before a switch
  begins, the second read of the gate in `ApplyGates`, and the unlocked read at
  `Application.cpp:931`.
* In `V4L2Capture`: opening the device with its retries, and QBUF failing on a
  live stream.  The code clears `captured[]` even then (`V4L2Capture.cpp:699`),
  so that buffer is lost to both sides until the next start.
* In `FramePipeline`: what the aim thread does with a task (`AimControl` takes it
  as an input) and the contents of detections.
* In `InferenceEngine` and `DetectionDecode`: half floats, the CPU
  preprocessing, the one-image facade.  Scores are percentages, coordinates
  whole pixels.
* In the proxy: isochronous output, Lua scripts, the use of the ring by its last
  callback after the decrement (observation 24), two configurations.
* In `MouseControl`: the Y axis, which goes as X does; the set-up of the sockets.
* In `AimControl`, `AimDecision`, `TargetSelector`: the arithmetic of the
  controllers (PID, shaping, prediction, recoil), random jitter, `instant_enter`,
  two coordinates, boxes of several sizes.
* In `ModelRegistry`: `set_concurrency`, the list for the console, a file
  replaced within an operation.  In `IpcServer`: configuration, preview and
  status requests, which live as the others do.
* In `ConfigStore`: JSON text, leaves beyond the seven kept apart, layers other
  than baseline and device.
* In `HidForward`: the package registry of the command line tool.
* In `OtaUpdate`: hashes, signatures and version text (a package is genuine or not,
  versions are numbers), permissions, transitional links, unit files, the DTB
  fix, the order of the four services in a restart, renames that power loss
  undoes, a rollback that overlaps an update (observation 38) or names its
  target.  `plugins/upgrade` only waits for a signal.
* Cloud session, web console, plugin framework, Wi-Fi manager: Python beside
  the core; what reaches it is the requests of the modules above.  A heartbeat
  answered after a logout (`heartbeat_worker.py:224`) acts on the core as a
  cloud activation, which `LicenseDaemon` has.
* Preview (its hold on frames is in `FramePipeline`), the V1 platform skeleton,
  training and tools.
