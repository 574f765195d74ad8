# A verification project for adrvtrx

`adrvtrx` drives an ADRV9026 transceiver board that measures power amplifiers
(PAs). One server process owns the board; measurement jobs queue for it, load a
signal, level the observation receiver (ORx), search the drive at which one PA,
or two together, compress by a wanted amount, capture, record what they
measured, and play it again later. A mistake is expensive: two jobs on one
board, a transmitter left on behind a dead process, a PA driven beyond its
limit, a row that says "converged" of a point that was not, a case folder that
mixes two runs.

This directory holds TLA+ modules of that code, TLC configurations that check
them on small instances, and TLAPS proofs for every value of the constants.
Paths below are relative to the repository's root; the Python sources are in
`src/adrvtrx/`.

To check one run: `tlc -config server_jobs.cfg MCHardwareServer.tla` (the module
of each run is in the table of runs). To check the proofs:
`tlapm HardwareServerProofs.tla`, and likewise the other `*Proofs.tla`.


## 1. Inventory

Lines are those of the source files.

| Component | Files (lines) | Modelled |
|---|---|---|
| Hardware server | `server.py` (1785, with the supervisor and its command line) | yes: `HardwareServer`, `BoardLease` |
| Supervisor (watchdog) | `server.py` | yes: `Supervisor` |
| Client of the server | `client.py` (403), `_hwlink.py` (319) | yes: `RemoteClient` |
| Radio facade, TX load cache | `radio.py` (679), part of `server.py` | partly: `TxLoad`, `BenchJobs` |
| ORx level control | `gain.py` (630), `capture.py` (742) | partly: `OrxStep`, `OrxAgc`, `Readback` |
| Compression search, operating point | `compression.py` (517), `operating_point.py` (224) | partly: `OperatingPoint` |
| Dual-band lock, sweep, case writer | `multiband.py` (2625) | partly: `MultibandSearch`, `MultibandCase`, `CaseStore` |
| Replay, conditions log | `replay.py` (275), `conditions.py` (320) | partly: `BenchJobs` |
| Sweep plan and sweep | `sweep_plan.py` (422), `sweep.py` (74), `experiment.py` (40) | partly: `SweepPlan`, `BenchJobs` |
| PA probe | `probe.py` (450) | partly: `ProbeBuild` |
| DPD pass, linearisation | `dpd.py` (413), `linearize.py` (147), `gmp.py` (170) | the loop only: `BenchJobs` |
| Command lines | `cli.py` (267) and the end of `server.py` | `adrvtrx replay` only: `BenchJobs` |
| Simulated board | `fake.py` (950) | what it does to masks, RAM and readbacks: `TxLoad`, `Readback` |
| Wire protocol, key and port files | `_hwlink.py` | requests and replies: `RemoteClient`; the port: `Supervisor` |
| Signal metrics, alignment | `metrics.py` (953), `align.py` (303), `waveform.py` (100), `transmit.py` (86) | no: floating-point signal processing without state |
| Configuration, profiles, bands, enums | `config.py` (369), `profile.py` (119), `bands.py` (139), `_enums.py` (185), `__init__.py` (190) | no: parsing and constants, which are CONSTANTS here |
| Vendor DLL loader | `_clr.py` (115) | no: pure I/O |

### Hardware server
*State.* The life of the process (starting, ready, stopping), the stop event and
the exit code; the lease that owns the board and whether it is on its way out;
the FIFO of waiting clients; the operator's hold; one session per connection;
the priority queue of the hardware thread and the job it runs.
*Operations.* `acquire`, `call`, `release`, `safe`, `resume`, `kick`, `status`,
`stop`, `session_info`, `heartbeat`, `ping`, `log_tail`; the monitor's
revocations; start-up and shutdown.
*Interacts with* its clients (requests over `multiprocessing.connection`), the
board (through one hardware thread), its supervisor (stdin, a status pipe, the
exit code).
*Hard.* Every connection has a thread. The condition `_cond` is left between the
decision and the job that carries it out (`_end_lease`, `_op_safe`,
`_op_acquire`, the monitor); `HardwareThread.idle()` is read without a lock;
clients die anywhere; several stops race for one exit code.
*Correct when* the board has one holder; a holder gets it TX-safe and with no
call of another in progress; a call queued before its lease ended does not run
after; the board always comes free again; after `safe` nothing of a job
transmits until `resume`; exit code 0 means that no job's signal is on.

### Supervisor
*State.* Which server it watches, what it has seen of it, the restarts within
the window, the attempts of a fresh `force_safe`.
*Operations.* Spawn, watch (status pipe, exit, a call over its limit), kill,
`force_safe_fresh`, back off, restart or give up, Ctrl+C at each point.
*Hard.* All it knows of a dead server is an exit code; the board may keep
transmitting; killing the child may kill only a launcher; the supervisor can be
killed itself.
*Correct when* a server that failed is not replaced, nor given up, with its
signal on and nothing said; a hung server ends; no server stays unwatched.

### Client (RemoteRadio)
*State.* The connection, the request lock, the heartbeat thread, why the session
ended, the programming identity it records with its measurements.
*Operations.* Every forwarded call, `program` (followed by `session_info`),
`session_info`, `loaded_signals`, the heartbeat, `release`.
*Hard.* A reply carries nothing that tells which request it answers, so an
exception between the two leaves a reply for the wrong reader; the heartbeat
competes for the lock; the programming identity lives in the board, the
server's memory, a file and the client, and the server may die between any two.
*Correct when* every answer belongs to its request; the reason reported for a
lost session is the one that ended it; one identity is one programming.

### Radio facade and the TX load cache
*State.* The masks of enabled Rx and TX channels that `Radio` keeps because the
device takes both in one call; the server's record of what each channel's RAM
holds, by which a load may be skipped; the monitor's cached TX mask.
*Hard.* Three copies of the device's state, each of which programming, a
reconnect, a failing DLL call or a new process makes wrong.
*Correct when* a skipped load plays what a load would have played; an Rx call
never revives a TX channel; the monitor never believes a transmitting board
silent.

### ORx level control (software AGC)
*State.* The gain index, the learnt dB per index, the last and the closest
capture, what an overshoot restricts, counters of empty captures and trims.
*Hard.* Clipping hides how far the level is; an overdriven ORx returns captures
without data; a gain table need not be uniform; short captures read lower than
full ones; the iterations may run out after the gain was moved but before it was
measured.
*Correct when* a level accepted was measured, on the full signal, at the gain in
the radio, without clipping; a level that exists is found; the leveling ends.

### Compression search and operating point
*State.* The attenuation, the floor, whether the clip guard raised it, the
coarse steps pending, the best reading, the result, the recorded row.
*Hard.* Drive and ORx gain move in opposite directions and are rounded
separately; the clip guard raises the floor while the walk goes on; iterations
are shared by drive steps, re-levels and retakes; the row combines the lock, the
back-off, a second leveling and a capture.
*Correct when* the drive never passes the floor; a target within reach is found;
what is recorded as converged was.

### Dual-band lock, operating-point case and its folder
*State.* Two attenuators and two ORx gains, the floors that clip guards raise,
the trust region of the moves, the best step; what is playing (a probe or the
full signals), the captures of a case, and a folder of which `case.json` is
written last.
*Hard.* The attenuations move together and are cut by caps, floors, guards and
halvings; readings that do not count are taken again within the step; the best
step is restored at gains that have moved on; a lock found on the probe is
confirmed on the full signals and may be found again; a run may be interrupted
between any two files and be run again.
*Correct when* neither band passes its floor, the joint lock keeps the level
difference, what is returned was measured where the radio is left, every
capture is of the full signals at the lock recorded with it, no folder without
all of its files counts as done, and a finished case is never changed.

### Replay, linearisation, survey and sweep
*State.* The LO, gain and attenuation left by the job before; the enabled inputs,
on which the layout of a readback depends; files and CSV rows of several jobs in
one folder.
*Hard.* The LO is set only when the frequency differs from the row before; a job
may fail at any call and the next finds what it left.
*Correct when* every row is true of its capture and its files, no LO moves under
a playing TX, TX is off behind every job with a `finally`, a sweep measures
exactly its plan.

### PA probe
*State.* None: windows around the peaks of all bands are chosen, padded, merged
and joined. *Hard.* The period wraps around, windows touch or share peaks, a
budget cuts them. *Correct when* the kept windows are real signal in order.

### DPD pass and linearisation
The loop of passes around the radio is a job of `BenchJobs`; its numerics (least
squares, GMP basis) are outside of model checking.


## 2. Modules, state and actions

| Module | Models | Uses |
|---|---|---|
| `BoardLease` | what the server promises its jobs: the abstract specification | |
| `HardwareServer` | leases, queue, hardware thread, monitor, shutdown; refines `BoardLease` | `BoardLease` |
| `Supervisor` | the watchdog with its servers and the board's TX | |
| `RemoteClient` | one job's two threads, its connection, the server's side of it, the programming's identity | |
| `TxLoad` | `perform_tx`, enables, programming over the device, the radio's mask and the record | |
| `OrxStep` | pure rules: window, clip, the trim step and how it learns | |
| `OrxAgc` | the bench, a capture, the stages A, B, C of the leveling | `OrxStep` |
| `OperatingPoint` | the search and the operating point around the leveling | `OrxAgc` |
| `MultibandSearch` | the lock of several bands, step by step, in its three modes | |
| `MultibandCase` | a case around the lock and its folder; refines `CaseStore` | `CaseStore` |
| `CaseStore` | what a case folder promises whoever reads it: the abstract specification | |
| `SweepPlan` | pure rules: the blocks, axes, defaults and points of a sweep plan, with the recursive functions for its products | |
| `Readback` | pure rules: where a capture's readback holds the samples of an input | |
| `BenchJobs` | replay, the replay command, linearisation, survey, planned sweep on one radio and one folder | `SweepPlan`, `Readback` |
| `ProbeBuild` | which samples a probe keeps and how it joins them | |
| `MCHardwareServer`, `MCOperatingPoint`, `MCMultibandSearch`, `MCMultibandCase`, `MCBenchJobs`, `MCProbeBuild` | instances for TLC | the module each is named after |
| `HardwareServerProofs`, `SupervisorProofs`, `RemoteClientProofs`, `TxLoadProofs`, `OperatingPointProofs`, `MultibandSearchProofs`, `MultibandCaseProofs`, `BenchJobsProofs` | theorems | the module each is named after (`MultibandCaseProofs` also `ProbeBuild`), TLAPS |

**HardwareServer.** Variables carry the source's names (`owner` for `_owner`,
`waiters` for `_waiters`, `ending` for `_ending`, ...). An action is what a
thread does between two points where another can get in: a critical section of
`_cond`, one put to or get from the queue, one board call. So `_op_safe` is four
actions (hold, end the lease, submit, answer) and `_end_lease` two, because the
lock is left between them. `active` holds the leases whose `ended` is `None`;
`ending` is the flag that keeps waiters away until `safe_then_free` has run. The
urgent and normal queues stand for the priorities of the one `PriorityQueue`;
its sequence numbers make each a FIFO. The deadlines (heartbeat, hold limit,
waiting limit, shutdown limit) are nondeterministic: a timeout may happen
whenever its timer can be running, so nothing checked depends on a length of
time. Requests that only read or move a clock (`ping`, `heartbeat`, `log_tail`,
`session_info`) and error replies change no state here. `tx` remembers which
lease switched TX on, which the code does not, so that properties can tell
whose signal is on; `holding` and `safed` are history variables.

**BoardLease** has a holder, an ended flag, a running call and TX on or off.
`HardwareServer` implements it under the mapping given at `KeepsPromise`.

**Supervisor.** `sup` is where `Supervisor.run` is. The server is reduced to
what the supervisor can tell apart: starting, up, stopping, dead with a code, its
call hung, its stdin closed; `orphan` is the server that stays behind when the
kill reached only a launcher. `force_safe` and `safe_state` swallow DLL errors
(`radio.py:152-183`), in every process that calls them: the fresh one, a server
that starts or stops, an orphan. With `SafeCanFail` what they leave on the board
(`MadeSafe`) may be what was there. Only the fresh process reads the mask back
to confirm (and that may fail too: `ReadbackCanFail`). `swallowed` is history:
the server last watched exited 0 with its signal on. Back-off times and the
sliding restart window are nondeterministic, the number of restarts it remembers
is not.

**RemoteClient.** `user` and `beat` are where the two threads are, `lock` is
`_lock`, `requests` and `replies` the socket's two directions. Requests carry a
number here, which the code's do not, so that `RepliesMatch` can tell whose reply
a thread would read. The server's end of the connection is `_serve_connection`;
what `HardwareServer` models of the lease is here a revocation at any time. The
programming is one number in four places (`board`, `noted`, `file`, `known`), and
`measured` is the history of what was recorded with which identity. A job that is
over is followed by another on a new connection.

**TxLoad.** The device (`link`, `ram`, `mode`, `tx`), `Radio`'s mask (`enTx`),
the server's record (`record`) and the monitor's cache (`cache`) are separate
variables, and every operation writes them in the code's order: one action is
one call of the server, with a disjunct for each point at which it may raise. The
history variable `halfway` says that a `program()` raised since the record was
written; `PlaysWhatWasAsked` excludes a load skipped after one (section 4).
Signals are members of a small set; equal buffers are equal members.

**OrxStep, OrxAgc, OperatingPoint.** Levels, gains and attenuations are integers
in hundredths of a dB. A *bench* is what the code cannot see: the gain table (a
uniform step with a zone of another step), the level of the signal at the
reference gain, how much lower a short capture reads, from where an overdriven
ORx returns no data, where it rails, the compression as a function of the
attenuation, and from which attenuation the top slope reads too low. `Capture`
computes a reading from the bench and the radio's gain and attenuation; the code
being modelled sees only that reading. An action is one capture with everything
the code decides on it, up to the next capture.

**MultibandSearch.** Three actions are one step of the code's loop: `StartStep`
sets the radio, `Capture` is one snapshot of `_read_step` for every band still to
be read with the re-levels that follow, `MoveBands` or `MoveJoint` classify the
readings, remember the best, plan and apply the move or finish. The code's modes
are `"together"` (its per-band method "joint"), `"pingpong"` and `"joint"` (the
lock on the joint compression). What is floating point is a choice: what a
capture reads at the present attenuations, the solution of the slope matrix and
the secant (any move within the cap), the gain of a re-level. Caps, clamps,
floors, guards, undo, turns, idle counts, the restore of the best step and every
reason to end are the code's. Moves are in attenuator steps of 0.05 dB.

**MultibandCase, CaseStore.** `pc` follows `find_multiband_operating_point`, and
the search is one action that ends with any of `MultibandSearch`'s outcomes. The
probe or the full signals are `playing`; the confirmation captures the full
signals at the probe's lock and, where they miss it, searches on from there (the
fallback) and captures again if that moved it; each back-off is captured; the writer puts one
file per action, `case.json` last, and the process may die before each. A folder
is what each file holds: which run wrote it, captured where. A caller moves a
folder aside by hand. `CaseStore` has a writer and write-once files, and the
folder implements it (`KeepsStore`).

**SweepPlan, Readback, BenchJobs.** A job is a queue of played conditions or of
sweep points; an action is one row's call on the radio or one file. The radio
(`lo`, `atten`, `gain`, `on`, `orx`) and the folder (`files`, `log`) outlive a
job, so the next one meets what the last one left wherever it failed. A capture
*reads* the settings that its converter really sees, through the layout that the
enabled inputs give its readback; a row *claims* the condition it was asked for.
Conditions and their files are called what `condition_name` calls them
(`ConditionName`: TX, back-off, whole MHz, bandwidth), so two of them may share
their files. Two variables are history: `tuned`, the LO that the job set last,
and the row of its CSV that each file was last written for.

**ProbeBuild.** Peaks anywhere on a short loop; the selection with its budget,
the gaps filled, the cuts moved by the padding, the joins. Where a cut falls
depends on the samples: any cut in reach is chosen. The passes of `build_probe`
over its ranges (cut and sum, then write) take a range per step, `range` being the
one at hand, `total` and `probe` what the pass has so far; a range is named by the
sample it starts at instead of by its place in the list.


## 3. What each run checks

| Run | Module, instance | Shows |
|---|---|---|
| `server_jobs` | `MCHardwareServer`, 2 clients, 3 leases | no signal outlives its lease (`TxBelongsToOwner`); every lease starts on a safe, idle board (`JobStartsSafe`) |
| `server_stop` | `MCHardwareServer`, 1 job, 1 operator with `safe`, `resume`, `kick`, `stop`, and a signal from outside | after an answered `safe` no job's signal is on until `resume` (`SafeHolds`); exit 0 means that no job's signal is on (`ExitZeroIsQuiet`); the server implements `BoardLease` (`KeepsPromise`) |
| `server_live` | `MCHardwareServer`, 1 job, 1 operator, 2 leases, no symmetry | an ended lease leaves the board (`EndedLeaseFrees`), a dead client's too (`LostClientFrees`), a queued client is served (`NoStarvation`), a stop stops (`StopStops`) |
| `supervisor` | `Supervisor`, 2 restarts, 2 attempts, every failure but the readback's | no signal is abandoned, unless a stopped server's own `safe_state` failed unseen (`AbandonsNoSignal`), a replacement starts on a safe board or after a warning (`ReplacesSafely`), one server drives it (`OneServerOnBoard`); `HungServerEnds` and `NoUnwatchedServer` under fairness |
| `remote_client` | `RemoteClient`, 2 jobs of 5 requests, 3 programmings | every reply is read by the request it answers (`RepliesMatch`); between calls the client knows the board's programming (`ProgrammingKnown`); one identity is one programming (`IdentityTells`); why a session ended stays (`EndIsFinal`) |
| `txload` | `TxLoad`, 2 channels, 2 buffers, 2 modes, any DLL call and `program()` may fail | a skipped load plays what a load would (`PlaysWhatWasAsked`); nothing else transmits (`OnlyAskedTransmits`); the monitor sees TX (`MonitorSeesTx`) |
| `operating_point` | `MCOperatingPoint`, levelings and whole operating points | the walk keeps its floor, and so does the lock but for the return to an unclipped best reading (`GuardHolds`); recorded as converged means locked and captured so (`RecordedLockHolds`); a level and a target within reach are found (`LevelsIntoWindow`, `TargetReached`); a step to more drive keeps the level (`DriveUpKeepsLevel`); everything ends (`Ends`) |
| `multiband_search` | `MCMultibandSearch`, 2 bands, 3 modes | what is returned was measured where the radio is left (`LeftWhereMeasured`); converged is locked (`ConvergedIsLocked`); limits and raised floors hold (`FloorsHold`); the joint lock keeps the level difference (`LevelsKept`) |
| `multiband_case` | `MCMultibandCase`, 2 bands, 3 back-offs, 3 runs into one folder | a folder fits together (`FolderFits`); captures are of the full signals at the lock (`CapturesAtLock`); the folder implements `CaseStore` (`KeepsStore`) |
| `bench_jobs` | `MCBenchJobs`, any 2 jobs after one another | every row is true of its capture, in all but the frequency where the job last set the other LO, and of its files until they are written again for a later row (`RowsTellTheTruth`); a sweep measures its plan (`SweepMeasuresThePlan`); no LO moves under a playing TX (`RetunesQuietly`); jobs end quiet (`EndsQuiet`) |
| `probe_build` | `MCProbeBuild`, a loop of 21 samples, 2 bands | taken peaks keep their windows (`WindowsStayReal`); the probe goes once round the loop in whole units (`OnceRound`) |

One run is expected to find a violation.

| Run | Property | What the counterexample shows |
|---|---|---|
| `search_ends` | `AlwaysEnds` | `_read_step` stops re-leveling only when `attempt == rules.max_relevel` (`multiband.py:551`). A round in which one band's capture is empty and another's re-level spends the last attempt takes `attempt` beyond that value while a band is still to be read; from then on no re-level is ever the last, and a band that never counts is captured for ever. The docstring (`multiband.py:490-491`) promises that "after `max_relevel` of them the last reading is returned not counting". |

The type invariants are checked by proof (section 7), that of `BenchJobs` by
adding `INVARIANT TypeOK` to its run.

Facts met while modelling the leveling, which the runs' bounds reflect:
`compression.py:11-14` promises that when the attenuation goes down the gain goes
down "by the same number of dB", so that the ADC does not clip. The gain moves
in whole indices, so the level may rise by up to half of one, and a reading that
close below the clip threshold may be followed by one that clips.
`DriveUpKeepsLevel` says just that: after an unclipped reading the next one, at
more drive, is at most half an index higher at the full signal's level, as long
as the gain has not run out.
`gain.py:225` says that the table need not be uniform. With a zone of other
steps the gain that follows the drive is rounded short by them, so the property
is stated for the uniform table of the docstring, and its failure elsewhere
costs a re-level. `TargetReached` is stated for the same
table, for a signal that can be leveled at every attenuation, and for a target
that some attenuation meets within a third of the tolerance: with a zone of
0.8 dB the 24 iterations can go to re-leveling. It also needs a PA that
compresses by no more than 1 dB per dB: at 1.5 dB per dB the clip guard's step, as
long as the error, can raise the floor past a target that was there. A search whose reading at maximum
ORx gain is too low cannot converge and alternates until the iterations end. A
`fatal` search result is recorded like any other by `find_operating_point`.


## 4. Departures

Met while modelling, without a run of their own. The models follow the code.

*Server and supervisor.*
* `request_stop` keeps the first exit code (`server.py:452`). A stop requested
  while the start-up is failing to connect makes it 0, although `safe_state`
  never ran, and the supervisor does not force TX safe then;
  `docs/hw_server.md:234`: "Every path ends in `safe_state()` on all TX
  channels." `ExitZeroIsQuiet` says the same of the signals of this process's
  jobs, which is what holds.
* The comment at `server.py:477-478` says of a shutdown whose job has an error:
  "safe_state did not run (stuck call) or failed: a non-zero exit makes the
  supervisor force TX safe from a fresh process". `safe_state` raises no DLL
  error (`radio.py:167-183`): when it fails the server exits 0, and the
  supervisor returns `EXIT_OK` (`server.py:1299-1301`) without a word, with TX
  on. `AbandonsNoSignal` has this as its one exception (`swallowed`). A
  replacement that starts on a board left on may fail to switch it off in the
  same way (`server.py:411-413`); the supervisor warned of that signal before
  (`ReplacesSafely`).
* `force_safe_fresh` counts as confirmed when the readback failed
  (`server.py:1172`), so nothing is printed; `docs/hw_server.md:256-258` promises
  the warning whenever it "cannot connect or confirm".
* A stop that waits longer than the shutdown limit for a call ends with exit 1
  (`server.py:482`); the supervisor takes it for a crash and starts the stopped
  server again (`docs/hw_server.md:245`).
* `status` looks at `hw.idle()` and submits its live read afterwards
  (`server.py:1039`), so it can wait behind a call queued in between;
  `docs/hw_server.md:57-58` says that status requests "never wait behind queued
  hardware calls". The action `StatusReturn` models the wait.
* `acquire` refuses `wait=False` only in its first look (`server.py:628`); it
  then leaves the lock to send the queued notice and, if the board went
  meanwhile, waits like any other (`docs/hw_server.md:95` and `:157` say that it
  fails at once).

*Client and programming identity.*
* `session_info` (`client.py:227`) and `loaded_signals` send their request outside
  of `_call`: a Ctrl+C while they wait leaves the reply on the connection, and
  the next request, or the heartbeat, reads it as its own. The comment at
  `client.py:204-206` names just this reason for dropping the connection.
  `remote_client` and the theorems let Ctrl+C hit the requests that do drop it
  (`Interruptible`).
* A server started with `--no-program` trusts the file of the last programming
  that was noted; a process that died between programming and the note makes it
  name a programming that is no longer the board's.

*Radio and TX load.*
* The record of TX RAM is cleared after a `program()` that returned
  (`server.py:775`, `:789-793`); one that raises halfway leaves it, and the next
  `perform_tx` of the same buffers is skipped.
* `program()` stops TX on the device and not in the radio's mask
  (`radio.py:206-207`); the next `set_rx_enable`, which "keeps the current TX
  state", switches it on again.

*Compression search.*
* A search out of iterations goes back (`compression.py:403`) to a best reading
  that may lie below the floor that the clip guard set after it;
  `compression.py:17-18`: it "never goes below that point again". This takes a
  top slope that misreads near its threshold, or a PA that compresses by several
  dB per dB, where the guard's step is far wider than the one that drove the PA
  into clipping; the `SteepBenches` of `operating_point` do it. `GuardHolds`
  makes the exception explicit: the lock is then at or above `atten_min_db`, at a
  reading that was not taken for a clip.

*Dual-band lock and case.*
* The joint lock that ends at its last step leaves the gains re-leveled after
  the reading it returns, which `LeftWhereMeasured` allows there.
* A joint lock that ends fatally reports the common attenuation before the last
  clip step, and the radio is one step above it.
* The best step restored may lie below a floor raised after it, as in the
  single-band search; `FloorsHold` allows it for the two ends that restore.
* The reason "limits" of a per-band lock can be given when no limit was met: a
  small move undone by half rounds to nothing.
* When the full-signal fallback in `confirm_lock` (`multiband.py:2130-2191`) ends
  fatally, `search.fatal` stays false, so the case goes on to its back-offs
  (`docs/dpd_workflow_spec.md:630`: a fatal search "captures and writes
  nothing").
* A back-off that reaches the attenuator's maximum is clamped per band and
  changes the level difference.
* The README's caller writes `case.json` also after a fatal search; `FolderFits`
  therefore admits a folder with `case.json` alone.

*Replay, sweep, probe.*
* `adrvtrx replay` promises each row "at the state's saved LO" (`cli.py:72-74`)
  and decides on a retune from the frequency alone (`cli.py:232`), although the LO
  belongs to the TX. Where the channel changes and the frequency does not, the
  row is played at whatever frequency its LO was left at. `bench_jobs` replays
  such rows, and `RowsTellTheTruth` says what is then still true: all but the
  frequency.
* `condition_name` (`conditions.py:175-177`) leaves the signal out and floors to
  MHz. Two signals of one bandwidth, or two frequencies in one MHz, have one
  name and one output file, where `conditions.py:1` promises "one ORx file per
  capture": the later row replaces the capture of the older one. In a replay
  rows of one name also share the last one's source (`replay.py:117-137`). So
  `RowsTellTheTruth` holds a row to its files until they are written for a later
  row of its CSV, and to its own capture always. `bench_jobs` has two frequencies
  in one MHz and two signals of one bandwidth and one file stem.
* A replay that fails after its preflight has already begun its CSV anew: the
  rows of an earlier run are gone.
* `run_planned_sweep` has no `finally`, and retunes with TX on; `RetunesQuietly`
  and `EndsQuiet` exclude the sweep.
* `format_point_label` rounds, so two points of a sweep may share the name of
  their file; the files of a sweep's action are not modelled. A label `x_dut` of
  one job and the output file of a label `x` have one file name, which the models
  keep apart.
* An unknown block mode is a grid; unknown band names in a plan are ignored.
* Filling gaps may take a probe beyond its budget, and a budget of less than two
  windows may leave out the maximum of the second band, although the docstring
  says "The probe holds the signal's maximum". `WindowsStayReal` asks for the
  maxima only without a budget.


## 5. Bounds, and why they are enough

* *Server.* `safe_state` works (`SafeCanFail = FALSE`): the properties of TX need
  it, as the theorems say. Two connections are one job and one competitor; three
  leases are the ended one, the next and one whose identity is reused while a
  thread may still hold the old one. A lease identity is reused only when nothing
  refers to it any more, as Python reuses objects; more identities add only
  renamings. `MaxUrgent` and `MaxNormal` stop new `safe` and `status` requests,
  never a job that the server itself submits. Leases and non-operator connections
  are symmetric; the liveness run uses no symmetry.
* *Supervisor.* Two restarts within the window are: one, and the last allowed;
  two attempts are a failed and a last one. Both are constants of the proofs.
  `force_safe` and `safe_state` may fail in every process (`SafeCanFail`); the
  readback works (`ReadbackCanFail = FALSE`), without which section 4's
  unconfirmed `force_safe_fresh` abandons a signal.
* *RemoteClient.* Five requests hold a programming with its `session_info`, a
  call before and after, and a release; two jobs are a job and the one that finds
  what it left; three programmings are the one at start-up, a job's and one that
  a restarted server makes. `MaxRequests`, `MaxJobs` and `MaxProgrammings` are
  guards of actions; the proofs hold for any.
* *TxLoad.* Two channels (an enabled one and an unused one, which gets zeros),
  two buffers, both trigger modes.
* *Operating point.* The code's own values: target -1 dBFS, window +0.3/-0.6 dB,
  clip -0.65 dBFS, gain index 185..255, 0.5 dB per index learnt within
  0.25..1.5, 16 trims, 2 retakes, start 20 dB, floor 3 dB, coarse 10 dB, fine
  0.25 dB, target 2 +/- 0.3 dB, 24 iterations. The benches are chosen at the
  ends: tables of 0.3, 0.5 and 1 dB and with zones of 0.3, 0.8 and 1.2 dB;
  signals too strong for the lowest and too weak for the highest gain; an ORx
  that rails or only saturates, that loses captures when overdriven or not; PAs
  that compress before the start, in the middle, late and never, by 0.4 and 0.9 dB
  per dB and by 10, and whose slope falls above, at and below the target; no
  start gain, one too low, one too high. `ReachBenches` can be leveled at every
  attenuation, so that `TargetReached` is about each of them that has a target.
* *Multiband search.* Four attenuations per band and two gains let both bands
  reach both ends; unequal starts, limits and levels tell the bands apart; three
  steps are a first move, one measured against it (grown, undone, improved) and
  the last; one re-level, one empty retake and one turn reach each limit and go
  on; the PA of the instance clips at full drive, misreads at the start and
  compresses each band by the other's drive. Readings that do not count may come
  at any capture.
* *Multiband case.* Locks at the start, below it and apart; back-offs of 0, 1 and
  2 steps of which the last reaches the attenuator's end; three runs: one
  interrupted, one refused or let in, one after the folder was moved aside.
* *Bench jobs.* Two jobs are a job and what it leaves behind. Two channels on
  two LOs share an ORx converter; rows are out of order, at one frequency and
  two, which are in one MHz (`MHz = 2`), so that rows of the replays and of a
  survey share names and files; a second survey has two signals of one bandwidth
  and one stem; a command changes the LO and not the frequency; signals have two
  lengths; the plans have zip and grid blocks, a shared
  power under a band's own, an LO left alone, a band without a signal and no
  block.
* *Probe.* 21 samples hold up to three windows of four that touch, overlap or wrap
  round the end; the unit of three leaves each remainder of padding; a budget of
  seven is less than two windows.

`CHECK_DEADLOCK FALSE` is said only of the operating point and of the client,
whose jobs are over at the end or at their bounds. The others have explicit final
steps.


## 6. Fairness

* *Server.* The operating system runs every thread that can run; a DLL call
  returns (one that does not is the supervisor's business: `HungServerEnds`);
  a waiter polls its condition with a timeout, so it sees a stop or a dead
  client (`_op_acquire` waits in slices); the monitor's loop runs. Nothing is
  assumed of clients: they may never release, die anywhere or say nothing.
  `NoStarvation` therefore says: if jobs end and the hold is lifted.
* *Supervisor.* Its loop runs on a poll, the process of `force_safe_fresh` ends
  or is timed out, a server binds its port or is refused, reads the end of its
  stdin, and its shutdown ends or times out. Nothing forces a crash, a hang, or
  a Ctrl+C.
* *Operating point.* Every capture returns. All else is sequential.
* *Multiband search.* The search is one loop of one thread: it goes on
  (`WF_vars(Next)`), and the violation of `AlwaysEnds` is a run of it.

The client, the case, the bench jobs and the probe state safety only: whether
they end is up to a caller, a bounded loop or the search above.


## 7. What is proved

All theorems are of the specification without fairness, for every value of the
constants under the named assumptions of each module.

**HardwareServerProofs** (any set of clients, leases and queue bounds).
`TypeCorrect`; `LeasesConsistent`; `AtMostOneLease`; `CallsRunForOwner`; and, if
`safe_state` works (`~SafeCanFail`), `TxStaysWithOwner`, `EveryJobStartsSafe`,
`SafeIsKept`, `ExitZeroMeansQuiet` and `PromiseIsKept`. That there is one lease
is not inductive: that granting the board is safe depends on `ending`, which
depends on the job queued for the ended lease. The invariant has five parts.
`QueueInv`: which job has which priority. `LeaseInv`: the owner is the only active
lease; a thread that is about to free the board, and a job that will, is about an
ended lease; a stopping server gives none; a running call is the owner's.
`BoardInv`: the start-up job comes first and once, a job's signal is on only while
it owns the board, and a ready server has switched off what a previous process
left on. `HoldInv`: from the hold of a `safe` on no lease begins, and once its
job is done nothing transmits. `ShutInv`: once the shutdown's job is done no call
runs and no job's signal is on; when it is not, the exit code tells.
`PromiseIsKept` maps each action to a step of `BoardLease` or to none.

**SupervisorProofs** (any number of restarts and attempts). `TypeCorrect`;
`NoSignalAbandoned` and `ReplacedSafely`: provided that the board obeys
`force_safe` and `safe_state` or the readback works
(`~(SafeCanFail /\ ReadbackCanFail)`), as long as no launcher left an orphan,
and, for the first, but for a stopped server that exited 0 on a `safe_state` that
failed. The invariant `WatchInv` says what the
supervisor may believe at each of its points of the server and of its signal.
`OneServer` (`OneServerOnBoard`) needs neither condition: it speaks of the orphan
too. Its invariant `BoardInv` says that the port has exactly one holder among
the server and the orphan, that only a server past its start has a link, and at
which points of the supervisor no server is alive.

**RemoteClientProofs** (any number of requests, jobs and programmings).
`TypeCorrect`, `EndsAreFinal`; and, if Ctrl+C hits no request but a forwarded
call and `program` (`Interruptible \subseteq {"call", "program"}`), `RepliesAreOurs`,
`ProgrammingIsKnown`, `IdentitiesTell`. `LockInv` ties the lock to where the
threads are; `WayInv` says that at most the request of the lock's holder is under
way, in one place; `KnownInv` orders the four copies of the programming.

**TxLoadProofs** (any set of channels, buffers and modes, any DLL call failing).
`TypeCorrect`, `RecordIsTrue` and `SkippedLoadIsALoad`; `OnlyAskedFor` (the
invariant `OnlyAskedTransmits`) and `MaskIsTrusted` (`MonitorSeesTx`), which both
leave out what follows an enable call that raised in the DLL. `PlayInv` ties what
should play to the record, `MaskInv` the three copies of the mask to the device:
none of them alone is inductive, as each is written from another.

**OperatingPointProofs** (any set of benches, any window, table, steps and
iterations under `WindowAssumption`, `BenchAssumption`, `GainAssumption` and
`SearchAssumption`).
* `TypeCorrect`: attenuation, gain and learnt step stay on their grids and in
  their ranges (`TypeInv`: the leveling's and the search's part, and that the
  row has a result).
* `LevelsAreClean`: what stage C accepts was measured on the full signal at the
  radio's settings, without clipping.
* `GuardIsKept` (`GuardHolds`): however the PA compresses, the slope misreads
  and the search ends, the attenuation is never below `atten_min_db`, and below
  the floor the clip guard raised only where the last iteration goes back to a
  reading not judged to clip. Two invariants: `WalkInv` (a reading is of the
  present attenuation, `Fresh`; the walk is above the floor, `Above`, and so is a
  lock, also backed off, `Locked` and `LockAbove`), and `FallbackInv`, which says
  of the best reading, before it is gone back to, that it was above the minimum
  and did not read as clipping.
* `RecordedLocks`: a row recorded as converged was locked at the target without
  clipping, and captured at that lock backed off, without clipping
  (`RecordInv`).
* `DriveUpHoldsLevel`: on a uniform table a step to more drive raises the level
  by no more than half an index (`DriveUpKeepsLevel`). `MemoryTrue` is the
  invariant: the search's last capture was of the full signal, and the step it
  has learnt is the table's own. It rests on what the rules compute: the secant
  of two readings on a uniform table is exact (`SecantExact`, from
  `RoundDivExact` and `CaptureExact`), rounding is within half
  (`RoundDivUpper`), more drive never compresses less (`CompFalls`), and only
  the walk, which moves the gain with it, lowers the attenuation
  (`LowersByWalking`). The assumption that the learnt step's range holds the
  table's, `StepMin <= DbPerIndex <= StepMax`, is what makes the clamp of the
  secant harmless.
* `LevelsAreFound` (`LevelsIntoWindow` on an `EvenTable`: any step that the
  search may learn, not only the assumed one): where some gain index puts the
  full signal into the window, the leveling ends on such an index, whatever the
  signal, the start index, the miss of the short captures and the ADC's rail.
  The one hypothesis, `CeilingIsNear`, is about the configuration: how far above
  the target the ORx saturates. `LevelInv` says that no index below the gain is
  needed (`HighEnough`), or that the climb towards one is in its first, second
  or third iteration (`Progress`): by the assumed step, by the step learnt, by
  one more. `Memory` says what the search may have kept by then: that the step
  is the assumed one or the table's, and that the nearest capture, taken when
  single indices jumped over the window, is no lower than the index below it
  (`Straddled`). A step down from a hot capture cannot pass the window
  (`DropsHigh`: by one index it cannot, as the window is below; by more it lands
  within half a step of the target, `DropLands`).
* `LevelsInTime` (`LevelsIntoWindow` on any table): on a table with a zone of
  other steps the climb can take longer than the trims there are, so the theorem
  is about the behaviours in which stage B ends by its own decision
  (`[][~TrimsOver]_vars`). Then nothing is lost on any bench: `SettledInv` says
  that the index stage B settles on, and every one stage C backs off to, is high
  enough (`HighEnough`), from `Memory` during the trims (`Recalled`). It needs of
  the table only that it does not fall (`TableRises`), and nothing of the step
  that is learnt.
* `TargetsAreReached` (`TargetReached`): a search that does not run out of
  iterations (`Decided`) finds a target that is there to be found. The bench is
  a `GentlePa`: its compression rises by at most 1 dB per dB of drive (beyond,
  the output would fall with more drive; with 1.5 dB per dB TLC shows a floor of
  the clip guard past the target), and some attenuation that suits is farther
  from the slope's threshold than the slope misreads (nearer, a target can be
  taken for clipping). `FineEnough` is about the defaults: a fine step beyond
  one attenuator step is within two thirds of the tolerance (0.2 and 0.2 dB).
  `SeekInv` has one part for each way to give up. With a level to be had at every
  attenuation, captures on either side of the window are two indices apart, so
  no jump is ever noted (`NeverJumps`), every reading that counts is in the
  window and none clips at the gain floor (`CountsInWindow`). At the floor the
  compression has reached the target's tolerance: at the start because some
  attenuation above it suits, and later because the clip guard's step is no
  larger than the error or a fine one below a clear attenuation
  (`GuardUpNear`, from `CompGentle`). So neither end of the attenuator is met
  with the target unreached (`FloorIsEnough`, `CeilingIsEnough`).
* `EveryStepAdvances`: the variant of the call. The stages ahead (`Stages`), what
  is left of the running one (`Left`: trims, iterations, indices above the
  floor) and the retakes an empty capture may have (`Retakes`) are naturals, and
  every step lowers them in lexicographic order, whatever the captures read.
  With the fairness of section 6 that is `Ends`; the step from one to the other
  is ENABLED's and stays with TLC.

**MultibandSearchProofs** (any finite set of bands, any levels, limits and steps,
and whatever the captures read). `TypeCorrect`, `FloorsAreHeld`, `LevelsAreKept`,
`ConvergedAreLocked`, `LeftAtMeasured`, all from `IInv`. Its parts: `ReadInv` (a
reading that is in was taken at the attenuations the search carries and, if it
counts, at the gain; the best step's readings all count and were taken at its
own settings), `FloorInv` (the search never carries less than a floor),
`LevelInv` (in the joint lock the bands are level and the floors leave room for a
common offset). `Plans` is what every plan of a move keeps; `HereInv`, `BestInv`,
`NextInv` are the three ways a plan ends. That the common offset has a value
rests on `Greatest`: any bands have one with the greatest value, by the
well-foundedness of strict inclusion on finite sets.

**MultibandCaseProofs** (any bands, locks, back-offs and number of runs).
`TypeCorrect`, `CapturedAtLock`, `FoldersFit` and the refinement
`FolderKeepsStore`. `CaptureInv` says which captures are of the full signals at
the lock as it is now, at each point before and after a fallback moved it;
`WriteInv` that the files are written in order, each by the run that is going
on, an output with the attenuations of its capture.

The same module proves the probe that the lock plays, for any loop, signals, peaks,
windows, crossfades, units and budgets under `ProbeAssumption`, wherever the cuts
are chosen: `WindowsKept` (`WindowsStayReal`), `RoundOnce` (`OnceRound`) and
`ProbeTypes`. It has three parts.
* The loop. `RemainderIs` and `LoopsApart` say when two positions are one sample,
  so that the proof can reckon with positions before they are taken round.
* The ranges of a mask. `Covering` (each kept sample is in a range) and
  `AfterFacts` (each range is after exactly one) rest on `Least`, by the
  well-foundedness of strict inclusion on finite sets. `FillFills`: one pass of
  filling leaves no gap too short, as no filled gap borders one that is left.
  Then every gap a join crosses has room (`GapFacts`, `RoomFacts`), and a cut with
  its pad stays in it: the segments are apart, once round (`SegApart`,
  `SegFacts`), and what is mixed is outside the mask (`MixedOutside`).
* The invariant `ProbeInv`. `PeaksInv`: the window of a taken peak is in the mask,
  and without a budget a peak is taken or waits. `ShapeInv`: from the fill on
  there is room, and only joins are moved. `LengthInv`: the sums over the ranges
  (`T`, a function from the positions to the length before them) give `total`,
  then the padded length, and the length of the probe differs from its place in
  `T` by the resume the first segment took in advance: the pad of the last join,
  divided between its cut and its resume, is still found in the length when the
  loop closes. `OrderInv`: the joined samples lie behind the first segment's start
  in the loop's order and before the next segment, and hold the mask so far.

**BenchJobsProofs** (any jobs, channels, files and plans). `LoMovesQuietly` and
`JobsEndQuiet`: what plays at each point of each job, wherever the one before it
failed. `RowsAreTrue`: for any jobs, names and settings that collide as they may,
and any number of jobs over one folder that stop anywhere, every row of every
CSV is true of its capture and of the files it names, as `RowsTellTheTruth` says
it (section 4). It needs no hypothesis beyond the kinds of the constants. A row
is written several actions after the settings were made and its files stay open
to every later job, so the invariant has a part for each thing in between:
* `PlanInv`: the steps left are well-formed rows, those of a survey grouped by
  frequency and signal, and each step's CSV is in the folder before its rows are;
* `ShapeInv`: what the radio is a function of;
* `RadioInv`: what is set at each point is the step's (the LO set last is at the
  row's frequency, though it is set once per frequency), and the capture in hand
  was read with these settings, through the readback's layout;
* `FilesInv`: the capture saved and the input kept are there when the row is
  noted;
* `LogInv`: a noted row is true of its files. A file carries the label of its
  CSV, and one that is written is for a row younger than all of that CSV's.

`SweepsMeasurePlans` (`SweepMeasuresThePlan`): for every sweep plan, whatever
radio it meets, a sweep that ends has measured exactly the points its plan asks
for, and as many as the block sizes multiply to. The plan is stated without
merging (one value per axis, one index for the axes of a zip block); the code
computes products of lists, merges dictionaries and overrides defaults. What the
plan's lists must be is `SweepAssumption`: lists, each setting named once, as the
keys of the plan's dictionaries are, and LO values that are frequencies. Unequal
lists in a zip block, a band without a power, a band without a signal and a
capture without its slot are not assumed away: they are refused by the steps
that refuse them in the code. The proof has two halves.
* What the pure rules compute for any plan. The modules write `np_product` and
  `itertools.product` as recursive functions, and the library's induction
  theorems cannot be used, so three lemmas replace them: `Induct` (a set with 0
  and every successor holds the naturals, from the well-foundedness of strict
  inclusion on finite sets), `InductTo`, and `StepByStep` (a function defined
  step by step exists). From them `ProductsFacts` and `CombosFacts` (every
  choice of an index per list, each within its list, as many as the product of
  the sizes), `BlockFacts` and `PartialFacts` (zip or grid), `IndexInPlan` and
  `IndexCovers` (the choices of partial points are the plan's), `MergedChosen`
  and `PointFields` (merging and finalising take the value chosen, else the
  default).
* The sweep. `SweepInv` says that what is measured and what is left are the
  points in order (`Aligned`), and how far the point in hand is on the radio.
  A point that leaves an LO alone is recorded at the frequency it finds there,
  which is the same for all points: an LO is set by every point or by none
  (`LoOfPoint`, `LosOfPlan`).

**Only model-checked.**
* All liveness (`server_live`, `HungServerEnds`, `NoUnwatchedServer`, `Ends`):
  liveness under fairness and ENABLED are outside of the prover's reach.
* That the limits are enough: that 24 iterations reach the target
  (`TargetReached` for a search that ends with "max iterations") and that 16
  trims climb any table with a zone of other steps (`LevelsIntoWindow` after
  `TrimsOver`). Both compare a limit with the numbers of a bench and are false of
  other numbers (section 3).

No module here declares a RECURSIVE operator.


## 8. What is not modelled, and why

* Signal processing: peaks, alignment, spectra, EVM, ACLR, least squares, the
  basis functions, the slope that a capture yields. It is floating-point and
  stateless. The models say what a capture *reads*.
* Time: every deadline is nondeterministic, so the properties hold for all of
  them; a property that needs one to be longer than another is out of scope.
* The slope matrix of the per-band lock: a singular one and the solution's size
  are left out, any move within the cap is allowed. The halving of the cap is
  rounded up to an attenuator step.
* The built probe's check against the full signal, constant-envelope and silent
  signals, and its fidelity.
* The Rx side of the masks, status and temperature reads and trigger arming of
  `Radio`: no modelled decision reads them.
* `sweep.py` and `experiment.py`: a loop over callables and a record; the
  notebooks' plots; the summary text of a plan.
* The key file, formatting of status, log lines and saved files, argument
  parsing and the other commands of `cli.py`, which print.
* After an enable call that raised in the DLL the mask was already noted: then
  the monitor's cache may say "off" of a board that transmits. `MonitorSeesTx`
  excludes that state (`faulted`).
* An orphan's call may switch TX on after the fresh `force_safe`; only the
  replacement's own start-up ends that. `AbandonsNoSignal` and `ReplacesSafely`
  exclude it (a state with an orphan, `orphaned`), `OneServerOnBoard` does not.


## 9. What could come next

* One model of a whole bench session: `RemoteClient` over `HardwareServer`
  instead of over its lease, so that a job's rows and a revocation meet.
* The number of trims and iterations a bench needs, as a function of its table
  and its PA: `LevelsInTime` and `TargetsAreReached` without their condition.
* A common bench under `MultibandSearch`, as `OrxAgc` is under `OperatingPoint`,
  to ask whether a pair of targets within reach is found.
