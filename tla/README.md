# A verification project for the laptop cooler

TLA+ models of the laptop cooler (ESP32 firmware in `src/`, Linux agent in
`host-agent/`), the TLC runs that check them and the TLAPS proofs about them.
Paths below are relative to the repository.

## The system

A Linux agent reads temperatures once per interval, runs a fan policy and
broadcasts one UDP datagram `LC2 token sequence temperature duty`. The cooler
(ESP32, `no_std`, one cooperative executor) validates it and drives a fan. When
it has no usable Wi-Fi configuration the cooler offers a setup access point, a
DHCP server and a small HTTP form, and keeps the configuration in a journal of
six flash sectors.

| Component | Source | State | Operations | Hard part |
| --- | --- | --- | --- | --- |
| Command state | `src/control.rs`, `temperature_receiver` in `src/main.rs` | last sequence, last update, temperature, requested duty | `parse_command`, `accept`, `duty_percent` | repeated, late, reordered datagrams; wrapping 32-bit numbers; stale time |
| Fan loop | loop of `main` in `src/main.rs` | duty of the PWM channel | set the duty that `duty_percent` returns, every millisecond | shares `HOST_STATE` with the receiver through a critical section |
| Host agent | `host-agent/src/main.rs`, systemd unit | sensors, sequence, policy | one pass of `run`'s loop; exit; restart by systemd | a new process starts at an unrelated number |
| Fan policy | `host-agent/src/policy.rs` | smoothed temperature, target, commanded duty, slew budget | `update`, `validate`, `parse_curve` | hysteresis, quantization and slew interact |
| Configuration journal | `src/config_storage.rs`, `src/config.rs` | six flash sectors | `load`, `save` | power loss and flash errors between any two writes; wrapping generations |
| Setup portal | `setup_http_server` and `main` in `src/main.rs` | three workers, two channels of capacity one | read a form, send it, wait for the result, respond, restart | several forms at once, one result channel, restart under the others' feet |
| Form parser | `src/provisioning.rs` | none | `parse_request`, `parse_form` | input in pieces, duplicate fields, percent-encoding |
| Wi-Fi lifecycle | `main`, `wifi_station_monitor` in `src/main.rs` | mode, attempts | connect within 20 s, fall back to setup, reconnect three times, restart | a restart forgets the command in force |
| DHCP server, tachometer, tooling | `dhcp_server`, `main`, `dev`, `docker/` | - | - | not modelled (see below) |

Interactions: agent to cooler by UDP only; receiver to fan loop by the shared
`HOST_STATE`; workers to `main` by `NEW_CONFIG`, and back by
`CONFIG_SAVE_RESULT`; `main` to flash by `config_storage`; everything to the
next boot by the flash alone (`software_reset` and power loss clear the rest).

What makes each of them correct:

- Command state: within an epoch a command is not taken twice nor an older one
  after a newer; a restarted agent is adopted within the sample timeout; the
  fan stops after the cooldown, not before and not much later; heat forces full
  speed.
- Journal: a power loss or flash error never loses the stored configuration; a
  save that returned Ok is what the next boot loads.
- Portal: every form gets exactly one answer, and the right one; nobody waits
  for ever; a restart follows a verified save.
- Form parser: what was typed in is what is saved; the decision does not depend
  on how the bytes arrive; every connection is answered.
- Policy: the commanded duty stays in range, moves no faster than the slew,
  stays close to the curve and reaches its target; the emergency bypasses
  everything.
- Wi-Fi: the cooler ends up connected or in setup mode within a bounded time; a
  network that is there is used; no restart leaves the fan running.

## Modules

| Module | Models | Extends / composes |
| --- | --- | --- |
| `SerialNumbers` | `wrapping_add`, `wrapping_sub` and the half-window order shared by `sequence_is_newer` and `generation_is_newer` | - |
| `HostControl` | `HostState`, `parse_command`, the receiver task, the fan loop, a restart | `SerialNumbers` |
| `HostControlReplay` | `HostControl` with histories of the epoch and of a reported heat | `HostControl` |
| `HostAgent` | the agent's loop and systemd | `SerialNumbers` |
| `CoolerLink` | agent, network and cooler | instances of `HostControl` and `HostAgent` |
| `FanPolicy` | the agent's fan policy: `validate`, `new`, `update` | - |
| `FanPolicySlew` | `FanPolicy` with histories of the duty against its ramps | `FanPolicy` |
| `AtomicConfig` | what the configuration store promises: a register | - |
| `ConfigStorage` | the journal, flash operation by flash operation | `SerialNumbers`; implements `AtomicConfig` |
| `Provisioning` | `parse_request`, `parse_form`, `decode_component`, the rules of `DeviceConfig::new` (operators only) | - |
| `SetupRequest` | the loop in which a worker reads a request, and browsers that encode forms | `Provisioning` |
| `SetupMode` | what setup mode promises the rest of the cooler | - |
| `SetupPortal` | the HTTP workers, `main`'s save loop, the channels | uses the promise of `AtomicConfig` in `SaveReturns`; implements `SetupMode` |
| `WifiLifecycle` | first connection, fallback, `wifi_station_monitor` | - |
| `Cooler` | the whole cooler from boot to boot | `WifiLifecycle`, instances of `HostControl` and `SetupMode` |
| `CoolerHold` | `Cooler` with a history of the last command | `Cooler` |
| `*_proofs` | theorems | the modules they are named after; `Cooler_proofs` also those of `WifiLifecycle` |
| `MC*` | the instances that TLC checks | - |

Definitions keep the source's names (`accept`, `duty_percent`, `next_slot`,
`NEW_CONFIG`). A definition whose name ends in `_Something` and whose comment
begins with "Seeded fault" is not part of the model: it is a slip the code
could plausibly contain, put in the place of the definition it is named after
to see that the property meant to catch it does.

### HostControl

`last_sequence`, `temperature_milli_c` and `requested_duty_percent` are the
fields of `HostState`; `update_age` is `now - last_update_millis`, the only way
the code uses the time, and stops at `AGE_CAP`, two ticks past the cooldown.
`current_duty` is the PWM duty. `Receive(p)` is one datagram through
`temperature_receiver`: `accept(p)` or `reject(p)`. `SetDuty` is a pass of the
fan loop that finds a new duty. `Tick` waits for it: the loop runs every
millisecond and a tick is not shorter than that. `Reboot` is any restart.
A datagram is a record of what `parse_command` looks at.

`HostControlReplay` adds the numbers accepted since the last stale state, how
far the counter has travelled in that time, and `hot`, a clock that starts with an
accepted report of the hard emergency or more and ends with a cooler one or a
restart. None of them guards a step.

### HostAgent and CoolerLink

One pass of the agent's loop is one step; `Next` and `Spec` put the passes
together with systemd and the operator. The policy's result is any member of
`PolicyDuties` below the emergency temperature and 100% from it on, which is
what `FanPolicy` shows of its first branch (`UpdateEmergency`).
Errors that leave `run` (`Fail`) and failed starts lead to `"failed"`, from
where systemd starts a new process after `RestartSec`. A new process takes any
first number: `initial_sequence` hashes the clock.

The network is a set. A datagram in it may be delivered any number of times and
in any order until it is older than `MAX_DELAY`; one that is never delivered is
lost. `Disturb` bounds restarts, stops, failures and reboots. `inForce`,
`epochAge`, `silence` and `heard` are histories. The instance of `HostControl`
takes for its datagrams those an agent can build (`Datagrams`), and both
components keep their own next-state relations in the composition (proved).

### FanPolicy and FanPolicySlew

The variables are the fields of `FanPolicy`; `update` is `UpdateEmergency` or
`UpdateNormal`, and `Follow` is the lower half of the latter. Floating point is
replaced by integers in which the instances compute exactly: temperatures in
milli-degrees, duties of the curve in 1/`SCALE` percent (`ScaleAssumption`, which
TLC evaluates, says that the scale is fine enough), the budget in percent times
ticks. The smoothed temperature is any value of the grid between the previous
one and the reading, the two included. The real one is strictly between, on a
path that depends on the pace of updates; every such path on the grid is among
the modelled ones, so the invariants cover it. An action `New` is a restart of
the agent, perhaps with another configuration: the policy is not persistent.

`FanPolicySlew` adds two leaky accounts, `rise` and `fall`: a movement of the
duty adds to one, time drains both at the configured rates. That an account
never reaches one step is the same as saying that over every stretch of time
the duty moves by less than rate times time and one step. `due` is what a ramp
that began when the target was chosen would still have to earn on the way to
it; it stops counting at `-Step`, where the ramp has been missed for certain, and
the proof shows that it never gets there. None of them guards a step.

### AtomicConfig and ConfigStorage

A slot is `None` when `decode` could not accept it even with a commit marker,
and otherwise the record and whether its marker is there; this rests on the CRC
telling torn or foreign bytes from a record. `load_latest` is one step per slot
read, `save` one step per flash operation. `Partial` is what an operation that
fails, or in which the power goes, leaves behind: nothing, part, or all of its
effect. A write may also report success and leave bytes that do not decode: that
is what the read-back is for. `pc` is where `main` is; only `main` touches the
flash, so nothing interleaves but the power.

`AtomicConfig` is the contract: a save that returns Ok has replaced the
configuration, one that fails or is cut short has or has not, a load returns
the configuration or fails. The mapping is `stored <- Stored`, the
configuration of the journal's head, and `request <- config`.

### SetupPortal

A worker's `pc` is the await it is in. `form` is the configuration it holds
until `NEW_CONFIG.send` goes through, `page` the response it has to write.
`unsent` is the result while `main` is blocked in `CONFIG_SAVE_RESULT.send`.
`SaveNewConfig` saves and, if the result channel has room, sends in the same
step, because there is no await between the two that would yield. Which waiting
worker gets a result is left open: the channel does not know who sent which
form. `sender`, `refused` and `verified` are histories. A boot that reaches
station mode spawns no workers and is not followed.

`SetupMode` is what the rest of the cooler relies on: the stored configuration
changes only to a submitted one, and a restart is announced after a verified
save. The mapping of `ImplementsSetupMode` takes `closing` for "some worker is
about to reset the chip".

### Provisioning and SetupRequest

`parse_request` looks at the bytes that have arrived; in the model at a request
and how much of it is there. A request is the length of its header, whether the
blank line is there, what the lines of the header say, and the body as a
sequence of units: a byte, or a percent escape of one. Bytes are told apart only
where the parser does (a hexadecimal digit, another letter, +, &, =, NUL, the two
halves of a two-byte character, and so on). `Fields` is `split('&')`: a field is
what lies between two neighbouring stops, the ends of the body and its `&`;
`IsNamed` and `ValueOf` are `split_once('=')`. A header line is a position in
the list of lines, so that the last `Content-Type` and a repeated
`Content-Length` are sets of positions (`Lines`). `IsForm`, `decode_component`
and `DeviceConfig_new` say when the parser returns a configuration. All its errors
are one outcome, since they lead to one page.

`SetupRequest` is the read loop around it: `Read` adds a piece of any size,
`End` is a read that returns 0, an error or the three-second timeout, `Accept` is
the next connection into the same buffer. Its assumptions say what a request is:
a header of at least one byte (`parse_request` needs a blank line to go on), a
body of units, a number where `Content-Length` was not refused; and that the
text typed into a form is UTF-8, as a browser's text is. The properties about forms define what
a browser sends (`Encoded`, `Submission`) from the URL-encoding standard, not
from the parser.

### WifiLifecycle, Cooler and CoolerHold

`phase` is the await in which `main`, and after the first link the monitor, is:
`connect` (the first `connect_async`), `linked`
(`wait_for_disconnect_async`), `delay` (the 2 s timer), `reconnect` (another
`connect_async`), `setup`. An attempt may end in any way at any time up to
`CONNECT_LIMIT`. The driver keeps an attempt that `with_timeout` has dropped, so
that an association may come during the next delay (`LateAssociation`).
`GiveUp` is the monitor's `software_reset`, `Restart` any other start of the
chip, `Boot` what both have in common. `outage` and `cause` are histories.

`Cooler` adds the rest: a connection succeeds when the configuration that
`main` has loaded is one of `Joinable` and the access point is `reachable`; a
datagram arrives only over a link; setup mode saves forms; every restart reboots
`HostControl` and loads again. Faults are an outage of the network, a power
loss, a read error of the flash and an error of `wait_for_disconnect_async`. A
power loss and a read error in the boot that follows it count as one fault, and
the very first boot may have one for nothing.
`CoolerHold` follows the last command that came over a link the monitor had not
given up.

## Runs

| Run | Instance | Properties | What it shows |
| --- | --- | --- | --- |
| `commands` | counter of 6, timeout 1, cooldown 3; every sequence, temperatures on both sides of 90, one datagram per reason to refuse | `ReplayTypeOK`, `EpochIsBehind`, `NoReplayInEpoch`, `HeatForcesFull` | any datagrams in any order: no number of the epoch is taken again before the counter has gone more than half way round, and a reported heat forces full speed against a request for the lowest duty |
| `link` | counter of 6, timeout 2, cooldown 3, delay 2, readings 40 and 120, one disturbance | `LinkTypeOK`, `NoRegression`, `EpochAdopted`, `FanOffAfterSilence` | what the README promises of the link, with a network as slow as the sample timeout |
| `link_live` | counter of 4, timeout 1, cooldown 2, delay 1, two disturbances | `RunningAgentObeyed`, `StoppedAgentFanOff` | no lock-out for ever; a stopped agent leaves the fan off |
| `link_range` | readings 40 and 130 | `ReportedHotForcesFull`, violated | finding 2 |
| `policy` | the default configuration, a coarse one (step 19, which does not divide 100, ramps of several updates a step), a fast one (step 1, ramps beyond what a u8 counts), four that `validate` refuses; 8 readings below, on, between and above the points; updates half a second and three seconds apart | `PolicyTypeOK`, `SlewBounded`, `RampIsFollowed`, `TargetTracksCurve`, `NeverOvershoots`, `NoHunting`, `SettledTargetReached`, `SteadyReadingSettles` | ramps, hysteresis and steps keep what they promise for any course of the temperature, a ramp is followed in time, the target does not hunt, and the fan settles |
| `journal` | the code's 6 slots, generations of 12 values, two configurations | `StorageTypeOK`, `JournalInOrder`, `ScanFindsHead`, `ImplementsRegister` | the journal is an atomic register through every power loss and flash error |
| `journal_failed` | 3 slots, 6 generations | `FailedSaveChangesNothing`, violated | finding 3 |
| `portal` | the code's 3 workers, two configurations | `PortalTypeOK`, `EveryWaiterHasAResult`, `RestartAfterVerifiedSave`, `ImplementsSetupMode`, `FormsAreAnswered`, `SavedThenRestart` | results and waiting workers always match, nobody waits for ever, and the portal is the setup mode the cooler relies on |
| `portal_saved` | 2 workers, two configurations | `SavedPageIsTrue`, violated | finding 4 |
| `requests` | a buffer of 18, headers of 2, names up to 2, passwords of 0 or 2 to 4 (4 only if hexadecimal), tokens of 2 or 3; 73 requests; pieces of every size | `RequestTypeOK`, `CutIndependent`, `FullBufferIsDecided`, `FormRoundTrip`, `EveryRequestDecided` | what was typed in is what is saved, wherever the request is cut |
| `cooler` | delay 1, limit 4, hold 12; a configuration that can join and one that cannot; three faults, any first read of the flash | `CoolerTypeOK`, `OutageBounded`, `PatientRestart`, `FanOffUntilCommanded`, `OutageResolves`, `NetworkIsUsed`, `FormLeadsToLink` | from any boot, outage or form to a link or to setup mode, and no fan without a command |
| `cooler_hold` | the same with one fault | `HeldThroughCooldown`, violated | finding 1 |

Bounds. Times are small multiples of a tick, in the order the code has them:
interval < sample timeout < cooldown. The sequence counter needs to be larger
than what the network can hold (`MAX_DELAY` + 1 numbers of one process) with its
half window, which 6 is; both the counter and the generations wrap many times
in every run. `MAX_DELAY <= SAMPLE_TIMEOUT_MILLIS` is an assumption of
`NoRegression`: a datagram that is later than the sample timeout may well be
taken after a newer one, by design. Six slots are the code's own number, three
workers too, so those runs are not scaled at all except for the width of the
generation, where all that matters is that half of it exceeds the five
generations that can be alive. An agent never needs the cooler's override: its
own emergency limit is at most 90 °C, so what it reports as hot asks for 100%
already. That is why the override is checked in `commands`, whose datagrams
report 90 °C and ask for the lowest duty, and not in `link`. One disturbance suffices for a restart of either
side in `link`; `link_live` allows two. For the properties of `link` a proof
removes the bounds.

In `cooler` three delays (3 ticks) are shorter than the hold (12), which is
shorter than three attempts that run into their limits (15), as 6 s, 60 s and
66 s are; so the hold ends before and after the monitor gives up. Three faults
are an outage of the network, a boot that cannot read the flash, and one more.
In `requests` every length limit can be met, missed by one from either side and
exceeded, and the buffer is filled exactly, nearly, and not; the limits keep
their order, not their size, since the parser only compares with them.

The policy's configurations are not scaled either; the two paces make an update
earn less than a step in one case and several in the other, and half a second at
3%/s is not a whole percent, so that the budget carries fractions.

Fairness. `FanPolicy` assumes that `update` keeps being called (weak fairness):
the agent's loop does so once per interval for as long as it runs. It assumes
nothing about the readings: the liveness properties state what they need of
them. `CoolerLink` assumes that the clock advances, that the fan loop and
the agent's loop run, that systemd restarts (weak fairness each: they are timer
loops), and strong fairness of the delivery of a datagram of the running
process: a network that loses all of them obviously lets the fan stop.
`SetupPortal` assumes weak fairness of each worker and of `main`: the executor
polls a task whose await is ready. Nothing is assumed about who gets a channel
place first, so `FormsAreAnswered` is stated for the time after browsers stop
submitting; with a steady stream of forms one worker could be overtaken for
ever. Browsers are not fair. `SetupRequest` assumes that a read returns, which
the socket's timeout of three seconds makes it do.

`Cooler` assumes that the fan loop, the monitor and `main` run, that an attempt
to connect ends (its limit ends it), that the driver notices a lost access
point, and that a worker which has announced the restart carries it out: weak
fairness each, of what is ready until it is done. The clock gets strong fairness,
because a datagram or a form that arrives may disable a tick for a moment (the
fan loop runs first) without stopping time. Forms, faults and the return of the
network get none.

Deadlock is checked in every run.

## Findings

1. `cooler_hold`: `README.md:151` says that the cooler holds the last duty for 60
   seconds when communication stops. When the access point is gone,
   `wifi_station_monitor` resets the chip after three failed attempts
   (`src/main.rs:335`), and attempts that fail at once take little more than
   three delays of 2 s; the reset clears `HOST_STATE` and the fan stops.
2. `link_range`: the agent sends readings up to 150 °C
   (`host-agent/src/main.rs:272`), the cooler refuses those above 120 °C
   (`src/control.rs:119`), so an extremely hot reading does not force full
   speed as `README.md:151` says; the old duty is held and, if it lasts, the
   fan stops after the cooldown.
3. `journal_failed`: `save` can return an error after its record has become the
   newest (`src/config_storage.rs:58-64`), while the page says "The existing
   configuration is unchanged." (`src/main.rs:475`).
4. `portal_saved`: with two forms in flight a worker may take the other's
   result and tell its browser "Saved" for a form whose save fails
   (`src/main.rs:529`).

Two smaller disagreements are facts to read off the code and have no run.
`README.md:133` says that duties must increase, `validate` accepts equal ones
(`host-agent/src/policy.rs:47`); and that a curve must end at 100%, which with a
`duty_step_percent` that does not divide 100, 19 for one, `quantize_duty` never
gives (`host-agent/src/policy.rs:220`): only the emergency does.

## Proofs

All of them hold for every value of the constants that satisfies the named
assumptions of the modules.

- `SerialNumbers_proofs`: wrapping differences add up below one turn, the
  half-window order is asymmetric, and what is at most half a turn behind is
  not newer.
- `HostControl_proofs`: `TypeCorrect`, `EpochBehind`, `NoReplay`, `HeatIsForced`.
  `NoReplayInEpoch` is an action property; alone it says nothing about the
  numbers accepted earlier. `EpochIsBehind` does: all of them lie behind
  `last_sequence` by at most the distance travelled. It is inductive with the
  types, because an accepted number moves `last_sequence` forward by exactly
  what is added to `travel`. As long as that is at most half a turn,
  `sequence_is_newer` refuses them. `HeatForcesFull` needs `HeatInForce`: the
  clock of the heat is the age of the state, and the heat is what `HostState`
  still remembers.
- `CoolerLink_proofs`: `LinkImplementsAgent` and `LinkImplementsHostControl`:
  each step of the composition is a step of the one or the other component, or
  leaves it alone, so the network adds no behaviour to either. `LinkTypeCorrect`, `SilenceStopsFan`,
  `HotReportsForceFull`, `RestartedAgentAdopted`, `CommandsNeverRegress`, for any
  number of disturbances, every delay, interval and counter. None of the four
  properties is inductive; each has its own strengthening. `Known`: what the
  network holds was sent no later than the last datagram, so what is in force
  is at most `MAX_DELAY` older than the silence. `Heard`: the temperature heard
  is the one in `HostState`. `Epoch`: what an earlier process left behind, in
  the network or in force, is no younger than the running process. `InLine`:
  of two datagrams of one process the older is behind the younger by no more
  numbers than the ticks between them, and what is in force is in the network
  or older than all of it. The last step of `CommandsNeverRegress` is
  `BehindIsNotNewer` of `SerialNumbers_proofs`. Three hypotheses are not facts
  of every instance and stand in the theorems that need them: `Understood` (the
  agent's readings and duties lie in the cooler's ranges; finding 2 is what
  happens without it), `Cooling` (the cooldown covers the sample timeout, as the
  constants of `control.rs` do) and `Prompt` (the network is no slower than the
  sample timeout and the number does not go half round meanwhile).
- `FanPolicy_proofs`: `PolicyTypeCorrect`, `SlewIsBounded`, `RampIsKept`,
  `NoOvershoot`, `TargetTracks`, `NoTargetHunts`, of `SlewSpec`, for every configuration `validate` accepts,
  every set of integer readings, every pace and every scale. That
  `interpolate_curve` gives a duty at all needs a segment for every temperature
  between the ends of the curve (`SegmentExists`, by the least point above it);
  that it stays between the duties of the segment's ends is
  `InterpolateSegment`. `SlewBounded` is not inductive: the budget may turn into
  movement at once. `SlewInv` adds that below the target the account and the
  budget make less than one step *together* (`Ahead`); it holds because a budget
  is kept only with its target and because `Change` takes every whole step of it
  unless it arrives (`ChangeIsPaid`, which deals with the saturations). `Books`
  is the arithmetic of one movement. `TargetTracks` rests on `QuantizeNear`: the
  multiple of the step that `quantize_duty` picks is within half a step, also
  where the result is clamped to the protocol's range. `RampIsKept` comes from
  an equation (`DueInv`): short of the target, `due` is the way that is left
  less the budget, because what an update earns goes into the budget and what
  the budget pays for shortens the way. With the budget below one step
  (`PolicyTypeOK`) the lag is below one step. `NoTargetHunts` comes from
  `Settled`: below the emergency the target is a fixed point of `TargetFor` at
  the smoothed temperature, which is not obvious where a step is coarser than
  the hysteresis. The two are the safety core of `SettledTargetReached` and
  `SteadyReadingSettles`: the target stays once the smoothing is at rest, and
  the duty then gets there as fast as its ramp.
- `ConfigStorage_proofs`: `TypeCorrect`, `InOrder`, `ScanIsRight` and
  `Refinement`, for any number of slots from two on and any generation of which
  half the width exceeds the distance of two slots (`SlotAssumption`; the code
  has 6 and 2^32). The rank of a slot is its distance behind the head.
  `GenerationsFollowRanks` says that among records in line behind one head
  `generation_is_newer` is the order of the ranks, hence total and transitive
  there though not in general; `NextRecordIsHead` and `BlankedKeepsHead` say
  that save keeps the line. The inductive invariant `JournalInv` adds to the
  order of the journal what the scan knows half-way (`ScanSoFar`: its candidate
  is newer than every valid slot it has passed) and what save has written so
  far (`SaveSoFar`: until the marker is complete the head is the record that
  was found, afterwards it is the new one). The refinement then needs one case
  per action: only `WriteCommit`, or a `Partial` of it, changes the register.

- `SetupPortal_proofs`: `PortalTypeCorrect`, `WaitersAreServed`,
  `RestartIsVerified`, `PortalImplementsSetupMode`, for any finite pool of
  workers. `PortalInv` says what every task and channel holds where it waits and
  which results stand for a verified save; `Matched` counts the workers that wait
  against the configurations and results on their way, and every step moves both
  by the same amount. `NobodyWaitsInACircle` and `FormsRunOut` are the safety core of
  `FormsAreAnswered`: while a form is underway some channel that a task waits
  for is ready, and every step with a form makes `Work`, a natural number,
  smaller, unless a browser submits another; what is left is that a task
  whose step stays possible takes it.
- `SetupRequest_proofs`: `OutcomeIsCutIndependent`, `FullBufferDecides`,
  `RequestTypeCorrect` and `FormsRoundTrip`, for every set of requests and forms
  of any length, and every buffer. The first two hold because `parse_request`
  decides for good as soon as it decides (its guards are monotone in the length
  that has arrived). `RequestTypeCorrect` needs that what is saved can be stored
  (`FormIsStorable`): the limits hold after decoding, and a decoded value is
  UTF-8 without NUL. `FormsRoundTrip` says that decoding inverts the browser's
  encoding (`EncodedDecodes`, unit by unit, and the length stays) and that the
  stops of a submission are exactly the two `&` the browser put between the
  three fields (`SubmissionSplits`): no encoded value contains a `&` or an `=`.
  So its fields are the form's, each there once, and the parser's limits decide
  (`SubmissionParsed`, `SubmissionTaken`). The inductive invariant `Sound` ties
  the outcome to the part that has arrived.
- `Cooler_proofs`: of `WifiLifecycle` `WifiTypeCorrect`, `OutageIsBounded` and
  `RestartIsPatient`, by `WifiInv`, which says how long an outage has lasted at
  least and at most at each attempt; `CoolerImplementsLifecycle`: every step of
  the composed cooler is one of its life cycle or leaves it alone, so the same
  bounds hold of it (`CoolerOutageIsBounded`, `CoolerRestartIsPatient`);
  `FanWaitsForCommand` and `CoolerTypeCorrect` (`ModesOK` is inductive with the
  types). `CoolerImplementsSetupMode` and `CoolerImplementsHostControl`: the
  same of the other two parts, one case per action of the composition. The
  former also says what `SetupMode` cannot, having no other mode: outside setup
  mode no step changes the stored configuration or leaves a restart announced.
  `FanWaitsForCommand` takes the types of the command state (an age that is not
  `None` does not become so by ageing) and that only a receiver that listens
  can take a command. With
  `PortalImplementsSetupMode` this closes the chain: the portal keeps the
  promise, and the cooler asks no more of it.

Every invariant and action property of the passing runs is proved. Only
model-checked is liveness, because fairness and ENABLED are out of the prover's
reach: `RunningAgentObeyed`, `StoppedAgentFanOff`, `SettledTargetReached`,
`SteadyReadingSettles`, `FormsAreAnswered`, `SavedThenRestart`,
`EveryRequestDecided`, `OutageResolves`, `NetworkIsUsed` and `FormLeadsToLink`.
Several have their safety core proved: `SilenceStopsFan` for
`StoppedAgentFanOff`, `RestartedAgentAdopted` for `RunningAgentObeyed`,
`CoolerOutageIsBounded` for `OutageResolves`, and those named above. The
`AgentConfig` that `parse_config` would build, the sensors and the rounding of
f64 are in no module, so no theorem speaks of them.

## Not modelled

- The DHCP server (a library call per packet, no state), the tachometer (counted
  and printed, read by nothing), the Wi-Fi driver and network stack, the build,
  flashing and install scripts.
- Of the agent: `parse_config` and `parse_curve` (text to numbers, once, at the
  start; what they let through is `validate`'s decision, which is modelled),
  `discover_sensors` and `maximum_temperature` (files to one number; the model
  takes any number in the range), the modes `--once` and `--help`.
- The rounding of f64 in the policy, and the scheduling of the executor between
  two awaits: a task runs from await to await.

## Plan

Done: the command state, the link, the fan policy, the journal, the portal, the
form parser, the Wi-Fi life cycle and their composition; a proof of every
invariant and action property of the passing runs, and of every refinement
between the modules: the portal and the cooler of `SetupMode`, the cooler of
`WifiLifecycle` and of `HostControl`, the link of `HostAgent` and of
`HostControl`, the journal of the register.

What is left, in this order:

1. `Sensors`: `discover_sensors` and `maximum_temperature` as an implementation
   of `HostAgent`. The list is refreshed only when a reading fails, so a sensor
   that appears later is not read; `README.md:15` speaks of the highest
   temperature.
2. `AgentConfig`: `parse_config` with its defaults and its limits, and that the
   order of the lines does not matter.
3. `CoolerLink` with an interval as long as the cooldown, which `parse_config`
   accepts (60 s).
