# TLA+ models of the Apple Silicon drivers

These modules model the drivers of the Scarlet project for Apple Silicon
machines: what they do between interrupts, tasks, devices and the firmware of
coprocessors. TLC checks them on small instances; TLAPS proves for every size the
safety properties of the mailbox, the ring, the demultiplexer, RTKit's boot, the
SIO channel, the allocators, the IOMMU, power and sound, of the buses and the input
devices, and of the video decoder's sessions, references and firmware. `PROJECT.json` maps every definition to the source lines it
stands for. Paths are under `src/drivers/` unless they begin with `src/`.

## 1. The system

The repository holds drivers (`drivers/`), the firmware of the video decoder
(`src/firmware/apple-avd-fw-rs`) and the board project (`src/projects`). Most
devices sit behind coprocessors, and their drivers are clients of one stack:

```
  dpaudio      dcpext/av_audio     dcp/iomfb     smc        avd     mca, spi-hid, codecs
     |               |                 |          |          |            |
     |             EPIC                |          |     own firmware   spi, i2c, admac
     |               |                 |          |          |            |
    SIO             AFK                |          |          |            |
     \               |                 |         /           |            |
      +------------ RTKit service -------------+             |            |
                         |                                   |            |
                    ASC mailbox                              |            |
                         |                                   |            |
      +------------------+-----------------------------------+------------+
        shared by all: DART (IOMMU), PMGR (power), AIC (interrupts), MSI, NCO, pins
```

| Component | State | Operations | Interacts with | Hard part |
|---|---|---|---|---|
| ASC mailbox `soc/apple-asc` | two hardware FIFOs, `pending_messages`, `tx_lock`, `rx_lock`, waker, ready handler | `send`, `recv`, `recv_timeout`, `claim_interrupt` | RTKit, SIO handler | interrupt, tasks and handler empty one FIFO |
| RTKit `soc/apple-rtkit` | power states, endpoint map, buffers, crash flag, `pending_messages` | `boot`, `start_ep`, `recv*`, `shutdown` | ASC, every coprocessor driver | several tasks pull from one mailbox; buffer requests inside the handshake |
| AFK `soc/apple-afk` | shared rings, handshake flags | `send`, `recv`, `recv_payload`, `recv_ack` | RTKit, EPIC | wrap-around of memory shared with another processor |
| EPIC `soc/apple-epic` | services, pending command, command buffers | `poll`, `call_by_channel`, notifications | AFK, DART | late replies, callbacks during a command |
| SIO `dma/apple-sio` | 16 tags, channel, draining flag, worker | `start`, `stop`, `queue_cyclic_period`, drain, worker | ASC, dpaudio | three contexts drain; the firmware owns buffers |
| ADMAC `dma/apple-admac` | descriptor and report rings, counters | `start`, `stop`, queue, interrupt, residue | MCA | two readers of the reports |
| dpaudio, MCA, CS42L83, TAS5770L `audio/` | stream flags, clocks, register images | PCM operations | SIO, ADMAC, I2C, dcpext | any of many steps fails and is undone |
| DCP, IOMFB `display/dcp` | callback stack, descriptors, scanouts | calls, callbacks, present, probe | RTKit, DART | calls and callbacks nest both ways |
| DCPEXT, crossbar `display/dcpext`, `display/dpxbar` | route, link state, mirror | probe, link callbacks, present | EPIC, ATC PHY, CD321x | waits for firmware that waits for the driver |
| ATC PHY, DWC3 `phy/apple-atcphy`, `usb/dwc3` | lanes, rates, PIPE, power | set mode, power, configure rate | CD321x, DCPEXT | two drivers program one PHY |
| CD321x `usb/typec/apple-cd321x` | command and status registers | probe, snapshots | I2C, DWC3, DCPEXT | a snapshot is several transfers while the cable moves |
| AVD and its firmware `video/apple-avd`, `src/firmware` | sessions, references, workspace, mailbox | open, submit, interrupt, watchdog, close | DART, PMGR | timeouts race late completions; memory the decoder still writes |
| PMGR, AIC/FIQ, MSI, DART, NCO, cpufreq, pinctrl, watchdog | registers and small tables | enable, claim, allocate, map, set rate | all | several callers, hardware that is late |
| SPI, I2C, SPI HID | FIFOs, the transfer under way | transfers, worker, events | pinctrl | lost packets, timeouts, level interrupts |
| SMC, SPMI, PCIe, eFuse, UART, board | registers | probe-time accesses | - | not modelled, see section 6 |

## 2. Modules

One module per component, each with its own `Init`, `Next` and properties. An
action is one step of the code between two points where another processor, task
or interrupt can see or change shared state: a critical section, one register
write, one pointer of shared memory. Where the code drops a lock two actions
stand on either side. Devices, firmware and clients are actions marked external.
Definitions headed `Mutant:` are not part of a model: each is a plausible bug,
used to see that a property notices it. Module variables and operations keep
the names of the code where they can.

| Module | Models | What is hard, and the property for it |
|---|---|---|
| `AscMailbox` | send and receive paths of the mailbox | `TxIsFifo`, `InboundIntact` (`ExactlyOnce`, `StoredInOrder`, `OvertakeOnlyInFlight`), `NoSleepOverMessage` |
| `FifoChannel` | what a ring promises: the abstract specification | refined by `AfkRing` |
| `AfkRing` | one AFK ring with producer and consumer | `EntriesIntact`, `EmptyTakesHalf`, `EverythingDelivered`, `IsFifoChannel` |
| `RtkitDemux` | `recv`, `recv_endpoint`, `recv_endpoint_timeout`, pending queue | `NothingLost`, `ReturnedInOrder`, `EveryMessageReturned` |
| `RtkitBoot` | the boot handshake against firmware, crash and shutdown | `BootKeepsPromise`, `BootSucceeds` |
| `SioChannel` | one cyclic channel with client, worker and the mailbox's interrupt, which reorders | `BooksAgree`, `CommittedIsPlayed`, `NoMessageForgotten` |
| `AfkHandshake` | endpoints from `start` to drop, one after another, with what earlier ones left behind | `ServicesAnswered` (`EndpointSound`) |
| `EpicService` | commands, announcements, callbacks, buffers | `ServicesAnswered` (`EpicSound`) |
| `IomfbCalls` | nested calls and callbacks over shared memory | `FrameBufferSound` (`NestingIsSound`) |
| `DcpBuffers` | the display's address allocator; buffers of the firmware | `BuffersSafe`, `FrameBufferSound` (`DescriptorsSafe`) |
| `DcpPresent` | scanouts, presents, mirror; mode choice, damage | `FramesAreShown` |
| `DcpExtBoot` | probe of the external display and its firmware | `RouteIsReal` |
| `Dpxbar` | register order of the crossbar, its probe and its registry | `RouteIsReal` |
| `AtcPhy` | the PHY between two drivers | `PhyIsHonest` |
| `TypecPort` | the Type-C controller | `TransfersAreOwn` (`LanesNegotiated`, `PortIsPowered`) |
| `AvdDecode` | sessions, decode, watchdog, recovery | `MemoryIsKept`, `DecodesAccounted`, `DecodeEnds` |
| `AvdReferences` | output slots and reference pictures | `ReferencesKept` |
| `AvdLayout` | workspace arithmetic, cropping in place | `LayoutHolds` |
| `AvdSubmission` | slice data, reference lists, instructions | `SliceIsMeant` |
| `AvdFirmware` | interrupt handlers of the decoder's Cortex-M3 | `FirmwareTellsAll` |
| `MsiVectors`, `PmgrDomains`, `DartDomain` | vectors, power domains, IOMMU | `OwnedOnce`, `PowerIsOrdered`, `MappingsAreKept` |
| `ClockRates`, `Watchdog` | NCO clock and CPU P-states, watchdog | `ProgrammedIsAsked` |
| `AicInterrupts` | AIC lines and FIQ sources of several CPUs | `InterruptsServed` |
| `Pinctrl`, `SpiHid` | pin interrupts, keyboard and trackpad | `InputsHeard`; packets and answers: `TransfersAreOwn` |
| `McaPlayback` | I2S playback, links of the card | `SoundIsFed`; the card in `CodecsObey` |
| `AdmacChannel`, `DpAudio` | audio DMA, DisplayPort sound | `PeriodsAreCounted` |
| `AudioCodecs` | headphone (CS42L83) and speaker (TAS5770L) codecs | `CodecsObey` |
| `SerialBuses` | the polled buses, SPI and I2C | `TransfersAreOwn` |
| `MCServices`, `MCVideo`, `MCDisplay`, `MCDevices`, `MCLive` | instances for TLC | |
| `*Proofs` | theorems | section 5 |

The `MC*` modules put several components side by side under a variable `part`
that says which of them is stepped; the others rest in one initial state. The
components in one of them share no state, so this is a way to run them
together and not a composition. The modules that do compose parts that interact
say so: `AscMailbox` (senders, receivers, interrupt, handler), `SioChannel`
(client, worker, interrupt, firmware), `AtcPhy` (both drivers of the PHY),
`DcpPresent` (panel and mirror), `DcpExtBoot` (driver and five firmware
endpoints), `DpAudio` (DMA and display link), `AvdDecode` (callers,
interrupt, timer, decoder).

### What the combined properties say

A property with several names in it is their conjunction; each part has its
comment in its module.

* `MemoryIsKept`: the decoder works only in memory that is still its session's,
  through failed resets, closes and reopens; `DecodesAccounted`: a completion
  has its decode, no slot leaks, frames leave in order, and a watchdog gives
  up its own decode only.
* `ReferencesKept`, `LayoutHolds`, `SliceIsMeant`: no picture that the
  stream still refers to is overwritten; pictures and their parts stay apart in a workspace,
  also one made for another stream; the slice found is the slice in the
  stream, with the lists the standard asks for.
* `ServicesAnswered`: an answer belongs to its call, neither side waits for the
  other for ever, and the device keeps no page of an endpoint that is gone. The
  reply of a call that timed out is matched by channel and subtype only: the
  property is about answers of calls since the last timeout of the channel.
* `FrameBufferSound`: replies of nested calls are read as written, the completion
  of a swap reaches its wait also when it came early, and no page the firmware gave
  back stays mapped unless an error left the mapping (`stuckMaps`, `stuckPio`: a
  failure in the middle of mapping or unmapping, an invalidation that timed out, a
  reply area too short): those the code forgets (iomfb 626, 688, 773, 836, dcp 440-446).
* `FramesAreShown`: the front buffer on record is the one shown although any step
  of a present may fail; the mirror follows; modes fit the panel.
* `PhyIsHonest`: lanes change only under a quiet PIPE unless its multiplexer
  stopped answering (`stuck`); the rate on record is that of the lanes and, unless
  the last programming of the PLL ended halfway (`halfway`), of the PLL; the USB
  controller is out of reset only on a PHY that runs.
* `RouteIsReal`: the external display's waits always have the next firmware
  step enabled, the route leads to a live sink in one of its modes, and the
  crossbar switches while its clocks are off and is routed as the registry's
  record says, unless a route and the crossbar's own probe, which does not take
  the lock, ran at the same time (`mixed`).
* `OwnedOnce`, `BuffersSafe`, `MappingsAreKept`: allocators called at once give
  nothing out twice, and the IOMMU keeps what was mapped and forgets what was
  unmapped. `PowerIsOrdered`: parents are on before children,
  a device in reset is disabled, and a switch that returned `Ok` stays, unless the
  domain's last poll ran out (section 6).
* `SoundIsFed`, `PeriodsAreCounted`, `CodecsObey`: an audible codec has clocks
  and DMA, but for the two ways in which one output cuts off the other (section 6), each period is counted once and played from memory still mapped, the
  card has every codec of the device tree once, and the codec is what the driver
  believes after any failed register access.
* `TransfersAreOwn`, `InputsHeard`: bytes read belong to the transfer that asked;
  lines are enabled again, edges and reports are not lost.

## 3. Runs, bounds and why they are enough

| Run | What it asks | Bounds, and the case each is there for |
|---|---|---|
| `asc_mailbox` | the mailbox under two CPUs, a receiver, the handler | FIFO of 2, 2 messages per CPU, 3 inbound: both CPUs meet a full FIFO; a message in every inbound queue at once |
| `asc_order` (violation) | order of `recv` around a drain | 2 messages: the window needs two |
| `afk_ring` | the ring implements a channel | 6 blocks, entries up to 5, 6 messages: wrapped, padded, refused entries, several laps |
| `services` | demultiplexer with 2 tasks and with 1, boot, SIO | 2 endpoints with up to 3 messages; 4 version ranges, 4 maps, 2 boots, failures and a crash: the second finds in the mailbox, both ways, what the first left there, a START_EP among it; 2 periods with 2 in flight, 4 tags and a stop: a report overtakes its acknowledgement, and a TERMINATE's answer comes late |
| `demux_order`, `boot_crash` (violations) | what comments of RTKit promise | the shortest counterexamples fit |
| `sio_wakeup` (violation) | that no message waits with nobody about to read it | 2 periods, 2 tags, no stop and no failure |
| `video` | decoder and firmware | 2 slots, 2 sessions, 2 submits, 1 fault, queue of 2: a timeout meets a late completion of another session, a slot is reused; 4 frames and spans of 1 or 2 exhaust the reference table of 2; real picture sizes up to 4096x2304; pipes 0 and 2 of the firmware's handlers beside the post-processor: the first and one past it |
| `display` | AFK handshake, EPIC, IOMFB, buffers, presents, PHY, crossbar, probe | 4 endpoints, one after another, with 4 faults, 3 layouts and 2 tags: the third and later ones meet what several have left; 2 channels and a callback, 6 calls and callbacks of IOMFB, nested, failing or late, 2 tasks and 3 mappings against a window of 5 pages, 2 failed swaps among 4 presents, 2 probes and 2 link requests with one slow poll, 3 routes, probes and removals of the crossbar over 2 controllers: a probe meets a live route, or one under way |
| `atc_mode` (violation) | a mode on record whose PHY was powered off | 1 probe, no poll runs out |
| `devices` | platform, audio, input and bus drivers | 3 vectors and 3 tasks, so a request runs out while another rolls back; a diamond of domains; runs of pages that share a leaf table; one or two faults per call sequence; 3 transfers with a timeout, so a late byte meets the next transfer |
| `live` | what must happen in the end | smaller instances of five components; bounds end the environment, not the drivers |

`CHECK_DEADLOCK FALSE` is in every configuration: clients and devices stop at
their bounds. Symmetry is not used; most small sets are told apart by a
constant function.

The bounds named `Max*` count steps of the environment (calls, faults, replugs,
messages); they stand in the guards of the actions they limit. Widths: the NCO's
32-bit registers are 8 bits in the run (`W`), the watchdog's 16 bits (`WdW`);
wrap-around and saturation happen there at the same places. The shift
register of the NCO has its real 11 bits.

## 4. Fairness

Stated in the `*Fairness` formulas, with the reason beside them:

* a step inside a driver call that waits for nothing is taken (weak): the
  kernel schedules its tasks;
* an interrupt whose line is raised is taken and its handler runs (weak);
  sources read by a register that another source can hide again are strong, as
  the CPU comes back to them in every loop (`AicFairness`);
* firmware answers in `BootFairness` and `SioFairness`: liveness there is about the
  driver, and a dead firmware is what its timeouts are for;
* a client keeps polling every endpoint it serves (strong, `PollCall`): what is
  said of the demultiplexer is about clients that poll;
* the worker of SIO gets its lock in the end (strong): the kernel's lock is fair;
* timers of the decoder's watchdog fire (weak); no other timeout is assumed.

In `MCLive` each fairness formula is for the behaviours in which its component
is stepped.

## 5. Proofs

All are for every value of the constants that the named assumption admits.

| Module | Assumption | Proved | Inductive invariant, and why it is needed |
|---|---|---|---|
| `AscMailboxProofs` | `AscAssumption` | `TxIsFifo`, `InboundIntact`, type | `LockInv` (the writer of the pair holds `tx_lock`, `SEND0` is its own), `FlightInv` (while a receiver is between its look and its read no new drain begins, and all that is queued or drained was in flight at its look) and `Holds` (the places of a message add up to what was sent, each ascending and below the next) |
| `RtkitDemuxProofs` | `DemuxAssumption` | `NothingLost`; `OrderAtRest` and `ReturnsNext` for a single task before the interrupt | `Accounted`: per message the number of places it is in, with counting lemmas for append, tail and removal in the middle; types alone do not say a task holds what it took. `OrderInv`, below |
| `BootProofs` | `BootAssumption`, `ServicesAssumption` | `BootKeepsPromise`, for any number of boots; `NothingLost`, `ReturnedInOrder` of `MCServices` | `BootInv`, below; the demultiplexer's theorems through its instances |
| `ServicesProofs` | `RingAssumption`, `SioAssumption` | of the AFK ring `EntriesIntact`, `EmptyTakesHalf`, type, refinement of `FifoChannel`; of SIO `BooksAgree`: while no tag comes round; with fewer stops than tags until a message overtakes an older one; without timeouts | of the ring, what the blocks between `rptr` and `wptr` hold, as a list of entries laid end to end: a read depends on a write a lap ago; `SioInv`, `AgeOK`, `NotGivenUp`, below |
| `DeviceProofs` | `SpiAssumption`, `I2cAssumption`, `HidAssumption`, `HidInputAssumption`, `AdmacAssumption`, `DpAssumption` | `TransfersAreOwn`, `InputsHeard`, `PeriodsAreCounted` | `SpiInv`, `I2cInv`, `HidInv`, `HidInputInv`, `TcInv`, `PinInv`, `AdmacInv`, `PosInv`, `DpInv`, below |
| `AllocatorProofs` | `MsiAssumption`, `DmaAssumption`, `DartAssumption`, `McaAssumption`, `PmAssumption` | `OwnedOnce`, `BuffersSafe`, `MappingsAreKept`, `SoundIsFed`, `PowerIsOrdered` | for vectors, what a request has at each point; for addresses, that ranges of finished, running and failed calls lie below the counter and apart, since the pages are entered after the counter moved; for the IOMMU, `CallInv`: how far each call has come in its run of pages, for all drivers at once, and `FirmwareStream`: the firmware's stream is not attached by others; for sound and power, `PlayInv` and `PmInv`, below |
| `AvdProofs` | `AvdAssumption`, `RefAssumption`; none for the firmware | `MemoryIsKept`, `DecodesAccounted`, `ReferencesKept`, `FirmwareTellsAll` | `AvdInv`, below; `RefInv`: pictures have ascending numbers, the pending one the last, so that the least recent is well defined; `FwInv`: a stage's end is in the pending bits or among the messages told, once |
| `DisplayProofs` | `AtcAssumption`, `AfkAssumption`, `EpicAssumption`, `IomfbAssumption` | `PhyIsHonest`; `ServicesAnswered`, as `EndpointSound` and `EpicSound`; `FrameBufferSound`, as `NestingIsSound` and `DescriptorsSafe` | `PhyInv`, `AfkInv`, `EpicInv`, `NestInv`, `BufInv`, below |

The argument is the same everywhere: the invariant holds initially, each action
keeps it (one lemma per action, one step per conjunct it can disturb), and it
implies the property; `PTL` joins the three. Facts about sequences and sets
that several actions use are lemmas (`RestOfRun`, `LeftRuns`, the moves of
a message, the layout of entries, `Appended` and `Tailed` of a mailbox).
`AllocatorProofs` and `AvdProofs` derive the action properties
(`FirmwareStreamKept`, `TimeoutIsOwn`) from the same step lemmas.

`OrderInv` lists, for one task, where an endpoint's messages stand: returned, in
its hand, put away, in the mailbox, each group below the next in the numbers of
its messages (`GotOK`, `HeldOK`, `PendingOK`, `FifoOK`). A task inside a call has
put away no message of the endpoint it asked for, so the first it takes is the
oldest; with two tasks this fails, as `demux_order` shows.

`BootInv` strengthens the promise of boot by what the two sides know of each
other. `VersionOK`: an acknowledged version is common to both. `AppsOK`: until
the waits are over no application endpoint runs and none is asked for, except
those whose START_EP an earlier boot left in the mailbox (`fw.stale`), so what
the waits throw away is of an earlier boot or of one of these. `StartsOK`: what the two loops are
through with is sent. `CleanOK`, of a boot that found the mailbox empty both ways:
handshake and firmware are in lockstep until the map is there (`Shaken`), then
the firmware runs or is about to read the last reply (`RunsOK`), and ON is the
last power state it reports (`SaidOK`): only this makes the flag that boot
waits for the flag `is_running` reads afterwards.

`SioInv` relates four books: the ring of the driver (`RingOK`), the tags
(`TagsApart`, `OneIssue`: whose answer is where), the firmware's queue and the
mailbox, and the places that drain and stop (`DrainOK`, `StopOK`, `LockOK`).
Messages may be read in any order the mailbox allows, so `WindowOK` counts: what the
driver has out is with the firmware, on its way back as a report, or thrown away;
`FirmwareOK`, which says where in the ring each report belongs and that it follows its
acknowledgement, holds until a message overtakes an older one (`OrderOK`).
Removal in the middle has lemmas of its own (`TakenOut`, `MailAt`).
The invariant is inductive only where an answer is read under the tag it was
sent for. `NoTagComesRound` says so of a behaviour; the other two
theorems derive it. `AgeOK`: a tag given up is as old as the number of requests
since, and comes round when all the others were used; with fewer stops than
tags that does not happen. `NotGivenUp`: without timeouts no tag is free before
its answer was read. A restart does not reset the tags, so the count of stops is
over the life of the channel.

`AvdInv` says where the decoder's memory, the slots and the timers belong at each
point of the thread: `JobsOK` (the decoder's job has memory of the session in
flight unless a recovery is due), `SessionsOK` (a quarantined slot is being
recovered), `OwnersOK`, `FramesOK` (frames ascend per stream), `TimersOK` (a timer
of the current generation belongs to the decode in flight). None of these can be
dropped: a late completion, a reopened slot and an expired timer meet in any order.

`PhyInv` says what each driver of the PHY may find of the other's work. `Routed`:
an interface on USB3 is one known to be up, and a core that is off has no lanes
laid out. `Rated`: a rate on record is that of the lanes, and of the PLL but for a
programming that ended halfway, and outlives no mode.
`Turned` and `Rests`: between the orientation and the power-on of the USB
controller's probe the interface rests, and the orientation on record is the
cable's, also when the display's mode came first. `Serves`: the controller stays
in reset until its PHY runs. The lemmas on `PipeUnlock`, `ResetAssert`,
`InitDp` and the other operators say what each leaves alone when any of its polls
runs out; the steps follow from them.

`AfkInv` says at each point of the handshake what is in the mailbox and what the
firmware is about. `AskOK`: after INIT, either INIT is the newest command or the
firmware answered it and nothing is left. With rings left by an endpoint before,
there is one request only (`OneRequest`), so that the request for a buffer which
the driver reads is the one after those rings; without, the first request will do.
`RingsOK`: the answer to the request is behind INIT, next, taken, or told in both
rings, which are the last two messages (`BothTold`, `OneTold`). Only where a
request and rings are left both (`mixed`) does it fail, and so does the property.
`EpicInv` puts the requests of an endpoint in one order: those in the ring come
after the one at work and after those answered (`CommandsOK`, `JobOK`,
`AnswersOK`), each awaited or of a kind that one was given up of (`Known`); the
shared buffers hold the last (`ContentsOK`); names in the table are older than
announcements under way (`NamesOK`), so that registering one hides none.

`NestInv` holds until a call is left by an error; then its late acknowledgement may be
taken for another's. The frames of the kernel and the jobs of the coprocessor alternate and
lie at their depth, the same calls and callbacks on both sides as deep as both go
(`ChainOK`). Outside the asynchronous context one message is in flight at most, and
which it is says who has the word (`TokenOK`): five cases, each with what the shared memory
holds for the reader. That is why a packet never overlays one still to be read, although
contexts and offsets are reused. `OutputsOK` keeps the answers of callbacks below the
innermost one, `Mirrored` ties `callback_ends` to the stack, and `SwapsOK` follows
the completion of the swap begun last to the wait for it; its context may be entered
between any two steps of the others (`ShapeOK`).
`BufInv`: ids are handed out in order and name one descriptor each; what is
mapped is a descriptor's or was left by an error, step by step through a release and
the end of the connection (`BufPhase`); the second mappings are those of the flagged
buffers and, apart from them, what failed mappings left (`PioTrue`).

`PlayInv` says of each output where its call is (`CallOK`), that it owns the
channel exactly from a granted request to the drop of its stream (`OwnOK`), and what of
the front end is its own there (`FrontOK`, which also keeps all others out of a teardown
while the channel is its own, unless it is in `crossed`; `Samples`: the SERDES runs or
was cut off). `QuietOK` says of each shared
part that is on which output will switch it off: without it an idle card could be left
running. `CodecsOK` bounds, by the codec at hand, which codecs of an output that all
answered may still be powered or audible.

`PmInv` describes the nested calls of each user of the power manager (`CallsOK`): each
is for the parent its caller is at, and the parents a call is through with have
power (`Brought`). What others do cannot take that power away, since a domain
that is nobody's own to switch off keeps its target (`KeptOn`); `Settled` says that
target and state differ only for a late domain and one that is being polled, and
`Holds` that register sequences exclude each other.

The invariants of the buses and input devices say where a byte, packet or key is on its way.
`SpiInv`: the bytes queued follow those shifted out, and the answers waiting are of
bytes of this segment, in order and behind those read, also after a stall that the
reset of the FIFOs ended. `I2cInv`: every message sent was acknowledged, failed or is
still with the controller, which is empty when the transfer ends; a read that was given
up while its bytes could still come (`lateRead`) is the one case where bytes may be another's.
`HidInv`: the packets on the line are in the order in which they were sent and behind
those received, which are behind the reports handed on; the request under way has the number
of answers plus one, and only its answer has that number. `HidInputInv`: the listener's keys are those
of the last report, or of the one being emitted; a repeat that waits for the lock
read the modifiers held now, or a press since then has put its time off. `TcInv`: the
command register is written to an idle controller, and the data status a snapshot has read was
held by the register since it began. `PinInv`: an edge that waits has a handler to
run and is not the one being acknowledged, and a pin's handler is there before the pin is live.

`AdmacInv`: a period in flight of a channel is a descriptor, a report, counted, or in the
hands of the handler or the owner (`Counted`; a stop that comes between the handler's two
steps is the exception the property names), and a channel that plays has a transfer and is not
being dropped (`Plays`). `PosInv`: the four readings of a position were made at places of the
hardware in order and less than a period apart (`PosSeen`), so at most one report came
between them, and the residue tells which reading of the ring belongs to it. `DpInv`: the
record of a stream agrees with ring and link at every step of a call (`RecordIsTrue`),
the firmware's link is the believed one until an answer was lost (`LinkIsBelieved`), and
`DpPlace` says what a call has still to undo where it is.

What the assumptions say: `AfkAssumption`, that layouts are offsets and sizes, with
no bound that would make them fit the buffer; `EpicAssumption`, types; `BootAssumption`, that application endpoints are none of
the system's, that what is requested is an endpoint and that a map has at least one
message; firmware answers in any order the driver allows. `IomfbAssumption`: swaps
complete in the asynchronous context only (the firmware is external). `SioAssumption`, that
there are periods, tags and a limit of requests. `MaxStops < NTags` and
`~MayTimeout` stand in the theorems that need them, and TLC shows that one is
needed: with three tags and a stop that may time out, whose answer is overtaken,
`ReportsMatch` is violated (section 6).
`DartAssumption` says that drivers map pages of their own and none of the
firmware's: the I/O address allocators above the DART see to it (that of the
display is `DcpBuffers`, with `BuffersDisjoint` proved). `DemuxAssumption` says
that a task polls application endpoints only, `McaAssumption` that an output has a
codec and outputs share none, as the links of the device trees do. `PmAssumption` says that no driver
switches off the parent of a domain, as the power manager counts no users; the only driver that
switches one off is the audio controller (`audio/apple-mca` 549), its own.
`I2cAssumption` says that the last message of a transfer carries the stop, which
`transfer` sees to (`i2c/apple-i2c` 399), and that only the last one reads, as in all transfers
of the drivers here. `HidAssumption`: a round of the worker reads at least one message;
`HidInputAssumption`: a repeat has a delay, and the key list of a report names no
modifiers, which have a byte of their own. `AdmacAssumption`: there is a channel, blocks are
numbered from 1, a period is not empty. The registers start as a boot loader
may leave them, any set of domains on that is closed under parents. The other assumptions bound
types and sizes.

Model-checked only, and why:

* liveness and everything under fairness: `EveryMessageReturned`, `BootSucceeds`,
  `CommittedIsPlayed`, `InterruptsServed`, `DecodeEnds`, `EverythingDelivered`,
  `NoSleepOverMessage` (out of the prover's reach);
* `LayoutHolds`, `SliceIsMeant`: arithmetic and lists over inputs, with nothing
  that evolves; the run enumerates them;
* `FramesAreShown`, `RouteIsReal`, `CodecsObey`, `ProgrammedIsAsked`: not proved yet.

## 6. What the models say of the code

The violation runs show five places where the code does not do what a
comment says; `findings` quotes them.

* `asc_order`: `recv` around an interrupt's drain may return a later message
  first: the interrupt releases `rx_lock` before it appends, and `recv` its guard
  of the queue before it reads the FIFO, so the append may also come between the
  two (`OvertakeOnlyInFlight`, proved, is what remains true).
* `sio_wakeup`: `process_messages` looks once more after it has cleared its flag,
  but not when a receive failed (494), and a receive fails when the interrupt
  takes the message between `can_recv` and `recv`. If the worker that this
  interrupt wakes was turned away by the flag before, the message stays in the queue
  until something else wakes the worker. `CommittedIsPlayed` has this as one of its
  two exceptions (`Forgotten`).
* `demux_order`: two polling tasks can reorder an endpoint. Nothing is lost (`NothingLost`, proved) and everything comes in the
  end (`EveryMessageReturned`).
* `boot_crash`: `shutdown` keeps the crash flag, so the next boot is a crash.
* `atc_mode`: the USB controller's probe powers the PHY on in the display mode the
  port reported, fails later and drops its value (`apple-dwc3` 268-280): `power_off`
  (2154-2160) powers the core off and leaves the mode on record, and
  `configure_displayport`, which finds it unchanged (1456), returns `Ok`.

Seen while modelling, and covered by a restriction of a property rather than by a
run:

* SIO above the mailbox that reorders: a REPORT that is read before its ISSUE's
  acknowledgement finds nothing in flight and is thrown away (`dma/apple-sio` 678).
  The period stays committed, the channel counts one in flight for good, and a stop
  waits for it until it times out (`ReportsMatch` says that the books show it,
  `CommittedIsPlayed` excludes it). What never depends on the order, as proved, is
  that no buffer is recycled, that `stop` returns `Ok` of a quiet channel only, and
  that no completion goes to a later session.
* SIO: a TERMINATE whose call timed out leaves its tag to be used again, and when
  all the other tags were used its late answer is taken for that of an ISSUE
  (`dma/apple-sio` 133, 436). In a mailbox that keeps the order this takes as many
  stops as there are tags (15 in the driver), as proved; an answer that was overtaken
  may stay behind for longer, so the theorem ends where the order does. A stop
  called from a completion callback (`dma/apple-sio` 725) cannot see its answer, as
  the draining flag is held.
* MCA: `stop` on an output without a stream mutes its codecs and disables the SERDES
  of the front end all the same (`audio/apple-mca` 937, 1241), also when that feeds
  the other output's running stream, which plays on as silence. `SoundIsFed` excepts
  the SERDES from then until a start (`cut`); ports, clocks and DMA stay, as proved.
  Likewise, an output that takes the channel while the other one still takes the
  front end down may lose its clocks (`crossed`).
* RTKit: `recv_endpoint` answers `false` with a message of its endpoint in the FIFO
  when `recv` has handled a system message in front of it (398, 440), though its
  comment (417) says that no message is available; messages for other endpoints in
  front of it are put away and the loop goes on. `ReturnedInOrder` is about what is
  returned, and `EveryMessageReturned` about a client that asks again.
* RTKit: `boot` does not empty the mailbox, in either direction, and `shutdown`
  (977) does not either. A START_EP that a stopped coprocessor has not read is
  read by the next one, whose endpoint may then speak while boot still waits and
  be thrown away; `BootLosesNothing` names exactly these endpoints (`fw.stale`).
  After three boots that failed at the right points, what the stopped
  coprocessors had sent (a HELLO, an endpoint map, ON) answers all waits of the
  fourth, which returns `Ok` with a coprocessor that has said nothing; its
  documentation says "Ok(()) when RTKit reaches the powered-on state".
  `OkMeansStarted` asks for the power state only of a boot that found the mailbox
  empty both ways (`fw.clean`), and for the started endpoints always. (The run
  boots twice and does not reach the fourth boot; the theorem is for any number.)
* EPIC: a late reply is taken for that of the next call on its channel
  (`soc/apple-epic` 735).
* I2C: a read that timed out may leave bytes to the next one (`i2c/apple-i2c`
  237); `I2cReadIsOwn` is about bus histories without one.
* ATC PHY: `configure_dp_link_rate` leaves `dp_link_rate` alone when one of the PLL's
  commands is not acknowledged or the PLL does not lock (`apple-atcphy` 1421-1425),
  with the new rate programmed; a request for the rate on record is then answered
  `Ok` without programming (1277). `RecordedRateIsReal` excludes the PLL until the next
  programming succeeds (`halfway`).
* Crossbar: `probe_fn` disconnects all ports without the registry's lock
  (`display/dpxbar` 342) and replaces a record that `route_t8103_dpphy` made before
  (349-351). Both drivers have the same priority, so the probe may come after the
  external display's: it takes a live route down and forgets its dispext, whose FIFOs
  stay clocked, as they do when `remove_fn` (358) drops a record. Beside a route on
  another CPU, the read-modify-writes of the two may undo each other; the multiplexer
  may then change under a port that is on. The three properties of the crossbar
  except that overlap (`mixed`), and `ReleasedIsStopped` is about `set` alone.
* CS42L83: when the PLL has not locked after five polls, or the polls could not be
  read, its clock is used all the same (`audio/cs42l83` 767-779). `ClockNeverStops` and
  `AudibleIsClocked` speak of a PLL that was started.
* PMGR: after a poll that ran out, the opposite call returns `Ok` without a write
  (`soc/apple-pmgr` 154); `SettledUnlessSlow` excludes that domain.
* SPMI: one command's length field shares a bit with its opcode
  (`spmi/apple-spmi` 55), so more than eight bytes are not read whole. The only
  caller reads six.
* RTKit: `syslog_buffers` is unlocked between search and push (901), so two tasks
  may allocate one endpoint's buffer twice; messages for system endpoints without
  a handler stay in `pending_messages` (447).
* AFK: a `send` whose doorbell fails has published its entry (398), and its
  caller, told that it failed, may send it again. Messages of the handshake say
  nothing of the handshake they are of (`wait_rbep_type` 560): an endpoint after
  several failed ones may take an unread request of one for the answer to its
  INIT, and rings announced to another, of the same tag, for its own.
  `StartedMeansAgreed` excludes the endpoint that finds both (`mixed`).

### Not modelled

| Part | Why |
|---|---|
| SMC `soc/apple-smc` | one key read once at probe, by one task; what can go wrong is below it, in RTKit |
| SPMI `spmi/apple-spmi` | one read of six bytes at boot |
| PCIe `pcie/apple-pcie` | one sequence of register writes and polls at probe |
| eFuse, UART | register accessors |
| board support, host tools, Nix files | no program state |
| VP9 of the decoder, the codecs' device-tree parsing, PHY tunables, register dumps | data |
| the kernel's locks, waker, timers, DMA and interrupt layers | not in this repository; used as external actions |

### Plan

1. Proofs: `FramesAreShown`, `RouteIsReal`, `CodecsObey`, `ProgrammedIsAsked`.
2. AFK with EPIC above `RtkitDemux` in one composition.
