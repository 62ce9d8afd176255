# A verification of smart.go

smart.go reads the health of disks: it opens SATA, SCSI and NVMe devices on
Linux, sends commands to them with ioctls, and decodes the byte structures that
come back. This directory holds TLA+ models of that code, the TLC
configurations that check them on small instances, and proofs, checked by TLAPS,
that hold for every value of their parameters. Paths such as
`sata_sense.go` are relative to the repository.

    tlc -workers 2 -config MCDeviceOpen.cfg MCDeviceOpen.tla    # one run
    tlapm DeviceOpenProofs.tla                                  # one module of proofs

`PROJECT.json` lists runs, mutants, findings, hazards and theorems, and says for
each definition which lines of the source it models.

## 1. Inventory

| Component | State | Operations | What makes it correct |
|---|---|---|---|
| Opening and handles in use (`smart.go`, `OpenSata`, `OpenScsi`, `OpenNVMe`, `Close`) | process descriptor table; the `fd` of each handle and, for SATA, its attribute mapping | probe chain NVMe → SATA → SCSI, each with its own open, INQUIRY, IDENTIFY and close | no descriptor leaked or shared; a handle is bound to one device it fits; NVMe ioctls never reach a USB bridge; the error names every driver tried; the chain ends; a handle that is closed once only ever hears from its own device |
| SG_IO transport (`scsiSendCdb`, `scsiSendCdbSense`) | none (header and buffers of one call) | one ioctl; host, driver and sense status → error or sense | an error is an error; sense data survives where it is the answer |
| Sense decoding (`sata_sense.go`, `ataPowerModeFromSense`) | loop offset over device-supplied lengths | find the ATA Status Return descriptor, read registers | no index out of range, the walk ends, the answer is that of the first complete descriptor |
| Power management (`sata_power_linux.go`) | none of its own; the drive's mode, timers, EPC, APM | 12 methods, each one command and its report | nil means the drive did it; a mode that is returned was held; invalid requests never leave |
| Spin-down timers (`sata_power.go`) | none | encode and decode ACS-3 Table 52 | exact or refused; no gaps |
| NVMe admin (`nvme_linux.go`, `nvme.go`) | loop over namespaces | Identify, ReadSMART, ReadGenericAttributes; 64-bit ioctl with a fallback; a status of the drive that is not an errno | never executed twice; the list is consistent with the call; generic attributes are what the drive measured; old kernels work; it ends |
| SMART attributes (`sata.go`) | attribute mapping of the handle; tables being decoded | ReadSMARTData, ReadSMARTThresholds, ReadGenericAttributes | the table decoded is the table that arrived; damaged thresholds are refused; the order of a Go map does not show more than it must |
| Drive database look-up (`sata.go`) | two package variables, generated | first matching record, merge with defaults | first match wins; presets override defaults |
| Database generator (`generator/ata_attributes.go`) | the Go file it rewrites, the loop over the records, the names of the defaults; `os.TempDir()` | download, compile and run, create, defaults, one record at a time, gofmt | a run that ends well has written what its writes let it, in order; what is built serves each drive what the download says of it |
| Raw values, temperatures, durations (`sata.go`) | none | byte order by type, guessing the form of a temperature | a range that is returned is one |
| Queries (`Capacity`, `SerialNumber`, feature tests, `AtaDeviceStatistics.Get`) | none | one command each, then arithmetic on what the device says | the size is that of the device; a word is believed only if it says it is valid; no index out of range, also at the ends of the integers |
| Other accessors of identify data, SMART log layouts | none | `binary.Read`, strings | declarations, no control |
| macOS shim, stubs of other systems | – | – | not modelled, see section 6 |

How they interact: `Open` hands out a handle; every method of a SATA handle goes
through `scsiSendCdb` or `scsiSendCdbSense`, and what those keep of a reply
decides what the methods see. `OpenSata` fixes the attribute mapping that
`ReadSMARTData` uses later; the tables behind that mapping are compiled in, from
the file the generator writes at development time. The library starts no goroutines and holds no locks:
concurrency comes from programs that use it from several goroutines or
processes, from the drive (which serves I/O, spins down and is reset by
itself), and from devices being exchanged.

What is hard here, and what the properties therefore aim at: descriptors on many
error paths and their numbers being reused; a chain of probes over a path whose
device may change; commands that are rejected, or not served after a reset, and look like
zeroed data; lengths written by the device; commands whose report is lost; a fallback that could repeat a
command; namespaces that change during a walk; iteration in random order over
attributes of the same meaning; handles that are closed twice, after which a number may
be anybody's; a generator that empties the file it is about to write, may be killed, and
ignores the error of each write by itself. `PROJECT.json` lists each hazard at its line.

## 2. Modules

    SenseLayout ── SenseReports ─┬─ SgIo ──┬── DeviceOpen ── DeviceOpenProofs
                                 │         │       ├ implements DeviceHandle
                                 │         │       └ DeviceSession ── DeviceSessionProofs
                                 │         ├── SmartAttributes ── SmartAttributesProofs
                                 │         │       ├ uses TemperatureWords
                                 │         │       └ uses DriveDatabase ── DatabaseGenerator
                                 │         ├── DeviceQueries ── DeviceQueriesProofs
                                 │         │       └ uses Identification
                                 │         └───────────┐
                                 └─ SenseAnswer ──── AtaDrive ── SataPower ── SataPowerProofs
                                      ├ SenseAnswerProofs
                                      └ SenseDecoder ── SenseDecoderProofs
    SpinDownTimeout ── PowerCommands ── AtaDrive
         └ SpinDownTimer ── SataPowerProofs
    NvmeAdmin ── NvmeAdminProofs

`SenseAnswerProofs` has the induction and the lemmas on sense data that the proofs about
the decoder, the power methods and the checksum share. `SmartAttributesProofs` is about `DatabaseGenerator` as well, as the run
`MCSmartAttributes` is.

| Module | Models | State and actions |
|---|---|---|
| `SenseLayout`, `SenseReports` | layouts, masks and constants of `sata_sense.go` and `scsi.go`; the reports of its tests | operators |
| `SenseAnswer` | the sense decoders as one operator each: what the first complete descriptor says; `MayLead`, what a SAT layer may put in front of its report | operators; used where the loop does not matter |
| `SenseDecoder` | the same decoders as loops | `pc`, `offset`, `found`, `ret`; one action per test or round. A read of the buffer is recorded before it is taken, so an index outside is a state and not an error of the model |
| `SgIo` | `scsiSendCdb(Sense)` and the replies the sg driver can give | operators; a reply is errno, status, info, sense, data. `Broken` is what a transport does, without sense; `Unserved` what a device does that ends a command without serving it: CHECK CONDITION with sense data (refused, aborted, UNIT ATTENTION), or an empty transfer; `Failures` both |
| `DeviceHandle` | what opening promises, whatever probes it takes | abstract specification |
| `DeviceOpen` | `Open`, `OpenSata`, `OpenScsi`, `OpenNVMe`, `Close` | one action per system call: `Start`, `OpenFile`, `NvmeIdentify`, `Inquire`, `Probe`, `SataIdentify`, `CloseOnError`, `Close`; environment: `Replace`. `step[c]` and `driver[c]` are the caller's place in the code, `fd[c]` its local `fd` and later `d.fd`, `fds` the process's table, `errs[c]` the errors collected, `identity[c]` the identification the attribute mapping was looked up for |
| `DeviceSession` | handles in use: opening composed with `ReadSMARTData`, `ReadSMART` and `Close`, also of a handle that is closed already | the steps of `DeviceOpen` (`Begin`, `Step`, `CloseHandle`, `Exchange`) with `ReadSata`, `ReadNvme`, `CloseAgain`; `stale[c]` is the number that a closed handle still has |
| `SpinDownTimeout`, `SpinDownTimer` | `encodeAtaSpinDownTimeout`, `decodeAtaSpinDownTimeout` | durations in milliseconds |
| `PowerCommands` | the CDB of each power method, byte by byte where the drive reads it | operators |
| `AtaDrive` | the drive and the SAT layer in front of it (external) | operators: what a register set does to the drive and what is reported |
| `SataPower` | callers running power methods on one drive; `workload` says who asks for what | `Call`, `Lose`, `Execute`, `Receive`; environment: `MediaAccess`, `SpinDown`, `Reset` |
| `Identification` | words of the IDENTIFY data with what the drive is, `Capacity`, `SectorSize`, the feature tests | operators: what a drive writes and what the methods read |
| `DeviceQueries` | queries of SCSI disks and SATA drives | `Send`, `Answer`: one command and the computation on its data; a panic is an answer |
| `NvmeAdmin` | Identify, ReadSMART and ReadGenericAttributes over the ioctls | `Call`, `Admin64`, `Admin`: a command that the drive rejects returns without errno and leaves the buffer zero; environment: `Resize` (namespaces), `Use` (the SMART log) |
| `TemperatureWords` | `computeAttributeRawValue`, `ParseAsTemperature`, `ParseAsDuration` | operators; a raw value is its eight bytes, least significant first |
| `DriveDatabase` | `findMatchingDbRecord`, `findAttributesMapping` | `ataDefaultAttributes`, `ataDevicesDatabase`, which no step of the library changes; operators; a regular expression is the set of strings it matches |
| `DatabaseGenerator` | `generator/ata_attributes.go`, and the build of the package from its output | `Run`, `Extract`, `Create`, `Defaults`, `Device` (a round of the loop over records), `Finish`, `Gofmt`; environment: `Kill`, `Build`. `file` is what is on disk: the parts that are there, the records whose write was `lost`, and whether it is `torn`. Each part is written, lost, or torn by itself (`Write`) |
| `SmartAttributes` | the two tables and `ReadGenericAttributes` | `Request`, `Transfer`, `Decode`, `Decoded`, `Visit`, `Visited`: one command, then one round of a loop per step; `Visit` takes any attribute that is left, as Go's map iteration does |

A definition named `Operator_Mistake` is a mutant: the definition `Operator` with
a bug that such code could have. No specification uses it. Replacing the
operator by its mutant must make TLC find the property violated that the entry in
`PROJECT.json` names; this is how each property is known to depend on the code.

Variables that the program does not have record what happened so that
properties can speak of it: `seen` (DeviceOpen), `opened` and `heard` (DeviceSession), `earned`
(SataPower), `executed`, `rejected`, `since` and `shown` (NvmeAdmin), `served` and
`outcome` (DatabaseGenerator). No action's guard reads them. `faulty` is chosen at first and never changes: a run
covers the behaviours with failing commands and, separately, those without, about
which HealthyOpens, NoFalseAlarm and OldKernelsServe speak. In DeviceOpen it is a set: "transport" for
commands and `open` that fail, "device" for INQUIRY and IDENTIFY that the device does not serve;
OnlyComplaintsMislead speaks of the runs without the second.

## 3. Runs

| Run | Instance | Shows |
|---|---|---|
| `MCSenseDecoder` | whole, truncated and malformed reports, chains of up to three descriptors, also in front of a report, additional lengths off by up to three | `NoPanic`, `AnswersFirstReturn` (the loop computes what `SenseAnswer` says), `ReportsDecoded`, `Returns` |
| `MCNumbers` | timers at and next to every boundary of both ranges; 8 disks and 8 drives with sizes, lengths and offsets at the ends of their words | `ExactOrRefused`, `DiskIsExact`, `AtaCapacityIsExact`, `FeaturesAreTrue`, `StatisticsAreMarked`, `NothingInvented`, `PanicsOnlyByOverflow` |
| `MCDeviceOpen` | 2 goroutines in `Open`, an NVMe path and another, 6 kinds of device, 2 descriptors, 1 exchanged device; no faults, broken transports, or these and devices that do not serve a command; symmetric in the callers | `FdsAccounted`, `UsbBridgesSurvive`, `OnlyComplaintsMislead` (how far finding 1 reaches), `HealthyOpens`, and the refinement `ImplementsHandle` |
| `MCDeviceSession` | 2 goroutines in `Open`, `OpenNVMe` and `OpenSata`, one NVMe path, 4 devices (two SATA drives of different names, one with a bad database record, an NVMe drive), 1 descriptor, 1 exchanged device, 1 handle closed twice; fair | `OwnAnswers`, `FailureExplained`, the refinement `SessionsImplementHandle` up to the first misuse, `OpenReturns` |
| `MCDeviceOpenProbe` | as `MCDeviceOpen`, 1 goroutine, no faults | **finding**: `SataAnsweredIdentify` is violated |
| `MCSataPower` | 2 callers with 5 methods, and 1 caller with all methods and valid and invalid arguments; SAT layers of all 4 kinds, one with two descriptors in front of its report, with and without faults; symmetric in the callers | `InvalidNeverSent`, `ReportedModeWasHeld`, `NilMeansDone`, `NoFalseAlarm` |
| `MCSataPowerEpc` | the EPC modes | **finding**: `SetPowerModeTransitions` is violated |
| `MCSataPowerUnload` | IdleUnload | **finding**: `UnloadNamesItsLba` is violated |
| `MCNvmeAdmin` | up to 2 namespaces of 2 sizes, a warm and a freezing log, rejected commands, the 4 sets of ioctls a kernel may know; fair | `NeverTwice`, `ListIsCurrent`, `GenericIsMeasured`, `OldKernelsServe`, `CallReturns` |
| `MCSmartAttributes` | tables of 3 entries out of 7 and none, 3 drives with different database records, a damaged byte; beside it up to 2 runs of the generator over 10 downloads, killed at any step, with any part lost or torn | `TableDecoded`, `ThresholdsIntact`, `GenericAnswers`, `FailsInAnyOrder`, `RangesPlausible`, `SuccessMeansWritten`, `LibraryServes` |
| `MCSmartAttributesByteOrder` | a drive of the one record with a byte order | **finding**: `ByteOrderKept` is violated |
| `MCSmartAttributesTemperature` | a drive that stores tenths of degrees, readings above zero | **finding**: `TemperatureReported` is violated |

`TypeOK` of DeviceOpen, SataPower, NvmeAdmin and SmartAttributes is checked in the first run of
each; those of DeviceSession and SenseDecoder (there as a part of `IInv`) are proved. So are the
measures `CallsGoOn`, `WalkGoesOn` and `CallGoesOn`, of which the liveness properties of the runs are the other half. `MCNumbers` puts two modules that know nothing
of each other side by side. In `MCSmartAttributes` the generator runs before
any drive is read, and the attributes are read with the database as it is compiled in.

Why the bounds are enough:

* *DeviceOpen.* A call uses one descriptor at a time and interacts with others only
  through descriptor numbers and the device behind a path. Two callers with two
  descriptors already reuse numbers in every order, and one exchange gives a call two
  devices; the proofs are for any number of callers, descriptors and exchanges.
* *DeviceSession.* With a single descriptor the number of a closed handle is always
  the one the other caller gets next, and `open` fails for want of one; with one path
  both callers see every exchange. Devices differ where a mapping could be mistaken.
* *SataPower.* A method is one command, so a pair of callers has every overlap: call
  before, between and after the other's execution. With two callers the
  workload is one method of each kind (check, transition, sleep, timer); with one it
  is all methods and arguments.
* *NvmeAdmin.* One caller and an environment that changes namespaces at any moment;
  callers share nothing but the drive, which Resize already changes arbitrarily.
  Two namespaces give a first, a last, an inactive and an active one. Two logs
  that differ in every field that is read give a mixture of moments away. The
  theorems hold for any number of callers, namespaces and logs.
* *SenseDecoder.* The loop has no memory but its offset: three descriptors have a
  first, a middle and a last one; the proof covers all buffers.
* *SmartAttributes.* Three slots hold an entry, a repeated id or a hole and what
  follows it, and a full table. The entries are the forms the tests of the repository
  use, among them a temperature with the type of another number (attribute 231 of
  a drive without a record of its own, since the restriction to hard disks is
  not consulted).
* *DatabaseGenerator.* A run does not use what an earlier one left but the file it
  empties and the directory it removes: two runs are one after another that failed, was
  killed or succeeded. Of a torn file it is not known what the compiler makes of it: it may refuse it, or take
  it for one of two databases (`Mangled`), of which the properties say nothing. The 10 downloads have a record for USB, a legacy option, an option
  without a name, a repeated attribute, an expression that does not compile, missing
  defaults, headers in the wrong order and each kind of option that is refused.

* *DeviceQueries.* The widths of words are constants: a uint32 of 16 values, an int up
  to 31, 28-bit sector numbers up to 7, a log of three fields. What matters is the
  place of a number relative to those ends, and each number has values below, at
  and above them. A byte has its real 256 values. Not every drive is combined with every
  duration, since the two halves of the run are independent.

Deadlock is checked except in `MCSenseDecoder`, where a behaviour is one call and
stops when that has returned.

Fairness. `FairSpec` (`FairSessionSpec`) says only that a call that is running takes its next step:
weak fairness for each caller's own actions, never for the start of calls and
never for the environment. It is used in `MCSenseDecoder`, `MCDeviceSession` and
`MCNvmeAdmin`. The code gives each SG_IO command 20 s
(`_DEFAULT_TIMEOUT`, scsi.go), after which the kernel ends the ioctl; the kernel
also times out NVMe admin commands; Go's scheduler runs every goroutine that is
ready. In `SenseDecoder` the step is a round of a sequential loop.

## 4. Proofs

| Theorem | For every | Argument |
|---|---|---|
| `SenseDecoderProofs!Invariance`, `NeverPanics` | set of byte strings of any length | `IInv == TypeOK /\ Established`: what each `pc` may rely on because of the tests before it (header checked, offset inside the area, `found` inside it). `NoPanic` is not inductive by itself, since the bound on an index is established some steps before it is used; `IInv` implies it |
| `SenseDecoderProofs!DecodersAnswer` | the same | `Walked`: the offset of the walk is a number of the recursive chain `Starts` of `SenseAnswer`, and no descriptor before it is an ATA Status Return. That `Starts` exists and obeys its equation for every buffer (`StartsOf`), grows (`ChainGrows`) and ends inside the area (`ChainEnds`) are the lemmas of `SenseAnswerProofs` |
| `SenseDecoderProofs!ReportsAreDecoded` | registers, chain of other descriptors in front of the report, place where it is cut | from `DecodersAnswer`: a report in descriptor format that is cut short is never valid (`CutDescriptorReport`), one in fixed format has its registers in the first 14 bytes (`CutFixedReport`), and whole ones are read by `DescriptorIsRead` and `FixedIsRead` of `SenseAnswerProofs` |
| `SataPowerProofs!TimerIsExact` | duration | case split over the ranges of the encoding, in both directions (`DecodeOfEncode`, `EncodeOfDecode`); division facts are lemmas |
| `DeviceQueriesProofs!PanicsAreOverflows`, `DisksAreExact`, `DrivesAreMeasured`, `FeaturesAreReported`, `StatisticsAreInside`, `RejectionsAnswerNothing` | disks, well formed drives, logs, offsets, widths of words | `Sent`: the query fits the device, its reply has that device's data or none, and no answer is kept from an earlier query; `Fits` the same of the device. From them, one lemma on the decoders that can panic and one on each computation (`CapacityOfDrive`, `FeaturesOfDrive`, `GetIsMarked`, `NothingRead`) |
| `SataPowerProofs!PowerTypeCorrect`, `InvalidStaysHome` | callers, workloads of any durations and bytes, SAT layers | `Sent`: what is under way is a request the method did not refuse; `RegistersOf` says which registers each of them reaches the drive as, by the lemma on timers |
| `SataPowerProofs!SettersAreHonest` | the same, without EPC modes (`NoEpcRequests`; with them it is false, see finding 2) | `Vouched`: a reply that will be taken for success belongs to a call whose effect is there. Two halves: what the drive does not abort has the effect asked for (`DoneIsReached`), and no SAT layer's report of anything else can be decoded (`AbortFails`, `BrokenFails`), for which the key and the format decide, before the walk over descriptors |
| `SataPowerProofs!ModesAreHeld`, `ErrorsAreReal` | the same, with EPC modes | `AnswersInv`: what a method will make of the reply under way is what its call has earned (`Told`), and nothing is earned by a call that has not been executed (`Unearned`). Behind it, `ReportIsRead`: a report of the drive's registers, in descriptor format with other descriptors in front or in fixed format, is decoded to those registers, which for descriptors needs the chain (`SenseAnswerProofs!DescriptorIsRead`: a chain that fills its bytes goes on behind them, `ChainContinues`) |
| `SmartAttributesProofs!RangesArePlausible` | raw values | a case for each form that `ParseAsTemperature` guesses |
| `SmartAttributesProofs!TablesAreDecoded`, `GenericIsAnswered`, `FailureIsOrderless` | tables of any length, databases, orders of the map | `AInv`: `Calls` (which table is at hand), `Walk` (what has been decoded is what lies before `slot`, up to the first hole) and `Round` (what has been visited is what a field was filled from; what is in `todo` is what is left). None of the three properties is inductive: they speak of the end of a loop |
| `SmartAttributesProofs!AttributesTypeCorrect` | the same | `TypeInv`: the tables at hand are tables of the command, and the attributes have raw values of eight bytes. `TypeOK` alone says nothing of the attributes that the generic fields come from |
| `SmartAttributesProofs!ThresholdsAreIntact` | tables of any length, a byte changed by anything | `Verified`: past the check, the table is the one sent or none. `SumsOf`: the recursive sum exists; `SumOfChanged`, by induction: another threshold changes the sum by the difference, which is no multiple of 256 (`Congruence`) |
| `SmartAttributesProofs!SuccessIsWritten` | drivedb.h of any length, runs killed and writes lost or torn at any time | `GInv`: `Progress` (what is written is what the records before `next` give, `Written`), `FileInv` (a file that is whole is `Complete`: what the generator makes of one drivedb.h). A record that is not in the file is in `lost`; neither a run that failed nor a later one can make a file whole again of which another part is missing |
| `SmartAttributesProofs!LibraryIsServed` | the same, and any drive | `Built`, the third part of `GInv`: the database of the program is that of one `Complete` file, record by record (`Entry`, in an order that is increasing and leaves out nothing, `Orders`). From there it is about operators: a literal has the entries written in it (`LiteralEntries`), an option gives the attribute that the specification says (`AttributeOfRecord`, `AttributeOfDefaults`), and the record at which the loop ends is the first for the drive or an unreadable one before it (`FirstEnd`) |
| `DeviceOpenProofs!TypeCorrect`, `NoLeaks` | number of callers, paths, devices, descriptors, replacements | `FdsAccounted` is inductive with `TypeOK`; one lemma per way an action treats the table: keeps, opens (the number was free), closes (the caller was the owner) |
| `DeviceOpenProofs!ErrorsExplained` | the same | an invariant on `errs` for each driver and step of the chain: at the driver at hand, those before it have failed and no other |
| `DeviceSessionProofs!SessionsAreSound` | the same, and handles closed twice | `SessionInv`: the types always; while nobody has closed a handle twice, `FdsAccounted` and `Bound` (the descriptor leads to the device it was opened on). A step of a session that is one of DeviceOpen inherits its lemmas |
| `DeviceSessionProofs!SessionErrorsExplained` | the same | the invariant of `ErrorsExplained` does not look at descriptors, so that misuse leaves it alone |
| `DeviceSessionProofs!SessionsKeepHandles` | the same, until a handle is closed twice | refinement: `HandleInv`, that `OpenInv` holds until then. The steps of DeviceOpen are mapped by its own proof (`StepMapped`), and reading leaves alone what a handle stands for (`ReadKeeps`) |
| `DeviceOpenProofs!BridgesSurvive` | the same | `UsbBridgesSurvive` needs `NvmeGuard`: in the NVMe driver `Open` has an NVMe path, and only `Open` goes on to IDENTIFY |
| `DeviceOpenProofs!OpenImplementsHandle` | the same | refinement: with `OpenInv` (types, owners, and that a file's device has been behind the path since the call began) every step maps to a step of `DeviceHandle` or a stutter, one lemma per action |
| `DeviceOpenProofs!MistakesAreComplaints` | the same, devices that serve INQUIRY and IDENTIFY | `OpenInv` has that behind the INQUIRY there is a direct access device, or a tape that may leave commands unserved (`Fits`, `Passes`). A SATA handle is made by `SataIdentify` (`SataHandles`); an IDENTIFY that ends without error and without data comes from a disk that is no ATA drive (`SilentAnswer`) |
| `DeviceOpenProofs!CallsAdvance`, `NvmeAdminProofs!CallsAdvance`, `SenseDecoderProofs!DecodersAdvance` | callers, paths, devices; callers, namespaces; byte strings | measures (`CallsGoOn`, `WalkGoesOn`, `CallGoesOn`): each step of a call goes on in the order of drivers and steps, of namespaces and ioctls, or of stages and offsets, all of them bounded; a step of anybody else leaves the call in its place. For the decoder this needs `IInv`: a length is a byte only inside the buffer |
| `DeviceOpenProofs!HealthyDrivesOpen` | the same, with `Undisturbed`: `Open` only, no bad record, a descriptor for each caller | `HealthyInv`: without faults and exchanges a driver that has given up could not serve the device (`NotServed`), and a bridge that is out of reach has been wedged. That `open` finds a free descriptor is the pigeonhole principle over the owners |
| `NvmeAdminProofs!TypeCorrect`, `FallbackIsSafe` | number of callers and namespaces, set of kernels | `Once`: a caller is at the older ioctl only with a command not executed yet, because ENOTTY is returned before anything is sent |
| `NvmeAdminProofs!IdentifyIsCurrent` | the same | an invariant that says `Collects` of the namespaces below the current one, kept by every step of the caller and by changes of others, since `since` only grows |
| `NvmeAdminProofs!GenericIsTrue` | the same, any logs | `Shows`: while a call reads, the log of the moment is in `shown`; the lemma on `Celsius` says which temperatures come of a difference that did not wrap around |
| `NvmeAdminProofs!KernelsServe` | the same | `FellBack`: a caller is at the older ioctl only on a kernel without the newer one; a case for each way an ioctl of a drive that works can end |

Assumptions: those named in the modules (`OpenAssumption`, `ServesAssumption`, `SessionAssumption`,
`NvmeAssumption`, `BuffersAssumption`, `ReportsAssumption`, `DurationsAssumption`, `QueriesAssumption`, `DrivesAssumption`,
`LeadingAssumption`, `PowerAssumption`, `AttributesAssumption`, `GeneratorAssumption`), which TLC evaluates in the runs, as it does those of modules
without proofs. They give constants their types; `DrivesAssumption` says besides that a drive does not contradict
itself (`WellFormed`): it sets a feature only in words it implements, and at most one of its two
numbers of sectors is bogus; `ReportsAssumption` and `LeadingAssumption` that what a SAT
layer puts in front of its ATA Status Return is a chain of any number of descriptors, not one of them an
ATA Status Return, that fills its bytes and leaves room for the last one in an additional length of a byte (`MayLead`); `ServesAssumption` says which kinds of device `Serves`, a parameter of
DeviceHandle, lets each driver have: what the driver needs and, where devices may leave an INQUIRY unserved,
tapes for the SATA and SCSI drivers (finding 1). `SettersAreHonest`, `HealthyDrivesOpen` and `LibraryIsServed` state their
own: `NoEpcRequests`, `Undisturbed`, and `NilIsNoMap` (nil, for which the model has a value of its own, is not a
map; TLC, for which it is a model value, cannot ask for its domain).

Induction. A recursive definition is `CHOOSE f : f = ...`, so before anything can be said of it, a function with
that equation has to be shown to exist. The library's induction theorems quantify over operators,
which the provers cannot instantiate; but that < is well-founded on the naturals
(`NatLessThanWellFounded`) and that a well-founded relation has minimal elements (`WFMin`) are statements
about sets. `SenseAnswerProofs` derives from them that a set with 0 and with successors is all of Nat (`Induction`), and
the existence of the functions (`Iteration`, `Summation` of `SmartAttributesProofs`).

Only model-checked: liveness under fairness (`OpenReturns`, `CallReturns`,
`Returns`), which is beyond the prover. What it rests on in the code is proved: the measures above say that a call
which takes its steps has few of them to take. What is left to TLC is that a step can always be taken
(ENABLED) and the argument from fairness. Every safety property of a passing run is proved.

## 5. Findings

Each has a run of its own, in which TLC shows the behaviour.

1. **A rejected IDENTIFY counts as an answer** (`MCDeviceOpenProbe`). `scsiSendCdb`
   drops the sense data and reports CHECK CONDITION with sense as success, so
   a SCSI disk that rejects ATA IDENTIFY is returned as a SATA drive with an
   all-zero identification ("If ATA IDENTIFY succeeds, this is a SAT device",
   sata_linux.go:51). SCSI disks do so every time; a SATA drive that answers with sense
   for another reason (ABORTED COMMAND, UNIT ATTENTION) is held without its identification in the same way.
   INQUIRY data is taken so too: zeroed, it reads as peripheral type 0, and a tape that answers INQUIRY
   with sense is opened as a SCSI disk or SATA drive ("anything else is rejected", scsi_linux.go:31;
   TLC shows it when `OnlyComplaintsMislead` loses its antecedent). All of this needs a device that
   ends a command without serving it; broken transports, exchanged devices and reused descriptors never have that effect
   (`OnlyComplaintsMislead`). The same reply gives `ReadSMARTData` an empty table without an error.
2. **SetPowerMode of an EPC mode does nothing** (`MCSataPowerEpc`). The CDB has no EPC
   subcommand; `_ATA_EPC_SUBCMD_GO_TO_POWER_CONDITION` is defined and unused.
3. **IdleUnload misplaces its LBA** (`MCSataPowerUnload`). Bytes 7, 9 and 11 of the CDB
   instead of 8, 10 and 12.
4. **Temperatures in tenths of degrees are not found** (`MCSmartAttributesTemperature`).
   `Temperature_Celsius_X10` in the code, `Temperature_Celsius_x10` in the database.
5. **Byte orders of the database are never used** (`MCSmartAttributesByteOrder`). "Certain
   attribute types override the per-device byteOrder" (sata.go:958), and the default
   case of the switch overrides it for every other type.

Smaller disagreements between comments and code, without a run: scsi.go:51 says
the mask strips bit 1, and 0x7e strips bit 0 (bit 7 as well); scsi_linux.go:252 speaks of the low 3
bits, and the mask is 0x1; sata_power_linux.go:43-47 says that Idle cannot be
forced, and the code sends IDLE IMMEDIATE for it; README.md:22-24 takes element 0 of the list of
namespaces for namespace 1, and nvme.go:1595 leaves inactive namespaces out;
smart.go:15 calls `Read` a number of data units (LBA), which for NVMe is the log's number in thousands
of units (nvme.go:1440-1443), not converted; nvme.go:1395 takes 4 bits of FLBAS for
the index of the format, and the comment at nvme.go:1086-1089 has 2 more.
Seen while modelling and left as they are in the model: negative temperatures
become large unsigned numbers (sata.go:714); the generic hours look at
`Power_On_Hours` only, so drives with `Power_On_Minutes` or
`Power_On_Half_Minutes` report 0; a temperature attribute that the defaults give the
type Raw48 makes `ReadGenericAttributes` fail; NVMe temperatures below 273 K wrap
around in 16 bits (nvme.go:1574; `GenericIsMeasured` delimits it); a command that an NVMe drive
rejects is no error, since the status is not an errno (ioctl_linux.go), and reads as zeros; the status and
error registers of a report are not looked at (sata_power_linux.go:25); the generator removes
the directory for temporary files that all programs share (ata_attributes.go:46), and ignores the error of each
`f.WriteString` (ata_attributes.go:113-163): a write that fails between others that succeed leaves a record out of
a file that gofmt and the compiler accept, which `SuccessMeansWritten` and `LibraryServes` delimit (`lost`). At the ends of the integers, which
`PanicsOnlyByOverflow` and `DiskIsExact` delimit: `SerialNumber` panics for a length of 252 or
more, a sum in a byte (scsi_linux.go:126); `Get` panics for offsets less than 8 below
the largest int, where its comment says that ok is false (sata.go:633-637);
Capacity is 0 for a SCSI disk of 2^32 blocks or more (scsi_linux.go:80).

## 6. What the models leave out

* Bytes that no modelled property tells apart: the 512-byte IDENTIFY data, vendor and
  product names, NVMe structures, flags and version words of SMART tables.
* SMART logs (error log, self-test log, directory): one command each and a fixed layout.
* Drive, SAT layers, sg driver and NVMe driver are external: modelled from
  how the code and its tests use them. A drive that contradicts itself (success
  signature with the error bit) is not among them.
* Transfers of a part of the data: `hdr.resid` is not looked at (scsi_linux.go:260), and a
  command may leave any beginning of its buffer. The models have transfers of all and of nothing.
* `DeviceOpen` takes the Identify of an NVMe drive in one step; its ioctls, and the
  namespaces that change between them, are those of `NvmeAdmin`. Nothing about
  descriptors depends on the difference: the call owns its descriptor throughout.
* After a second Close, or Close of a number that is another's, only `FailureExplained` says
  something: the library does not define what such a handle does, and `OwnAnswers`
  excludes it.
* Generator: the text itself (quoting, wrapping, the `+` and the restriction to HDD or SSD in an
  option), also that inside a torn file, and the programs it calls, curl, cc and gofmt, which succeed or fail.
* The macOS shim (C++ over IOKit), the stubs that return `ErrOSUnsupported`, and
  accessors of identification structures: single bits, strings, the size of a namespace's blocks.

## 7. Plan

The order was: what decides whether a device can be used at all (sense data,
SG_IO, opening), what changes a drive (power), what walks over changing state
(NVMe), what is read from it (attributes, queries), handles over their life, and
where the database comes from. What is left is
the SMART logs, if they come to be more than a fixed layout: for now their
commands are those of `SgIo` with nothing computed from the data.
