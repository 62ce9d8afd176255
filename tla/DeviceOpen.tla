----------------------------- MODULE DeviceOpen -----------------------------
(***************************************************************************)
(* Opening and closing devices: smart.Open (src/smart.go) with its probe   *)
(* order NVMe, SATA, SCSI; OpenSata, OpenScsi and OpenNVMe, which it calls *)
(* and which programs also call directly; Close.  Each of them opens the   *)
(* path anew, sends commands on the descriptor and closes it again on      *)
(* every error path.                                                       *)
(*                                                                         *)
(* Callers are goroutines of one process: they share its descriptor table. *)
(* A step is one system call, so calls interleave between any two of them, *)
(* and the device behind a path may be replaced (unplugged, replugged)     *)
(* between any two of them.  A caller closes a handle once.                *)
(***************************************************************************)
EXTENDS SgIo, FiniteSets

CONSTANTS Callers, Paths,
          NvmePaths,        \* the paths that contain "/nvme"
          Devices,          \* records with a field kind
          BadModels,        \* models whose look-up in the drive database fails
          FDs,              \* the descriptor table (RLIMIT_NOFILE)
          NoFile,           \* a free entry of it
          Entries,          \* the functions callers use
          Faults,           \* the combinations of faults that may occur
          MaxReplacements   \* bound on replaced devices

\* The kinds of devices, see InquiryData below.
DirectAccess == {"sat", "bridge", "disk"}
Kinds        == {"nvme", "tape", "none"} \cup DirectAccess

Drivers == {"nvme", "sata", "scsi"}
Direct  == [OpenNVMe |-> "nvme", OpenSata |-> "sata", OpenScsi |-> "scsi"]

ASSUME OpenAssumption ==
  /\ NvmePaths \subseteq Paths
  /\ FDs \subseteq Nat
  /\ NoFile \notin [dev : Devices, path : Paths, live : BOOLEAN]
  /\ Entries \subseteq {"Open"} \cup DOMAIN Direct
  /\ Faults \subseteq SUBSET {"transport", "device"}
  /\ MaxReplacements \in Nat
  /\ \A d \in Devices : d.kind \in Kinds
  /\ Zeroed \notin [type : {0, 1}, ata : BOOLEAN] \cup Devices

VARIABLES faulty,        \* what may fail at any time, see Faulty below
          at,            \* the device behind each path
          replacements,  \* how often one was replaced
          wedged,        \* the paths whose transport an NVMe ioctl has broken
          fds,           \* the process's descriptor table
          entry, path,   \* the function each caller runs, and its argument
          driver, step,  \* which driver it is in, and what that does next
          fd,            \* the local fd, d.fd once a handle is returned
          errs,          \* the drivers whose error the call has collected
          identity,      \* the ATA identification a mapping was looked up for
          seen           \* the devices behind the path since the call began

vars == <<faulty, at, replacements, wedged, fds, entry, path, driver, step, fd,
          errs, identity, seen>>
world == <<faulty, at, replacements>>
call  == <<entry, path>>
notes == <<identity, wedged>>

Steps == {"idle", "open", "inquiry", "probe", "identify", "close", "held"}

\* The callers inside a call, and those that own a descriptor.
Running(c) == step[c] \notin {"idle", "held"}
HasFile(c) == step[c] \in {"inquiry", "probe", "identify", "close", "held"}

File(c) == fds[fd[c]]
Dev(c)  == File(c).dev

-----------------------------------------------------------------------------
(* The devices, as far as opening them can tell them apart: an NVMe drive, *)
(* a SATA drive behind a SAT layer that says "ATA     ", one behind a USB  *)
(* bridge that reports the drive's own vendor, a SCSI disk, a SCSI tape.   *)

InquiryData(kind) ==
  CASE kind = "sat"                -> [type |-> 0, ata |-> TRUE]
    [] kind \in {"bridge", "disk"} -> [type |-> 0, ata |-> FALSE]
    [] kind = "tape"               -> [type |-> 1, ata |-> FALSE]

\* The fields OpenSata and OpenScsi read; a buffer nothing was read into
\* is device type 0 of no vendor.
Peripheral_Unread(data) == 0
Peripheral(data)  == IF data = Zeroed THEN 0 ELSE data.type
VendorIsAta(data) == data # Zeroed /\ data.ata

\* Neither was the device unplugged since, nor is its transport broken, nor
\* the descriptor closed (which another than c does in DeviceSession only).
Reachable(c) == File(c) # NoFile /\ File(c).live /\ File(c).path \notin wedged

\* The device answers NVMe admin commands.
AnswersNvme(c) == Reachable(c) /\ Dev(c).kind = "nvme"

\* What a command may meet instead of its answer: faults of the transport,
\* which open(2) meets as well, and commands the device does not serve, as
\* after a reset or while it starts.
Faulty ==
  (IF "transport" \in faulty THEN Broken ELSE {})
    \cup (IF "device" \in faulty THEN Unserved ELSE {})

Inquiry(c) ==
  IF ~Reachable(c) \/ Dev(c).kind = "nvme" THEN Broken
  ELSE {Good(InquiryData(Dev(c).kind))} \cup Faulty

\* A command that returns data of an ATA drive.
AtaData(c) ==
  IF ~Reachable(c) \/ Dev(c).kind = "nvme" THEN Broken
  ELSE {IF Dev(c).kind \in {"sat", "bridge"} THEN Good(Dev(c)) ELSE Check(IllegalRequest)}
         \cup Faulty

-----------------------------------------------------------------------------
(* Control flow shared by the drivers.                                     *)

\* unix.Open: the lowest free descriptor.
Opened(c, f) ==
  /\ fds[f] = NoFile
  /\ \A g \in FDs : fds[g] = NoFile => f <= g
  /\ fds' = [fds EXCEPT ![f] = [dev |-> at[path[c]], path |-> path[c], live |-> TRUE]]
  /\ fd' = [fd EXCEPT ![c] = f]

GoTo(c, s) ==
  /\ step' = [step EXCEPT ![c] = s]
  /\ UNCHANGED <<driver, errs, seen>>

\* A handle is returned; errors of other drivers are dropped.
Succeed(c) ==
  /\ step' = [step EXCEPT ![c] = "held"]
  /\ seen' = [seen EXCEPT ![c] = {}]
  /\ errs' = [errs EXCEPT ![c] = {}]
  /\ UNCHANGED driver

FirstDriver_NvmeAlways(e, p) == IF e # "Open" THEN Direct[e] ELSE "nvme"
FirstDriver(e, p) ==
  IF e # "Open" THEN Direct[e] ELSE IF p \in NvmePaths THEN "nvme" ELSE "sata"

NextDriver_SkipsSata(d)  == "scsi"
NextDriver_StartsOver(d) == IF d = "nvme" THEN "sata" ELSE "nvme"
NextDriver_Nothing(d)    == IF d = "nvme" THEN "sata" ELSE "none"
NextDriver(d) == IF d = "nvme" THEN "sata" ELSE "scsi"

\* A driver fails: Open tries the next one, any other function returns.
DriverFails(c) ==
  /\ errs' = [errs EXCEPT ![c] = @ \cup {driver[c]}]
  /\ IF entry[c] = "Open" /\ driver[c] # "scsi"
     THEN /\ driver' = [driver EXCEPT ![c] = NextDriver(@)]
          /\ step' = [step EXCEPT ![c] = "open"]
          /\ UNCHANGED seen
     ELSE /\ step' = [step EXCEPT ![c] = "idle"]
          /\ seen' = [seen EXCEPT ![c] = {}]
          /\ UNCHANGED driver

\* The error paths of a driver once it has a descriptor.
Abandon_WithoutClose(c) == DriverFails(c)
Abandon(c) == GoTo(c, "close")

-----------------------------------------------------------------------------

Init ==
  /\ faulty \in Faults
  /\ at \in [Paths -> Devices]
  /\ replacements = 0
  /\ wedged = {}
  /\ fds = [f \in FDs |-> NoFile]
  /\ \E e \in Entries, p \in Paths, f \in FDs :
       /\ entry = [c \in Callers |-> e]
       /\ path = [c \in Callers |-> p]
       /\ fd = [c \in Callers |-> f]
  /\ driver = [c \in Callers |-> "scsi"]
  /\ step = [c \in Callers |-> "idle"]
  /\ errs = [c \in Callers |-> {}]
  /\ identity = [c \in Callers |-> Zeroed]
  /\ seen = [c \in Callers |-> {}]

\* A call of Open, OpenSata, OpenScsi or OpenNVMe.
Start(c) ==
  /\ step[c] = "idle"
  /\ \E e \in Entries, p \in Paths :
       /\ entry' = [entry EXCEPT ![c] = e]
       /\ path' = [path EXCEPT ![c] = p]
       /\ driver' = [driver EXCEPT ![c] = FirstDriver(e, p)]
       /\ seen' = [seen EXCEPT ![c] = {at[p]}]
  /\ step' = [step EXCEPT ![c] = "open"]
  /\ errs' = [errs EXCEPT ![c] = {}]
  /\ UNCHANGED <<world, fds, fd, notes>>

\* unix.Open in each driver: no such device, no permission, no descriptor
\* left.  OpenNVMe asks the device nothing; Open then calls Identify.
OpenFile(c) ==
  /\ step[c] = "open"
  /\ \/ /\ at[path[c]].kind # "none"
        /\ \E f \in FDs : Opened(c, f)
        /\ IF driver[c] # "nvme" THEN GoTo(c, "inquiry")
           ELSE IF entry[c] = "Open" THEN GoTo(c, "identify") ELSE Succeed(c)
        /\ identity' = [identity EXCEPT ![c] = Zeroed]
     \/ /\ "transport" \in faulty \/ at[path[c]].kind = "none" \/ \A f \in FDs : fds[f] # NoFile
        /\ DriverFails(c)
        /\ UNCHANGED <<fds, fd, identity>>
  /\ UNCHANGED <<world, call, wedged>>

\* The paths whose transport is broken after an NVMe ioctl.
Wedging(c) ==
  IF Reachable(c) /\ Dev(c).kind = "bridge" THEN wedged \cup {File(c).path} ELSE wedged

\* Identify of NVMeDevice: admin ioctls, which a USB bridge does not survive.
\* (NvmeAdmin takes them one by one; they leave the descriptor alone.)
NvmeIdentify(c) ==
  /\ driver[c] = "nvme" /\ step[c] = "identify"
  /\ \/ /\ AnswersNvme(c)
        /\ Succeed(c)
     \/ /\ faulty # {} \/ ~AnswersNvme(c)
        /\ Abandon(c)
  /\ wedged' = Wedging(c)
  /\ UNCHANGED <<world, call, fds, fd, identity>>

\* scsiInquiry and the checks on it in OpenSata and OpenScsi.
Inquire(c) ==
  /\ step[c] = "inquiry"
  /\ \E r \in Inquiry(c) :
       IF ScsiSendCdb(r) \/ Peripheral(r.data) # 0 THEN Abandon(c)
       ELSE IF driver[c] = "scsi" THEN Succeed(c)
       ELSE IF VendorIsAta(r.data) THEN GoTo(c, "identify") ELSE GoTo(c, "probe")
  /\ UNCHANGED <<world, call, fds, fd, notes>>

\* The ATA IDENTIFY OpenSata tries on a device of another vendor.
Probe(c) ==
  /\ step[c] = "probe"
  /\ \E r \in AtaData(c) :
       IF ScsiSendCdb(r) THEN Abandon(c) ELSE GoTo(c, "identify")
  /\ UNCHANGED <<world, call, fds, fd, notes>>

\* dev.Identify() and the look-up in the drive database.  A buffer nothing was
\* read into is the identification of a drive without a name.
SataIdentify(c) ==
  /\ driver[c] = "sata" /\ step[c] = "identify"
  /\ \E r \in AtaData(c) :
       /\ IF ScsiSendCdb(r) \/ r.data \in BadModels THEN Abandon(c) ELSE Succeed(c)
       /\ identity' = [identity EXCEPT ![c] = r.data]
  /\ UNCHANGED <<world, call, fds, fd, wedged>>

\* unix.Close on an error path.
CloseOnError(c) ==
  /\ step[c] = "close"
  /\ fds' = [fds EXCEPT ![fd[c]] = NoFile]
  /\ DriverFails(c)
  /\ UNCHANGED <<world, call, fd, notes>>

\* close(2) gives the descriptor back even when it reports an error, so that
\* Close makes no second attempt.
AfterClose_Retries == "held"
AfterClose == "idle"

\* Close of a handle.  d.fd keeps the number.
Close(c) ==
  /\ step[c] = "held"
  /\ fds' = [fds EXCEPT ![fd[c]] = NoFile]
  /\ GoTo(c, AfterClose)
  /\ UNCHANGED <<world, call, fd, notes>>

\* The device behind a path is unplugged, plugged in or exchanged.
Replace(p) ==
  /\ replacements < MaxReplacements
  /\ \E d \in Devices \ {at[p]} :
       /\ at' = [at EXCEPT ![p] = d]
       /\ seen' = [c \in Callers |->
                     IF step[c] \notin {"idle", "held"} /\ path[c] = p
                     THEN seen[c] \cup {d} ELSE seen[c]]
  /\ fds' = [f \in FDs |-> IF fds[f] # NoFile /\ fds[f].path = p
                           THEN [fds[f] EXCEPT !.live = FALSE] ELSE fds[f]]
  /\ wedged' = wedged \ {p}
  /\ replacements' = replacements + 1
  /\ UNCHANGED <<faulty, call, driver, step, fd, errs, identity>>

Opening(c) ==
  \/ OpenFile(c)
  \/ NvmeIdentify(c)
  \/ Inquire(c)
  \/ Probe(c)
  \/ SataIdentify(c)
  \/ CloseOnError(c)

Next ==
  \/ \E c \in Callers : Start(c) \/ Opening(c) \/ Close(c)
  \/ \E p \in Paths : Replace(p)

Spec == Init /\ [][Next]_vars

\* System calls return (SG_IO commands have a timeout of 20 s, the kernel
\* times NVMe commands out) and goroutines are scheduled.
FairSpec == Spec /\ \A c \in Callers : WF_vars(Opening(c))

-----------------------------------------------------------------------------
(* Properties.                                                             *)

Files == [dev : Devices, path : Paths, live : BOOLEAN]

\* The variables keep their types.
TypeOK ==
  /\ faulty \in Faults
  /\ at \in [Paths -> Devices]
  /\ replacements \in 0..MaxReplacements
  /\ wedged \subseteq Paths
  /\ fds \in [FDs -> Files \cup {NoFile}]
  /\ entry \in [Callers -> Entries]
  /\ path \in [Callers -> Paths]
  /\ driver \in [Callers -> Drivers]
  /\ step \in [Callers -> Steps]
  /\ fd \in [Callers -> FDs]
  /\ errs \in [Callers -> SUBSET Drivers]
  /\ identity \in [Callers -> Devices \cup {Zeroed}]
  /\ seen \in [Callers -> SUBSET Devices]

\* Descriptors are neither leaked nor shared: every open descriptor is the
\* local fd of exactly one caller that is using it, on every error path of
\* every driver, and Close and the error paths only ever close their own.
FdsAccounted ==
  /\ \A c \in Callers : HasFile(c) => File(c) # NoFile /\ File(c).path = path[c]
  /\ \A b, c \in Callers : HasFile(b) /\ HasFile(c) /\ fd[b] = fd[c] => b = c
  /\ \A f \in FDs : fds[f] # NoFile => \E c \in Callers : HasFile(c) /\ fd[c] = f

\* The comment in Open: NVMe ioctls break the transport of USB bridges for
\* good, so Open must never send one to a device whose path is not NVMe's.
UsbBridgesSurvive == wedged \subseteq NvmePaths

\* The error of a failed call accounts for every driver that was tried, in
\* Open all that the path calls for (errors.Join).
FailureExplained ==
  \A c \in Callers :
    step[c] = "idle" /\ errs[c] # {} =>
      errs[c] = IF entry[c] # "Open" THEN {Direct[entry[c]]}
                ELSE {"sata", "scsi"} \cup IF path[c] \in NvmePaths THEN {"nvme"} ELSE {}

\* Without faults and exchanged devices, Open gets every drive to the driver
\* of its kind, whatever the path is called and after as many fallbacks as it
\* takes; but an NVMe drive needs an NVMe path, and a USB bridge does not
\* survive one.  (A SCSI disk that rejects ATA commands may get either, see
\* SataAnsweredIdentify.)
HealthyOpens ==
  faulty = {} /\ replacements = 0 => \A c \in Callers :
    LET kind == at[path[c]].kind
    IN  /\ step[c] = "idle" /\ errs[c] # {} =>
             \/ kind \in {"none", "tape"}
             \/ kind = "nvme" /\ path[c] \notin NvmePaths
             \/ kind = "bridge" /\ path[c] \in NvmePaths
        /\ step[c] = "held" =>
             driver[c] \in CASE kind = "nvme"               -> {"nvme"}
                             [] kind \in {"sat", "bridge"} -> {"sata"}
                             [] kind = "disk"              -> {"sata", "scsi"}
                             [] OTHER                      -> {}

\* A device can be taken for what it is not, or a SATA drive be held without its
\* identification, only because some device ended a command without serving it: with sense
\* data, which scsiSendCdb drops, or with an empty transfer.  SCSI disks do that with every
\* ATA IDENTIFY, other devices when they fail to serve a command; so the zeroed INQUIRY of a tape passes the tests of
\* sata_linux.go:25 and scsi_linux.go:31 ("anything else is rejected").  Broken transports,
\* exchanged devices and reused descriptors never do it, in any of the fallbacks.
OnlyComplaintsMislead ==
  "device" \notin faulty => \A c \in Callers :
    step[c] = "held" /\ driver[c] \in {"sata", "scsi"} =>
      /\ Dev(c).kind \in DirectAccess
      /\ driver[c] = "sata" /\ identity[c] = Zeroed => Dev(c).kind = "disk"

\* sata_linux.go:51, "If ATA IDENTIFY succeeds, this is a SAT device", and
\* the error text below it: a SataDevice has answered ATA IDENTIFY.
SataAnsweredIdentify ==
  \A c \in Callers : step[c] = "held" /\ driver[c] = "sata" => identity[c] # Zeroed

\* The places of a call, in the order of the code: its drivers one after the other,
\* and the steps of each.
DriverOrder == [nvme |-> 1, sata |-> 2, scsi |-> 3]
StepOrder   == [open |-> 1, inquiry |-> 2, probe |-> 3, identify |-> 4, close |-> 5]

GoesOn(c) ==
  \/ DriverOrder[driver'[c]] > DriverOrder[driver[c]]
  \/ driver'[c] = driver[c] /\ StepOrder[step'[c]] > StepOrder[step[c]]

\* A call never comes back to a place it has left: each of its steps ends it or goes
\* on to a later one, whatever fails, is exchanged or is done by other callers, none
\* of whom moves it.  So it takes 15 steps at most.
CallsGoOn ==
  [][\A c \in Callers : Running(c) =>
       IF Opening(c) THEN ~Running(c)' \/ GoesOn(c)
       ELSE UNCHANGED <<driver[c], step[c]>>]_vars

\* Every call returns: the fallbacks do not go round in circles.
OpenReturns ==
  \A c \in Callers : step[c] = "open" ~> step[c] \in {"idle", "held"}

-----------------------------------------------------------------------------
(* Opening implements DeviceHandle: the probes are internal.               *)

CONSTANT Serves

\* The admin commands of an NVMe handle need an NVMe drive, though OpenNVMe
\* asks nothing of a device; the other two need a direct access device, which
\* serves SG_IO, but get a tape too that leaves an INQUIRY unserved (see
\* OnlyComplaintsMislead).
ASSUME ServesAssumption ==
  \A d \in Devices :
    /\ d.kind = "nvme" \/ ("OpenNVMe" \in Entries /\ d.kind # "none")
         => <<"nvme", d>> \in Serves
    /\ d.kind \in DirectAccess \/ (d.kind = "tape" /\ \E f \in Faults : "device" \in f)
         => {<<"sata", d>>, <<"scsi", d>>} \subseteq Serves

Handle == INSTANCE DeviceHandle WITH
  call   <- [c \in Callers |-> IF step[c] = "idle" THEN "none"
                               ELSE IF step[c] = "held" THEN "held" ELSE "open"],
  handle <- [c \in Callers |-> IF step[c] = "held" THEN <<driver[c], Dev(c)>> ELSE <<>>]

\* A handle is bound to one device that was behind the path during the call
\* and that the handle's type fits, however the probes of concurrent calls
\* and replaced devices interleave; it stays so until Close.
ImplementsHandle == Handle!Spec
=============================================================================
