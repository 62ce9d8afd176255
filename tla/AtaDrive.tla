------------------------------- MODULE AtaDrive -------------------------------
(***************************************************************************)
(* The other side of the power commands: the SAT layer that unpacks an ATA *)
(* PASS-THROUGH(16) CDB, the drive that executes it, and the report that   *)
(* comes back.  None of it is code of the repository; it is modelled from  *)
(* what the code, its comments and its tests take it to do.                *)
(***************************************************************************)
EXTENDS PowerCommands, SgIo, SenseAnswer

CONSTANT Leading   \* what SAT layers put in front of the descriptor they report in

ASSUME LeadingAssumption == \A before \in Leading : MayLead(before)

\* The command set the drive implements (ACS-3), whatever the code sends.
Ata == [checkPowerMode |-> 229, standbyImmediate |-> 224, idleImmediate |-> 225,
        standby |-> 226, idle |-> 227, sleep |-> 230, setFeatures |-> 239]
Feature == [unload |-> 68, enableApm |-> 5, disableApm |-> 133, epc |-> 74]

UnloadLba          == 5590604   \* 55_4E4Ch
GoToPowerCondition == 1         \* EPC subcommand, LBA bits 3:0

Asleep == -1   \* PM3:Sleep: the drive answers nothing

\* A drive is [mode, epc, apm, timer, unloaded]: its power state, whether
\* the EPC feature set is enabled, the APM level (0: disabled), the Standby
\* timer value, and whether the heads are on the ramp.
PowerStates == {Asleep, Standby, StandbyY, Idle, IdleA, IdleB, IdleC, ActiveOrIdle}
Drives == [mode : PowerStates, epc : BOOLEAN, apm : 0..254, timer : Codes, unloaded : BOOLEAN]

\* A 28-bit command: the LBA is in bytes 8, 10 and 12 (7, 9 and 11 are the
\* upper bytes of 48-bit commands).
Registers(cdb) ==
  [cmd |-> cdb[14], feature |-> cdb[4], count |-> cdb[6],
   lba |-> cdb[8] + 256 * cdb[10] + 65536 * cdb[12]]

Spinning(d)     == [d EXCEPT !.mode = IF d.epc THEN IdleA ELSE Idle]
ConditionOf(id) == CASE id = 0 -> Standby [] id = 1 -> StandbyY [] OTHER -> id

\* What the drive makes of a command: [ok, drive].
Accepted(d) == [ok |-> TRUE, drive |-> d]
Aborted(d)  == [ok |-> FALSE, drive |-> d]

SetFeatures(d, r) ==
  IF r.feature = Feature.enableApm THEN Accepted([d EXCEPT !.apm = r.count, !.epc = FALSE])
  ELSE IF r.feature = Feature.disableApm THEN Accepted([d EXCEPT !.apm = 0])
  ELSE IF r.feature # Feature.epc \/ ~d.epc THEN Aborted(d)
  ELSE IF r.lba % 16 = GoToPowerCondition
       THEN Accepted([d EXCEPT !.mode = ConditionOf(r.count)])
  ELSE Accepted(d)   \* settings of the power condition, no transition

Execution(d, r) ==
  CASE r.cmd = Ata.checkPowerMode   -> Accepted(d)
    [] r.cmd = Ata.standbyImmediate -> Accepted([d EXCEPT !.mode = Standby])
    [] r.cmd = Ata.standby          -> Accepted([d EXCEPT !.mode = Standby, !.timer = r.count])
    [] r.cmd = Ata.idle             -> Accepted([Spinning(d) EXCEPT !.timer = r.count])
    [] r.cmd = Ata.idleImmediate    ->
         IF r.feature # Feature.unload THEN Accepted(Spinning(d))
         ELSE IF r.lba = UnloadLba THEN Accepted([Spinning(d) EXCEPT !.unloaded = TRUE])
         ELSE Aborted(d)
    [] r.cmd = Ata.sleep            -> Accepted([d EXCEPT !.mode = Asleep])
    [] r.cmd = Ata.setFeatures      -> SetFeatures(d, r)
    [] OTHER                        -> Aborted(d)

\* The registers after the command.  CHECK POWER MODE reports in the count.
Status(ok) == [status |-> IF ok THEN 80 ELSE 81, error |-> IF ok THEN 0 ELSE 4]
ResultRegisters(r, e) ==
  [status |-> Status(e.ok).status, error |-> Status(e.ok).error,
   count  |-> IF r.cmd = Ata.checkPowerMode THEN e.drive.mode ELSE r.count]

\* A report of a command the drive aborted carries another sense key.
AsIllegal(s) ==
  IF IsFixedFormat(s) THEN [s EXCEPT ![3] = 5, ![13] = 36, ![14] = 0]
  ELSE [s EXCEPT ![2] = 5, ![3] = 36, ![4] = 0]

\* The SAT layers: reports in either format, with descriptors of its own first,
\* or no report at all although CK_COND was set.
Reporting == [kind : {"fixed"}] \cup [kind : {"descriptor"}, before : Leading]
Layers    == Reporting \cup [kind : {"silent", "rejects"}]

Report(layer, regs) ==
  CASE layer.kind = "descriptor" -> DescriptorReport(layer.before, regs)
    [] layer.kind = "fixed"      -> FixedReport(regs)

Answer(layer, r, e) ==
  IF layer.kind = "silent" THEN IF e.ok THEN Good(Zeroed) ELSE Check(IllegalRequest)
  ELSE LET report == Report(layer, ResultRegisters(r, e))
       IN  Check(IF e.ok THEN report ELSE AsIllegal(report))
=============================================================================
