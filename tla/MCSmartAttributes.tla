--------------------------- MODULE MCSmartAttributes ---------------------------
(***************************************************************************)
(* Model checking of SmartAttributes: an excerpt of the drive database of  *)
(* src/ata_device_database.go, tables of three entries, and readings in    *)
(* the forms that drives use for temperatures.  Beside it, while no drive  *)
(* is open, the generator rewrites the database.                           *)
(***************************************************************************)
EXTENDS SmartAttributes, DatabaseGenerator

Named(n, t) == [name |-> n, type |-> t, order |-> <<>>]

\* Of the defaults.  Attribute 231 is meant for hard disks only, which the
\* look-up does not consult.
MCDefaults ==
  [id \in {9, 12, 190, 194, 231, 241} |->
     CASE id = 9   -> Named("Power_On_Hours", "Raw24OptRaw8")
       [] id = 12  -> Named("Power_Cycle_Count", "Raw48")
       [] id = 190 -> Named("Airflow_Temperature_Cel", "TempMinMax")
       [] id = 194 -> Named("Temperature_Celsius", "TempMinMax")
       [] id = 231 -> Named("Temperature_Celsius", "Raw48")
       [] id = 241 -> Named("Total_LBAs_Written", "Raw48")]

X10 == [id \in {9, 194} |->
          IF id = 9 THEN Named("Power_On_Half_Minutes", "HalfMin2Hour")
          ELSE Named("Temperature_Celsius_x10", "Temp10X")]
Msec == [id \in {9, 231} |->
           IF id = 9 THEN Named("Power_On_Hours", "Msec24Hour32")
           ELSE Named("SSD_Life_Left", "Raw48")]
Spares == [id \in {130} |-> [name |-> "Minimum_Spares_All_Zs", type |-> "Raw48",
                            order |-> <<"5", "4", "3", "2", "1">>]]

Record(models, firmwares, presets) ==
  [modelRe |-> models, firmwareRe |-> firmwares, presets |-> presets, bug |-> {}]

\* The first record asks for a firmware; the next, for the same model, does not.
MCDevices ==
  << Record({"SV0412H"}, {"SK100-01"}, X10),
     Record({"SV0412H", "SV1204H"}, NoFirmware, X10),
     Record({"SSD"}, NoFirmware, Msec),
     Record({"WD", "SSD"}, NoFirmware, NoPresets),
     Record({"A25FB"}, NoFirmware, Spares) >>

MCCompiled == [defaults |-> MCDefaults, devices |-> MCDevices]

MCDrives == {[model |-> m, firmware |-> "other"] : m \in {"SV0412H", "SSD", "unknown"}}
X10Drives == {[model |-> "SV0412H", firmware |-> "other"]}
SparesDrives == {[model |-> "A25FB", firmware |-> "other"]}

Entry(i, bytes) == [id |-> i, current |-> 100, worst |-> 90, vendor |-> bytes, reserved |-> 0]

\* Temperatures: alone; with a range in bytes 2 and 3, in 1 and 2, and one
\* that does not hold the temperature; below zero with a counter.
MCEntries ==
  {Entry(194, <<30, 0, 0, 0, 0, 0>>),   Entry(194, <<30, 0, 20, 45, 0, 0>>),
   Entry(190, <<50, 20, 45, 0, 0, 0>>), Entry(190, <<251, 255, 246, 41, 2, 0>>),
   Entry(231, <<95, 0, 0, 0, 0, 0>>),   Entry(241, <<1, 2, 3, 0, 0, 0>>),
   Entry(9, <<16, 14, 0, 0, 128, 238>>)}

MCThresholds == {[id |-> 9, threshold |-> 20], [id |-> 194, threshold |-> 250]}
X10Entries == {Entry(194, <<44, 1, 0, 0, 0, 0>>), Entry(9, <<240, 0, 0, 0, 0, 0>>)}
SparesEntries == {Entry(130, <<1, 2, 3, 4, 5, 6>>)}

-----------------------------------------------------------------------------
(* drivedb.h, as it should be and as it should not.                        *)

V(id, type, name, n) ==
  [key |-> "-v", fields |-> n, id |-> id, type |-> type, order |-> <<>>, name |-> name]
Other(key, value) == [key |-> key, fields |-> 0, id |-> 0, type |-> "", order |-> <<>>, name |-> value]
Bug(name) == Other("-F", name)
FromHeader(family, models, firmwares, presets) ==
  [family |-> family, modelRe |-> models, firmwareRe |-> firmwares, presets |-> presets]

Version == FromHeader("VERSION", {}, NoFirmware, <<>>)
Default(presets) == FromHeader("DEFAULT", {}, NoFirmware, presets)
Defaults2 ==
  Default(<<V(9, "raw24(raw8)", "Power_On_Hours", 3), V(194, "tempminmax", "Temperature_Celsius", 3)>>)

Usb == FromHeader("USB", {"SSD"}, NoFirmware, <<Other("-d", "sat")>>)
Legacy == FromHeader("SAMSUNG", {"SV0412H"}, {"SK100-01"},
                  <<V(9, "minutes", "", 2), V(194, "10xCelsius", "", 2), Bug("samsung")>>)
Unnamed == FromHeader("SSD", {"SSD", "SV0412H"}, NoFirmware, <<V(9, "raw48", "", 2)>>)
Plain == FromHeader("WD", {"WD", "SSD"}, NoFirmware, <<>>)
Wrong(o) == FromHeader("OTHER", {"WD"}, NoFirmware, <<Bug("nologdir"), o>>)

MCUpstreams ==
  { <<Version, Defaults2, Usb, Legacy, Unnamed, Plain>>,
    <<Version, Defaults2, Plain, FromHeader("OTHER", Malformed, NoFirmware, <<>>), Unnamed>>,
    <<Version, Defaults2, Unnamed, FromHeader("OTHER", {"WD"}, NoFirmware, <<V(9, "raw48", "A", 3), V(9, "raw16", "B", 3)>>)>>,
    <<Version, Default(<<>>), Plain>>,
    <<Defaults2, Version>> }
  \cup {<<Version, Defaults2, Plain, Wrong(o)>> :
          o \in {V(9, "raw48", "A", 4), V(9, "raw4", "", 2), V(NotANumber, "raw48", "", 2),
                 Bug("swapid"), Other("-v", Missing)}}

\* A torn file may have lost the name of an attribute, or the rest of a record.
MCMangled ==
  { [defaults |-> [id \in {9} |-> Named("", "Raw24OptRaw8")], devices |-> <<>>],
    [defaults |-> MCDefaults, devices |-> <<Record({"SSD"}, NoFirmware, NoPresets)>>] }

\* The generator rewrites the file while SmartAttributes has not begun, for one
\* drive; SmartAttributes goes on while the generator has not been run.
Untouched ==
  pc = "idle" /\ op = "ReadSMARTData" /\ page = ZeroTable(op) /\ mapping = Compiled.defaults

MCInit == Init /\ GenInit
MCNext ==
  \/ Untouched /\ GenNext /\ UNCHANGED <<mapping, pc, op, page, got, slot, attrs, todo, generic, result>>
  \/ runs = 0 /\ Next /\ UNCHANGED gvars
MCSpec == MCInit /\ [][MCNext]_<<vars, gvars>>
=============================================================================
