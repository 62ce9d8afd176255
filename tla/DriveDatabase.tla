----------------------------- MODULE DriveDatabase -----------------------------
(***************************************************************************)
(* The drive database, two variables of the package that nothing assigns   *)
(* to at run time, and the look-up in it (src/sata.go): which names, types *)
(* and byte orders the attributes of a drive have.  A regular expression   *)
(* is the set of the strings it matches, or Malformed if it does not       *)
(* compile; no firmware expression stands for any firmware.  The records   *)
(* themselves (src/ata_device_database.go) come out of DatabaseGenerator.  *)
(***************************************************************************)
EXTENDS Integers, Sequences

CONSTANTS Malformed, NoFirmware, NoPresets,
          Compiled  \* the database as the program was compiled: [defaults, devices]

VARIABLES ataDefaultAttributes,  \* id -> [name, type, order]
          ataDevicesDatabase     \* sequence of [modelRe, firmwareRe, presets, bug]

database == <<ataDefaultAttributes, ataDevicesDatabase>>

DatabaseInit ==
  /\ ataDefaultAttributes = Compiled.defaults
  /\ ataDevicesDatabase = Compiled.devices

NotFound == [err |-> FALSE, found |-> FALSE]

\* Whether the loop of findMatchingDbRecord ends at a record, and how.
ModelMatches(db, model) == db.modelRe # Malformed /\ model \in db.modelRe
IsMalformed(db, model) ==
  db.modelRe = Malformed \/ (ModelMatches(db, model) /\ db.firmwareRe = Malformed)
IsMatch(db, model, firmware) ==
  /\ ModelMatches(db, model)
  /\ db.firmwareRe = NoFirmware \/ (db.firmwareRe # Malformed /\ firmware \in db.firmwareRe)

findMatchingDbRecord(model, firmware) ==
  LET ends  == {i \in DOMAIN ataDevicesDatabase :
                  \/ IsMalformed(ataDevicesDatabase[i], model)
                  \/ IsMatch(ataDevicesDatabase[i], model, firmware)}
      first == CHOOSE i \in ends : \A j \in ends : i <= j
  IN  IF ends = {} THEN NotFound
      ELSE IF IsMalformed(ataDevicesDatabase[first], model) THEN [err |-> TRUE, found |-> FALSE]
      ELSE [err |-> FALSE, found |-> TRUE, db |-> ataDevicesDatabase[first]]

\* maps.Copy of the defaults and then of the record's own attributes.
Merged(presets) ==
  [id \in DOMAIN presets \cup DOMAIN ataDefaultAttributes |->
     IF id \in DOMAIN presets THEN presets[id] ELSE ataDefaultAttributes[id]]

findAttributesMapping(model, firmware) ==
  LET r == findMatchingDbRecord(model, firmware)
  IN  IF r.err THEN [err |-> TRUE]
      ELSE IF ~r.found THEN [err |-> FALSE, mapping |-> ataDefaultAttributes, bug |-> {}]
      ELSE IF r.db.presets = NoPresets
           THEN [err |-> FALSE, mapping |-> ataDefaultAttributes, bug |-> r.db.bug]
      ELSE [err |-> FALSE, mapping |-> Merged(r.db.presets), bug |-> r.db.bug]
=============================================================================
