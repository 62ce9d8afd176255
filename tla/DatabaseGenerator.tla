-------------------------- MODULE DatabaseGenerator --------------------------
(***************************************************************************)
(* The generator of the drive database (src/generator/ata_attributes.go):  *)
(* it downloads drivedb.h of smartmontools, runs it through the C compiler *)
(* and writes the records as Go source over the file that the package is   *)
(* built from.  A run may be killed at any moment, and each write may fail *)
(* by itself; the package is built at any time, from the file as it is.    *)
(*                                                                         *)
(* Text is what the generator reads in it: drivedb.h is a sequence of      *)
(* records [family, modelRe, firmwareRe, presets], of which the first two  *)
(* are the version and the defaults; presets is a sequence of options      *)
(* [key, fields, id, type, order, name], where the fields are those of the *)
(* value of -v; the value of another option is in name.                    *)
(***************************************************************************)
EXTENDS DriveDatabase, TLC

CONSTANTS Upstreams,   \* what drivedb.h may be at the time of a run
          Garbage,     \* a download that is not C: an error page
          Missing,     \* no value: of a key that ends the presets
          NotANumber,  \* an id that is none
          Models, Firmwares,
          Mangled,     \* [defaults, devices] that torn files may compile to
          MaxRuns      \* bound on the runs

ASSUME GeneratorAssumption ==
  /\ NoFirmware # Malformed
  /\ \A u \in Upstreams :
       /\ u \in Seq({u[i] : i \in DOMAIN u})
       /\ \A i \in DOMAIN u : \A k \in DOMAIN u[i].presets :
            DOMAIN u[i].presets[k] = {"key", "fields", "id", "type", "order", "name"}

VARIABLES gpc,       \* the step the run is about to take, or "idle"
          upstream,  \* drivedb.h as it was downloaded
          next,      \* the loop over its records
          names,     \* defaultNames
          file,      \* the Go source, see EmptyFile below
          tmp,       \* the files of other programs in os.TempDir(), or Gone
          outcome,   \* how the last run ended: "ok", "failed", or "none" yet
          runs,
          served     \* what the program was built from: [of, lost]

gvars == <<database, gpc, upstream, next, names, file, tmp, outcome, runs, served>>

Gone == {"no directory"}
Unknown == <<>>

\* The file that is written from a drivedb.h: whether it has its beginning,
\* which includes the defaults, and its end; the records between them, and
\* the places of those that should be there.  Of a torn file some part is
\* neither there nor missing as a whole, and nothing else is known.
EmptyFile(u) == [begun |-> FALSE, whole |-> FALSE, torn |-> FALSE, defaults |-> NoPresets,
             devices |-> <<>>, lost |-> {}, of |-> u]
Torn(f) == [f EXCEPT !.torn = TRUE]

-----------------------------------------------------------------------------
(* printPresets: the options of a record as the entries of a map literal.  *)
(* A fourth field HDD or SSD is a restriction, which nothing consults; it  *)
(* and a + after the type are left out.                                    *)

attributeTypeId ==
  "raw8" :> "Raw8" @@ "raw16" :> "Raw16" @@ "raw48" :> "Raw48" @@ "hex48" :> "Hex48"
  @@ "raw56" :> "Raw56" @@ "hex56" :> "Hex56" @@ "raw64" :> "Raw64" @@ "hex64" :> "Hex64"
  @@ "raw16(raw16)" :> "Raw16OptRaw16" @@ "raw16(avg16)" :> "Raw16OptAvg16"
  @@ "raw24(raw8)" :> "Raw24OptRaw8" @@ "raw24/raw24" :> "Raw24DivRaw24"
  @@ "raw24/raw32" :> "Raw24DivRaw32" @@ "sec2hour" :> "Sec2Hour" @@ "min2hour" :> "Min2Hour"
  @@ "halfmin2hour" :> "HalfMin2Hour" @@ "msec24hour32" :> "Msec24Hour32"
  @@ "tempminmax" :> "TempMinMax" @@ "temp10x" :> "Temp10X"

firmwareBugById == {"nologdir", "samsung", "samsung2", "samsung3", "xerrorlba"}

\* The legacy values, which have two fields: <<id, type>> -> <<type, name>>.
oldAttrValue ==
  <<9, "halfminutes">> :> <<"halfmin2hour", "Power_On_Half_Minutes">>
  @@ <<9, "minutes">> :> <<"min2hour", "Power_On_Minutes">>
  @@ <<9, "seconds">> :> <<"sec2hour", "Power_On_Seconds">>
  @@ <<9, "temp">> :> <<"tempminmax", "Temperature_Celsius">>
  @@ <<192, "emergencyretractcyclect">> :> <<"raw48", "Emerg_Retract_Cycle_Ct">>
  @@ <<193, "loadunload">> :> <<"raw24/raw24", "">>
  @@ <<194, "10xCelsius">> :> <<"temp10x", "Temperature_Celsius_x10">>
  @@ <<194, "unknown">> :> <<"raw48", "Unknown_Attribute">>
  @@ <<197, "increasing">> :> <<"raw48", "Total_Pending_Sectors">>
  @@ <<198, "offlinescanuncsectorct">> :> <<"raw48", "Offline_Scan_UNC_SectCt">>
  @@ <<198, "increasing">> :> <<"raw48", "Total_Offl_Uncorrectabl">>
  @@ <<200, "writeerrorcount">> :> <<"raw48", "Write_Error_Count">>
  @@ <<201, "detectedtacount">> :> <<"raw48", "Detected_TA_Count">>
  @@ <<220, "temp">> :> <<"tempminmax", "Temperature_Celsius">>

Modern(o) ==
  IF o.key = "-v" /\ o.fields = 2 /\ <<o.id, o.type>> \in DOMAIN oldAttrValue
  THEN LET new == oldAttrValue[<<o.id, o.type>>] IN [o EXCEPT !.type = new[1], !.name = new[2]]
  ELSE o

\* Whether an option neither is an error nor makes the generator panic.
Accepted(o) ==
  /\ o.name # Missing
  /\ o.key = "-v" => o.fields \in {2, 3} /\ o.id # NotANumber /\ Modern(o).type \in DOMAIN attributeTypeId
  /\ o.key = "-F" => o.name \in firmwareBugById

\* A name that is not given is that of the defaults, if they have one.
Inherited_Never(defaults, id, name) == name
Inherited(defaults, id, name) ==
  IF name = "" /\ id \in DOMAIN defaults THEN defaults[id] ELSE name

Printed(o, useAttrNames, defaults) ==
  LET new == Modern(o)
  IN  [id |-> o.id, name |-> IF useAttrNames THEN Inherited(defaults, o.id, new.name) ELSE new.name,
       type |-> attributeTypeId[new.type], order |-> o.order]

\* The options of a key, by their places: the order of the entries of a map
\* literal means nothing, that two have the same key does.
OptionsAt(presets, key) == {k \in DOMAIN presets : presets[k].key = key}
BugsOf(presets) == {presets[k].name : k \in OptionsAt(presets, "-F")}

IsPrinted(presets) == \A k \in DOMAIN presets : Accepted(presets[k])
printPresets(presets, useAttrNames, defaults) ==
  IF presets = <<>> THEN NoPresets
  ELSE [k \in OptionsAt(presets, "-v") |-> Printed(presets[k], useAttrNames, defaults)]

\* The Go compiler takes a file that is not torn: it has its beginning and its
\* end, the defaults are one value ("nil,0" is two), and no map literal has a
\* key twice.
NoKeyTwice(presets) ==
  presets # NoPresets =>
    \A k, m \in DOMAIN presets : presets[k].id = presets[m].id => k = m
Compiles(f) ==
  /\ f.begun /\ f.whole /\ f.defaults # NoPresets /\ NoKeyTwice(f.defaults)
  /\ \A i \in DOMAIN f.devices : NoKeyTwice(f.devices[i].presets)

\* What a map literal is in the program.
Literal(presets) ==
  IF presets = NoPresets THEN NoPresets
  ELSE [id \in {presets[k].id : k \in DOMAIN presets} |->
          LET a == presets[CHOOSE k \in DOMAIN presets : presets[k].id = id]
          IN  [name |-> a.name, type |-> a.type, order |-> a.order]]

\* defaultNames, of the defaults as they are printed.
NoNames == [id \in {} |-> ""]
NamesOf(presets) ==
  IF presets = NoPresets THEN NoNames
  ELSE [id \in DOMAIN Literal(presets) |-> Literal(presets)[id].name]

-----------------------------------------------------------------------------

GenInit ==
  /\ DatabaseInit
  /\ gpc = "idle" /\ outcome = "none" /\ runs = 0
  /\ upstream = Unknown /\ next = 1 /\ names = NoNames
  /\ file = EmptyFile(Unknown)
  /\ tmp = {"others"}
  /\ served = [of |-> Unknown, lost |-> {}]

\* The generator is started.
Run ==
  /\ gpc = "idle" /\ runs < MaxRuns
  /\ gpc' = "extract" /\ outcome' = "none" /\ runs' = runs + 1
  /\ upstream' \in Upstreams \cup {Garbage}
  /\ UNCHANGED <<database, next, names, file, tmp, served>>

\* An error is returned, which main panics on, or the generator panics at once.
Fail ==
  /\ gpc' = "idle" /\ outcome' = "failed"
  /\ UNCHANGED <<next, names>>

Proceed(step) == gpc' = step /\ UNCHANGED outcome

\* extractDatabase: curl, cc and the program itself may fail.  In any case
\* the whole directory for temporary files is removed, if that is allowed,
\* and otherwise all that is in it.
Extract ==
  /\ gpc = "extract"
  /\ tmp' \in IF tmp = Gone THEN {Gone} ELSE {{}, Gone}
  /\ \/ Fail
     \/ tmp # Gone /\ upstream # Garbage /\ Proceed("create") /\ UNCHANGED <<next, names>>
  /\ UNCHANGED <<database, upstream, file, runs, served>>

\* printDeviceDatabase up to os.Create, which empties the file.
HasHeader(u) == Len(u) >= 2 /\ u[1].family = "VERSION" /\ u[2].family = "DEFAULT"

Create ==
  /\ gpc = "create"
  /\ \/ Fail /\ UNCHANGED file
     \/ /\ HasHeader(upstream)
        /\ file' = EmptyFile(upstream)
        /\ next' = 3
        /\ Proceed("defaults") /\ UNCHANGED names
  /\ UNCHANGED <<database, upstream, tmp, runs, served>>

\* The errors of f.WriteString are ignored: of the pieces of a part, whatever
\* could not be written is not in the file, and the run goes on.
Write(written, lost) == file' \in IF file.torn THEN {file} ELSE {written, lost, Torn(file)}

\* A run that ends within a part may have written some of it.
Stopped == file' \in {file, Torn(file)}

\* The package clause, the defaults and the head of the devices.
Defaults ==
  /\ gpc = "defaults"
  /\ \/ ~IsPrinted(upstream[2].presets) /\ Fail /\ Stopped
     \/ /\ IsPrinted(upstream[2].presets)
        /\ LET p == printPresets(upstream[2].presets, FALSE, NoNames)
           IN  /\ Write([file EXCEPT !.begun = TRUE, !.defaults = p], file)
               /\ names' = NamesOf(p)
        /\ Proceed("devices") /\ UNCHANGED next
  /\ UNCHANGED <<database, upstream, tmp, runs, served>>

\* A round of the loop over the records: printDevice, but for USB devices.
DeviceInfo(dev) == [modelRe |-> dev.modelRe, firmwareRe |-> dev.firmwareRe,
                    presets |-> printPresets(dev.presets, TRUE, names), bug |-> BugsOf(dev.presets)]
Device ==
  /\ gpc = "devices" /\ next <= Len(upstream)
  /\ LET dev == upstream[next]
     IN  \/ dev.family # "USB" /\ ~IsPrinted(dev.presets) /\ Fail /\ Stopped
         \/ /\ \/ dev.family = "USB" /\ UNCHANGED file
               \/ /\ dev.family # "USB" /\ IsPrinted(dev.presets)
                  /\ Write([file EXCEPT !.devices = Append(@, DeviceInfo(dev))],
                           [file EXCEPT !.lost = @ \cup {next}])
            /\ next' = next + 1
            /\ UNCHANGED <<gpc, outcome, names>>
  /\ UNCHANGED <<database, upstream, tmp, runs, served>>

\* The end of the file is one byte: whether it gets there says nothing of the
\* writes before it.
Finish ==
  /\ gpc = "devices" /\ next > Len(upstream)
  /\ file' \in {file, [file EXCEPT !.whole = TRUE]}
  /\ Proceed("gofmt")
  /\ UNCHANGED <<database, upstream, next, names, tmp, runs, served>>

\* gofmt refuses a file that has no beginning or no end, but not one that has
\* too few records; it may take a torn one.  It writes the file anew.
GofmtFails_Ignored == FALSE
GofmtFails == ~file.torn /\ ~(file.begun /\ file.whole)

Gofmt ==
  /\ gpc = "gofmt"
  /\ \/ Fail /\ Stopped
     \/ /\ ~GofmtFails
        /\ gpc' = "idle" /\ outcome' = "ok"
        /\ UNCHANGED <<next, names, file>>
  /\ UNCHANGED <<database, upstream, tmp, runs, served>>

Kill ==
  /\ gpc # "idle"
  /\ Fail
  /\ IF gpc \in {"extract", "create"} THEN UNCHANGED file ELSE Stopped
  /\ UNCHANGED <<database, upstream, tmp, runs, served>>

\* The package is built, from the file as it is; if the compiler refuses that,
\* the program stays what it was.
Build ==
  /\ \/ /\ ~file.torn /\ Compiles(file)
        /\ ataDefaultAttributes' = Literal(file.defaults)
        /\ ataDevicesDatabase' = [i \in DOMAIN file.devices |->
                                    [file.devices[i] EXCEPT !.presets = Literal(@)]]
        /\ served' = [of |-> file.of, lost |-> file.lost]
     \/ /\ file.torn
        /\ \E m \in Mangled : /\ ataDefaultAttributes' = m.defaults
                              /\ ataDevicesDatabase' = m.devices
        /\ served' = [of |-> Unknown, lost |-> {}]
     \/ (file.torn \/ ~Compiles(file)) /\ UNCHANGED <<database, served>>
  /\ UNCHANGED <<gpc, upstream, next, names, file, tmp, outcome, runs>>

GenNext ==
  \/ Run \/ Extract \/ Create \/ Defaults \/ Device \/ Finish \/ Gofmt
  \/ Kill \/ Build

GenSpec == GenInit /\ [][GenNext]_gvars

-----------------------------------------------------------------------------
(* Properties.                                                             *)

\* The records that are not for USB devices, after the version and the defaults.
DrivesOf(u) == {i \in 3..Len(u) : u[i].family # "USB"}

\* Of a drivedb.h, what got into the file or the program.
Remaining(u, lost) == DrivesOf(u) \ lost

\* No write is checked.  A run that succeeds has written the beginning and the end of
\* the file all the same, since gofmt would notice; and between them, in their order,
\* the records that are not for USB devices, but for those whose writes have failed:
\* these nobody misses.  Only a write that fails within a part can make it otherwise.
SuccessMeansWritten ==
  outcome = "ok" /\ ~file.torn =>
    /\ file.begun /\ file.whole
    /\ \E of \in [DOMAIN file.devices -> Remaining(upstream, file.lost)] :
         /\ \A k, m \in DOMAIN of : k < m => of[k] < of[m]
         /\ \A i \in Remaining(upstream, file.lost) : \E k \in DOMAIN of : of[k] = i
         /\ \A k \in DOMAIN of : /\ file.devices[k].modelRe = upstream[of[k]].modelRe
                                 /\ file.devices[k].firmwareRe = upstream[of[k]].firmwareRe

\* What drivedb.h says of an attribute of a drive that its record i is for (2: no record
\* is): the option of the record if it has one, and what that leaves open by the defaults.
AttributesAt(u, i, id) == {k \in OptionsAt(u[i].presets, "-v") : u[i].presets[k].id = id}
Options(u, i, id) == {Modern(u[i].presets[k]) : k \in AttributesAt(u, i, id)}
AttributeOf(u, i, id) ==
  LET default == Options(u, 2, id)
      known   == {o.name : o \in default}
  IN  {[name |-> IF o.name = "" /\ known # {} THEN CHOOSE n \in known : TRUE ELSE o.name,
        type |-> attributeTypeId[o.type], order |-> o.order] :
          o \in IF Options(u, i, id) # {} THEN Options(u, i, id) ELSE default}
IdsOf(u, i) == {u[i].presets[k].id : k \in OptionsAt(u[i].presets, "-v")}

\* Of the records that are kept, those that are for a drive, and those one of whose
\* expressions does not compile.
RecordsFor(u, lost, model, firmware) == {i \in Remaining(u, lost) : IsMatch(u[i], model, firmware)}
Unreadable(u, lost) == {i \in Remaining(u, lost) : Malformed \in {u[i].modelRe, u[i].firmwareRe}}
FirstFor(u, lost, model, firmware) ==
  LET for == RecordsFor(u, lost, model, firmware)
  IN  IF for = {} THEN 2 ELSE CHOOSE i \in for : \A j \in for : i <= j

\* Whatever else became of the runs of the generator, a program that was built from a file
\* that is not torn says of every drive what one drivedb.h says without the records whose
\* writes have failed: the attributes of the first record left for the drive and those of
\* the defaults; and it opens a drive unless an expression before that record does not
\* compile.
LibraryServes ==
  served.of # Unknown => \A model \in Models, firmware \in Firmwares :
    LET u     == served.of
        r     == findAttributesMapping(model, firmware)
        first == FirstFor(u, served.lost, model, firmware)
        ids   == IdsOf(u, first) \cup IdsOf(u, 2)
    IN  IF r.err THEN \E i \in Unreadable(u, served.lost) : first = 2 \/ i < first
        ELSE /\ DOMAIN r.mapping = ids
             /\ \A id \in ids : {r.mapping[id]} = AttributeOf(u, first, id)
             /\ first # 2 => r.bug = BugsOf(u[first].presets)
=============================================================================
