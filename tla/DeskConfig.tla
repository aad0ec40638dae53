----------------------------- MODULE DeskConfig -----------------------------
(***************************************************************************)
(* What a user sets and what keeps it: the configuration in                *)
(* apps/controller/src/desk-store.ts (presets, overrides, placements,      *)
(* declared computers), the routes of server.ts that edit it, and the file *)
(* it is kept in (packages/config, apps/controller/src/index.ts), with     *)
(* crashes, restarts and debounced saves: each is a mkdir, a temporary     *)
(* file of its own and a rename, and nothing orders those that overlap.    *)
(***************************************************************************)
EXTENDS Naturals, SequencesExt

CONSTANTS
  Monitors,
  Computers,   \* computers with an agent
  Declared,    \* computers the user can declare by hand
  Names,       \* slugs of preset names
  IdsOf,       \* name -> the ids uniquePresetId tries, in order; names may share some
  Labels,      \* custom names
  Patches,     \* overrides a request may carry: [name, look], Keep where not given
  Spots,       \* columns the user may drag a monitor to
  Wirings,     \* wiring a request may set, <<monitor, computer>>, None to remove it
  Files,       \* what may be on disk at first, None for nothing
  MaxSaves,    \* bound: debounced saves in progress together
  Keep,
  Absent,
  None

VARIABLES
  disk,      \* desk-config.json: a file, or None
  aside,     \* files that were renamed to .invalid-...
  absorbed,  \* history: the file this process has loaded or written last
  proc,      \* "off", "booting", "up", "closing", "saving" or "ended"
  cfg,       \* deskConfig, the object the store edits and the saves read
  names,     \* customName of the monitors and computers that are known
  active,    \* desired.activePresetId
  saves,     \* where a save is kept -> the save in progress, or None
  timer,     \* saveTimer is set
  failed,    \* history: a save has failed, and what memory holds was not saved since
  overtaken  \* history: a save with more edits had landed before the one that landed last

diskSide == <<disk, aside, absorbed, failed, overtaken>>
deskSide == <<cfg, names, active>>
configVars == <<diskSide, deskSide, proc, saves, timer>>

PresetIds == UNION {{IdsOf[n][k] : k \in DOMAIN IdsOf[n]} : n \in Names}
Live == Monitors \cup Computers \cup Declared
Entities == Live \cup PresetIds

Looks == {None, "icon"}
Override == [name : Labels \cup {None}, look : Looks]
Bare == [name |-> None, look |-> None]
Placement == [x : Nat, auto : BOOLEAN]
Preset == [id : PresetIds, order : Nat, name : Labels \cup {None}, assigned : BOOLEAN]
Config == [presets : SUBSET Preset, overrides : [Entities -> Override],
           placed : [Monitors -> Placement \cup {None}], columns : Nat,
           manual : SUBSET Declared, wired : [Monitors -> Computers \cup Declared \cup {None}],
           last : PresetIds \cup {None}, age : Nat]

(* seedConfig without --seed: emptyDeskConfig; age is a history of how many edits a configuration holds. *)
Seed == [presets |-> {}, overrides |-> [e \in Entities |-> Bare],
         placed |-> [m \in Monitors |-> None], columns |-> 1,
         manual |-> {}, wired |-> [m \in Monitors |-> None], last |-> None, age |-> 0]

(***************************************************************************)
(* A file of the current version, one of version 1 with its customNames,   *)
(* JSON that does not fit the schema, and text that is not JSON.           *)
(***************************************************************************)
File(kind, config, customNames) == [kind |-> kind, config |-> config, customNames |-> customNames]
Current(config) == File("current", config, None)
Unusable(kind) == File(kind, None, None)

(***************************************************************************)
(* A save in progress: what is in its temporary file, None before that is  *)
(* written, and whether a save with more edits has landed since.           *)
(***************************************************************************)
Save == [content : {None} \cup [kind : {"current"}, config : Config, customNames : {None}],
         late : BOOLEAN]

ASSUME ConfigAssumption ==
  /\ IsFiniteSet(Monitors)
  /\ IdsOf \in [Names -> Seq(PresetIds)] /\ \A n \in Names : IdsOf[n] # <<>>
  /\ Patches \subseteq [name : Labels \cup {None, Keep}, look : Looks \cup {Keep}]
  /\ Wirings \subseteq Monitors \X (Computers \cup Declared \cup {None})
  /\ Spots \subseteq Nat /\ MaxSaves \in Nat /\ None \notin Placement \cup Save
  /\ \A f \in Files : f # None =>
       /\ f.kind \in {"current", "old", "invalid", "garbled"}
       /\ f.kind \in {"current", "old"} => f.config \in Config /\ IsFiniteSet(f.config.presets)

(* Where saves are kept: 0 is the one that main waits for, at the start and at the end. *)
SaveSlots == 0..MaxSaves
Begun == [content |-> None, late |-> FALSE]
Idle == [n \in SaveSlots |-> None]

Running == proc \notin {"off", "ended"}

ConfigTypeOK ==
  /\ disk = None \/ disk.kind \in {"current", "old", "invalid", "garbled"}
  /\ proc \in {"off", "booting", "up", "closing", "saving", "ended"}
  /\ cfg \in Config
  /\ names \in [Live -> Labels \cup {None, Absent}]
  /\ active \in PresetIds \cup {None}
  /\ saves \in [SaveSlots -> {None} \cup Save]
  /\ timer => proc = "up"
  /\ saves[0] # None <=> proc \in {"booting", "saving"}
  /\ failed \in BOOLEAN /\ overtaken \in BOOLEAN

-----------------------------------------------------------------------------
(* The functions of the store, as what they make of a configuration *)

IdsIn(config) == {p.id : p \in config.presets}

(* Faulty variant: the suffix counts the presets of that name, which may have lost one. *)
UniquePresetId_Counts(config, n) ==
  IdsOf[n][1 + Cardinality({k \in DOMAIN IdsOf[n] : IdsOf[n][k] \in IdsIn(config)})]
(***************************************************************************)
(* uniquePresetId: the first suffix that is free, which the second "Work"  *)
(* may have taken from "Work 2".  After 499 of a name the id ends in the   *)
(* time of day: below that bound one of IdsOf is free.                     *)
(***************************************************************************)
UniquePresetId(config, n) ==
  LET free == {k \in DOMAIN IdsOf[n] : IdsOf[n][k] \notin IdsIn(config)}
  IN  IdsOf[n][CHOOSE k \in free : \A other \in free : k <= other]

Highest(numbers) == CHOOSE k \in numbers : \A other \in numbers : other <= k

(* createPreset: behind all others. *)
Created(config, n) ==
  LET order == IF config.presets = {} THEN 0 ELSE 1 + Highest({p.order : p \in config.presets})
  IN  [config EXCEPT !.presets =
         @ \cup {[id |-> UniquePresetId(config, n), order |-> order, name |-> None, assigned |-> TRUE]}]

(* updatePreset: other assignments, which a capture that sees nothing leaves empty. *)
Updated(config, id, assigned) ==
  [config EXCEPT !.presets = {IF p.id = id THEN [p EXCEPT !.assigned = assigned] ELSE p : p \in @}]

(* deletePreset, but for the active preset; an override of it stays. *)
Deleted(config, id) == [config EXCEPT !.presets = {p \in @ : p.id # id}]

(* setOverride: fields that are not given stay; a bare override is no override. *)
Patched(override, patch) ==
  [name |-> IF patch.name = Keep THEN override.name ELSE patch.name,
   look |-> IF patch.look = Keep THEN override.look ELSE patch.look]
Overridden(config, e, next) ==
  [config EXCEPT !.overrides[e] = next,
                 !.presets = {IF p.id = e THEN [p EXCEPT !.name = next.name] ELSE p : p \in @}]

(* A monitor is one column wide; the grid grows to hold it. *)
PlacedAt(config, m, placement) ==
  [config EXCEPT !.placed[m] = placement,
                 !.columns = IF @ > placement.x THEN @ ELSE placement.x + 1]

(* ensurePlacement of a monitor without one: right of all others. *)
RightEdge(config) ==
  Highest({0} \cup {config.placed[m].x + 1 : m \in {m \in Monitors : config.placed[m] # None}})
AutoPlaced(config, m) == PlacedAt(config, m, [x |-> RightEdge(config), auto |-> TRUE])
EnsurePlacement(config, m) ==
  IF config.placed[m] # None THEN config ELSE AutoPlaced(config, m)

-----------------------------------------------------------------------------
(* Routes and reports *)

Serving == proc \in {"up", "closing"}

(* Faulty variant: an edit relies on the save that is in progress. *)
Edited_NotWhileSaving(config) ==
  /\ Serving
  /\ cfg' = [config EXCEPT !.age = @ + 1]
  /\ timer' = (timer \/ (proc = "up" /\ saves = Idle))
  /\ UNCHANGED <<diskSide, proc, saves>>
(* markConfigDirty: the first of several edits starts the debounce; after shutdown began none does. *)
Edited(config) ==
  /\ Serving
  /\ cfg' = [config EXCEPT !.age = @ + 1]
  /\ timer' = (timer \/ proc = "up")
  /\ UNCHANGED <<diskSide, proc, saves>>

(* A preset has assignments, given or captured: else the request is answered with 409. *)
CreatePreset(n) ==
  /\ \E k \in DOMAIN IdsOf[n] : IdsOf[n][k] \notin IdsIn(cfg)
  /\ Edited(Created(cfg, n))
  /\ UNCHANGED <<names, active>>

UpdatePreset(id, assigned) ==
  /\ id \in IdsIn(cfg)
  /\ Edited(Updated(cfg, id, assigned))
  /\ UNCHANGED <<names, active>>

DeletePreset(id) ==
  /\ id \in IdsIn(cfg)
  /\ Edited(Deleted(cfg, id))
  /\ active' = IF active = id THEN None ELSE active
  /\ UNCHANGED names

EntityExists(e) == e \in IdsIn(cfg) \/ (e \in Live /\ names[e] # Absent)

(***************************************************************************)
(* setOverride, with applyOverride, of a monitor, a computer or a preset;  *)
(* inputs and peripherals are named the same way.                          *)
(***************************************************************************)
SetOverride(e, patch) ==
  LET next == Patched(cfg.overrides[e], patch)
  IN  /\ EntityExists(e)
      /\ Edited(Overridden(cfg, e, next))
      /\ names' = IF e \in Live THEN [names EXCEPT ![e] = next.name] ELSE names
      /\ UNCHANGED active

SetPlacement(m, x) ==
  /\ names[m] # Absent
  /\ Edited(PlacedAt(cfg, m, [x |-> x, auto |-> FALSE]))
  /\ UNCHANGED <<names, active>>

(* declareComputer, with ensureComputer: a computer that is known keeps its name. *)
DeclareComputer(c) ==
  /\ Edited([cfg EXCEPT !.manual = @ \cup {c}])
  /\ names' = IF names[c] = Absent THEN [names EXCEPT ![c] = cfg.overrides[c].name] ELSE names
  /\ UNCHANGED active

(* setWiringOverride, of one input of each monitor. *)
SetWiringOverride(m, c) ==
  /\ names[m] # Absent /\ (c # None => names[c] # Absent)
  /\ Edited([cfg EXCEPT !.wired[m] = c])
  /\ UNCHANGED <<names, active>>

(* applyMonitorReports: monitors that are found get a place, one after the other, and a name. *)
Reported(reports) == FoldLeft(EnsurePlacement, cfg, reports)
Found(reports) ==
  [e \in Live |-> IF e \in Range(reports) THEN cfg.overrides[e].name ELSE names[e]]

(* An inventory; only a new place is an edit. *)
ReportMonitors(reports) ==
  /\ IF Reported(reports) = cfg THEN Serving /\ UNCHANGED <<cfg, diskSide, proc, saves, timer>>
     ELSE Edited(Reported(reports))
  /\ UNCHANGED active

Inventory(reports) ==
  /\ ReportMonitors(reports)
  /\ names' = Found(reports)

(* registerAgent: the computer of a hello, and its inventory. *)
Register(c, reports) ==
  /\ ReportMonitors(reports)
  /\ names' = [Found(reports) EXCEPT ![c] = cfg.overrides[c].name]

(* applyPreset, but for its commands. *)
ApplyPreset(id) ==
  /\ Serving
  /\ id \in IdsIn(cfg)
  /\ active' = id
  /\ UNCHANGED <<diskSide, cfg, names, proc, saves, timer>>

-----------------------------------------------------------------------------
(* The file *)

(* migrateV1ToV2: the names of all buckets become overrides, empty ones are dropped. *)
Migrated(file) ==
  [file.config EXCEPT !.overrides =
     [e \in Entities |-> IF e \in DOMAIN file.customNames /\ file.customNames[e] \in Labels
                         THEN [name |-> file.customNames[e], look |-> None] ELSE Bare]]

Is(kind) == disk # None /\ disk.kind = kind

Loaded ==
  CASE Is("current") -> disk.config
    [] Is("old") -> Migrated(disk)
    [] OTHER -> Seed

(* Only what does not fit the schema is set aside; text that is not JSON stays in place. *)
Quarantine ==
  IF Is("invalid") THEN disk' = None /\ aside' = aside \cup {disk} ELSE UNCHANGED <<disk, aside>>

Forgotten ==
  /\ names' = [e \in Live |-> Absent]
  /\ active' = None

(* main: load, or seed when there is nothing or an error, and save what came of it. *)
Start ==
  /\ ~Running
  /\ cfg' = Loaded
  /\ Quarantine
  /\ absorbed' = IF Is("current") \/ Is("old") THEN disk ELSE None
  /\ saves' = [Idle EXCEPT ![0] = Begun]
  /\ proc' = "booting"
  /\ failed' = FALSE /\ overtaken' = FALSE
  /\ Forgotten
  /\ UNCHANGED timer

(* The timer is over: edits from here on set another. *)
Debounce ==
  /\ timer
  /\ timer' = FALSE
  /\ \E n \in 1..MaxSaves :
       /\ saves[n] = None /\ \A k \in 1..(n - 1) : saves[k] # None
       /\ saves' = [saves EXCEPT ![n] = Begun]
  /\ UNCHANGED <<diskSide, deskSide, proc>>

(* Faulty variant: the file itself is written, so that half of it is there meanwhile. *)
WriteTemporary_InPlace(n) ==
  /\ Running
  /\ saves[n] # None /\ saves[n].content = None
  /\ saves' = [saves EXCEPT ![n].content = Current(cfg)]
  /\ disk' = Unusable("garbled")
  /\ UNCHANGED <<aside, absorbed, failed, overtaken, deskSide, proc, timer>>
(* save, after its mkdir: what is written is what the configuration then holds. *)
WriteTemporary(n) ==
  /\ Running
  /\ saves[n] # None /\ saves[n].content = None
  /\ saves' = [saves EXCEPT ![n].content = Current(cfg)]
  /\ UNCHANGED <<diskSide, deskSide, proc, timer>>

(* Where the process goes when a save ends: it waits for its first one, and for its last. *)
AfterSave(n, ok) ==
  CASE n = 0 /\ proc = "booting" -> IF ok THEN "up" ELSE "off"
    [] n = 0 /\ proc = "saving" -> IF ok THEN "ended" ELSE "off"
    [] OTHER -> proc

(* seedComputersFromConfig, of a desk without switches, whose ports name computers as well. *)
Seeded == cfg.manual \cup {cfg.wired[m] : m \in Monitors}

(* The store is built of a configuration that was saved, with the computers it names. *)
Settled(n, ok) ==
  /\ proc' = AfterSave(n, ok)
  /\ names' = IF n = 0 /\ proc = "booting" /\ ok
              THEN [e \in Live |-> IF e \in Seeded THEN cfg.overrides[e].name ELSE Absent]
              ELSE names
  /\ UNCHANGED <<aside, cfg, active, timer>>

(* The saves that are left when n lands; those that hold less are late from here on. *)
Behind(save, file) ==
  save # None /\ save.content # None /\ save.content.config.age < file.config.age
Without(n) ==
  [k \in SaveSlots |->
     IF k = n THEN None
     ELSE IF Behind(saves[k], saves[n].content) THEN [saves[k] EXCEPT !.late = TRUE] ELSE saves[k]]

(***************************************************************************)
(* The rename, of any save that has its temporary file; shutdown waits for *)
(* its own save only, so that the rename of another may follow it.         *)
(***************************************************************************)
Rename(n) ==
  /\ saves[n] # None /\ saves[n].content # None
  /\ disk' = saves[n].content
  /\ absorbed' = saves[n].content
  /\ saves' = Without(n)
  /\ failed' = (failed /\ saves[n].content # Current(cfg))
  /\ overtaken' = saves[n].late
  /\ Settled(n, TRUE)

(* A save fails, which is logged; at the start and the end it ends the process. *)
SaveFails(n) ==
  /\ Running
  /\ saves[n] # None
  /\ saves' = [saves EXCEPT ![n] = None]
  /\ failed' = TRUE
  /\ Settled(n, FALSE)
  /\ UNCHANGED <<disk, absorbed, overtaken>>

(* Faulty variant: the debounce goes on. *)
Shutdown_KeepsTimer ==
  /\ proc = "up"
  /\ proc' = "closing"
  /\ UNCHANGED <<diskSide, deskSide, saves, timer>>
(* shutdown: edits are not listened to any more, and the debounce is cancelled. *)
Shutdown ==
  /\ proc = "up"
  /\ proc' = "closing"
  /\ timer' = FALSE
  /\ UNCHANGED <<diskSide, deskSide, saves>>

(* The server is closed; what was wanted last is kept for display, as an edit, and all is saved. *)
Close ==
  /\ proc = "closing"
  /\ proc' = "saving"
  /\ cfg' = [cfg EXCEPT !.last = active, !.age = @ + 1]
  /\ saves' = [saves EXCEPT ![0] = Begun]
  /\ UNCHANGED <<diskSide, names, active, timer>>

Crash ==
  /\ Running
  /\ proc' = "off"
  /\ cfg' = Seed
  /\ saves' = Idle
  /\ timer' = FALSE
  /\ failed' = FALSE /\ overtaken' = FALSE
  /\ Forgotten
  /\ UNCHANGED <<disk, aside, absorbed>>

ConfigInit ==
  /\ disk \in Files
  /\ aside = {}
  /\ absorbed = None
  /\ proc = "off"
  /\ cfg = Seed
  /\ names = [e \in Live |-> Absent]
  /\ active = None
  /\ saves = Idle
  /\ timer = FALSE
  /\ failed = FALSE /\ overtaken = FALSE

-----------------------------------------------------------------------------
(* Properties *)

(***************************************************************************)
(* What is in the file is replaced only after it was set aside, or by a    *)
(* whole configuration that began with it and holds at least its edits,    *)
(* wherever the process ends.  One order of overlapping saves loses edits, *)
(* and no other: the rename of a save comes after that of a save with      *)
(* more edits, which had landed since the first took its content.          *)
(***************************************************************************)
DiskKeepsEdits ==
  [][disk' # disk =>
       \/ disk = None \/ disk \in aside'
       \/ /\ absorbed = disk /\ disk'.kind = "current"
          /\ disk'.config.age >= disk.config.age \/ overtaken']_configVars

(***************************************************************************)
(* docs/development.md:107: "An invalid file is moved aside rather than    *)
(* deleted, and the controller falls back to defaults."                    *)
(***************************************************************************)
InvalidIsSetAside ==
  [][disk' # disk /\ disk # None /\ disk.kind \in {"invalid", "garbled"} => disk \in aside']_configVars

(***************************************************************************)
(* An edit gets to the disk while the controller stays up and saves do not *)
(* fail, and a clean shutdown leaves nothing behind in memory; unless the  *)
(* save that lands last is one that a save with more edits has overtaken.  *)
(***************************************************************************)
EditsReachDisk ==
  /\ (<>[](proc = "up" /\ ~failed /\ ~overtaken)) => <>[](disk = Current(cfg))
  /\ [](proc = "ended" => disk = Current(cfg) \/ overtaken)

(* Presets can be told apart, and the grid holds every placement. *)
InOrder(config) ==
  /\ \A p, q \in config.presets : (p.id = q.id \/ p.order = q.order) => p = q
  /\ \A m \in Monitors : config.placed[m] # None => config.placed[m].x < config.columns

(* What is known is called what the user called it, before or after it was known. *)
NamesAgree(config, named) == \A e \in Live : named[e] # Absent => named[e] = config.overrides[e].name

(* A monitor that nobody moved stays, and one the controller places is put on no other. *)
PlacesAreRespected(before, after, moved) ==
  \A m \in Monitors :
    /\ before.placed[m] # None /\ m \notin moved => after.placed[m] = before.placed[m]
    /\ before.placed[m] = None /\ after.placed[m] # None /\ after.placed[m].auto =>
         \A other \in Monitors \ {m} :
           after.placed[other] # None => after.placed[other].x # after.placed[m].x

(* The configuration a step begins with: the one in memory, or what Start finds. *)
Held ==
  IF Running THEN cfg ELSE IF Is("current") \/ Is("old") THEN disk.config ELSE Seed

(***************************************************************************)
(* Edits, discoveries and restarts keep a configuration in order, whatever *)
(* a file that was edited by hand holds; what is active is a preset, what  *)
(* is known has its name, and only the user moves a monitor.               *)
(***************************************************************************)
PresetsAndPlaces ==
  [][/\ (Running \/ proc' = "booting") /\ InOrder(Held) => InOrder(cfg')
     /\ active' # None => active' \in IdsIn(cfg')
     /\ proc' = "up" => NamesAgree(cfg', names')
     /\ Serving /\ proc' # "off" =>
          PlacesAreRespected(cfg, cfg', {m \in Monitors : \E x \in Spots : SetPlacement(m, x)})]_configVars
=============================================================================
