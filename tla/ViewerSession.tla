---------------------------- MODULE ViewerSession ----------------------------
(***************************************************************************)
(* src/mainwindow.cpp: what the viewer shows across a sequence of loads.   *)
(* A load (LoadInput, LoadInputImpl) replaces the data store, a process-   *)
(* wide cache of waves, the selected wave and several non-owning pointers  *)
(* into the store; it may fail on the way, and in Replace mode a failure   *)
(* puts part of the previous session back.                                 *)
(*                                                                         *)
(* Handlers run to completion on the Qt event loop, one at a time.  A      *)
(* store is named by the load that made it.  Paths are what the user can   *)
(* open: ui_output directories, directories of .att files, single .att     *)
(* files and SPM files.  A file is a number, in the order of std::sort.    *)
(***************************************************************************)
EXTENDS Naturals, Sequences, FiniteSets

CONSTANTS
  JsonDirs, AttDirs, SpmFiles,
  Files,      \* the .att files, a set of numbers
  FilesIn,    \* of each directory of AttDirs, the files in it
  CaptureOf,  \* of each file, its (agent, dispatch)
  WaveIds,    \* the wave ids a capture may generate; they repeat across captures
  NoPath,     \* the empty path
  MaxLoads    \* bound on the loads of a session

Paths == JsonDirs \cup AttDirs \cup SpmFiles \cup Files

ASSUME InputAssumption ==
  /\ MaxLoads \in Nat
  /\ Files \subseteq Nat
  /\ FilesIn \in [AttDirs -> SUBSET Files]
  /\ Files = DOMAIN CaptureOf
  /\ NoPath \notin Paths

VARIABLES
  running,    \* the process has not been ended by a null pointer or an exception
  store,      \* data_store
  opened,     \* the path of every store made, in order
  current,    \* current_path
  last,       \* lastPath, the key of what was loaded last
  spm,        \* current_spm_path
  shader,     \* the store shaderdata_manager points into, 0 when null
  selector,   \* the store the selectors refer to
  views,      \* the store the wave views point into
  main,       \* the store main_wave was loaded for, 0 when null
  cache,      \* of each cache key, the store its wave was loaded for
  asked,      \* the .att files the last load was asked for
  status      \* of the last load

restored == <<store, current, last, spm, shader>>
widgets == <<selector, views, main>>
sessionVars ==
  <<running, store, opened, current, last, spm, shader,
    selector, views, main, cache, asked, status>>

loads == Len(opened)

Att(path) == path \in AttDirs \cup Files

(* detectInput: the files of a directory, or the one file. *)
Detected(path) ==
  IF path \in AttDirs THEN FilesIn[path] ELSE IF path \in Files THEN {path} ELSE {}

(* The waves of a ui_output directory are cached under its path, those of *)
(* decoded captures under generated ids.                                  *)
Keys == (JsonDirs \cup {"att"}) \X WaveIds
KeysOf(path) ==
  IF path \in JsonDirs THEN {path} \X WaveIds
  ELSE IF Att(path) THEN {"att"} \X WaveIds
  ELSE {}

(* A store that was filled holds a trace, or SPM counters. "files" are what *)
(* loadTrace read: it detects the path again, whatever was selected.        *)
Filled(path) == [id |-> loads + 1, path |-> path, files |-> Detected(path), whole |-> TRUE]
Broken(path) == [id |-> loads + 1, path |-> path, files |-> {}, whole |-> FALSE]
NoStore == [id |-> 0, path |-> NoPath, files |-> {}, whole |-> FALSE]

HasTrace == store.whole /\ store.path \notin SpmFiles
(* A load that failed may have left part of a trace in its store. *)
MayHaveTrace == store.path \notin SpmFiles \cup {NoPath}

Only(keys, id) == [k \in Keys |-> IF k \in keys THEN id ELSE 0]
Filling(keys) == [k \in Keys |-> IF k \in keys /\ cache[k] = 0 THEN store.id ELSE cache[k]]

(* lastPath: the picked files are part of the key. *)
Key(path, files) == <<path, IF Att(path) THEN files ELSE {}>>
NoKey == <<NoPath, {}>>

SessionInit ==
  /\ running = TRUE
  /\ store = NoStore /\ opened = <<>>
  /\ current = NoPath /\ last = NoKey /\ spm = NoPath
  /\ shader = 0 /\ selector = 0 /\ views = 0 /\ main = 0
  /\ cache = [k \in Keys |-> 0]
  /\ asked = {} /\ status = "none"

------------------------------------------------------------------------------
(* Bugs this code could have, one per property below: each stands in for the *)
(* operator named after the dash and must break its property.                *)

(* KeepLoaded - current_spm_path set for every kind of input. *)
SpmPathAlways(replace, path, files) ==
  /\ store' = Filled(path) /\ current' = path /\ last' = Key(path, files)
  /\ shader' \in (IF path \in SpmFiles THEN {0} ELSE {0, loads + 1})
  /\ spm' = path

(* ShowLoaded - InvalidadeCache left out. *)
CacheKept(path) ==
  /\ loads < MaxLoads /\ opened' = Append(opened, path)
  /\ cache' = [k \in Keys |-> IF k \in KeysOf(path) /\ cache[k] = 0 THEN loads + 1 ELSE cache[k]]
  /\ selector' = loads + 1
  /\ main' = (IF path \in SpmFiles THEN 0 ELSE loads + 1)
  /\ views' = (IF path \in SpmFiles THEN 0 ELSE loads + 1)
  /\ UNCHANGED running

(* LoadFails - shaderdata_manager not cleared before the store is replaced. *)
PointerKept(replace, path, files, key) ==
  /\ loads < MaxLoads /\ opened' = Append(opened, path)
  /\ status' = "failed" /\ asked' = files
  /\ main' = 0
  /\ \E keys \in SUBSET KeysOf(path) : cache' = Only(keys, loads + 1)
  /\ IF replace
       THEN UNCHANGED restored
       ELSE store' = Broken(path) /\ current' = path /\ last' = key /\ UNCHANGED <<spm, shader>>
  /\ UNCHANGED <<running, selector, views>>

(* LoadFails - current_path not among what a failed Replace puts back. *)
PathNotRestored(replace, path, files, key) ==
  /\ loads < MaxLoads /\ opened' = Append(opened, path)
  /\ status' = "failed" /\ asked' = files
  /\ main' = 0 /\ current' = path
  /\ \E keys \in SUBSET KeysOf(path) : cache' = Only(keys, loads + 1)
  /\ IF replace
       THEN UNCHANGED <<store, last, spm, shader>>
       ELSE store' = Broken(path) /\ last' = key /\ shader' = 0 /\ UNCHANGED spm
  /\ UNCHANGED <<running, selector, views>>

------------------------------------------------------------------------------
(* LoadInputImpl *)

(* Nothing recognised, the dispatch dialog cancelled, or no decoder in this *)
(* build: the load ends before it touches anything.                         *)
LoadRefused(key) ==
  /\ status' = "failed" /\ last' = key
  /\ UNCHANGED <<running, store, opened, current, spm, shader, widgets, cache, asked>>

(* The input is the one loaded last. *)
Skipped(path, files, key) ==
  /\ Key(path, files) = key
  /\ status' = "skipped" /\ asked' = files
  /\ UNCHANGED <<running, store, opened, current, last, spm, shader, widgets, cache>>

(* loadTrace or loadSpmForTrace fails.  By then the caches were cleared and *)
(* a new store made; loadTrace may have cached some of the new waves.       *)
LoadFails(replace, path, files, key) ==
  /\ loads < MaxLoads /\ opened' = Append(opened, path)
  /\ status' = "failed" /\ asked' = files
  /\ main' = 0
  /\ \E keys \in SUBSET KeysOf(path) : cache' = Only(keys, loads + 1)
  /\ IF replace
       THEN UNCHANGED restored
       ELSE /\ store' = Broken(path) /\ current' = path /\ last' = key
            /\ shader' = 0 /\ UNCHANGED spm
  /\ UNCHANGED <<running, selector, views>>

(* The widgets after the data was loaded: new selectors, whose constructors *)
(* select the first wave and gather the views.                              *)
ShowLoaded(path) ==
  /\ loads < MaxLoads /\ opened' = Append(opened, path)
  /\ cache' = Only(KeysOf(path), loads + 1)
  /\ selector' = loads + 1
  /\ main' = (IF path \in SpmFiles THEN 0 ELSE loads + 1)
  /\ views' = (IF path \in SpmFiles THEN 0 ELSE loads + 1)
  /\ UNCHANGED running

(* Data with shader data sets the pointer into it; an SPM file attached *)
(* earlier is aligned with the new trace, or dropped if that fails.     *)
KeepLoaded(replace, path, files) ==
  /\ store' = Filled(path) /\ current' = path /\ last' = Key(path, files)
  /\ shader' \in (IF path \in SpmFiles THEN {0} ELSE {0, loads + 1})
  /\ IF path \in SpmFiles THEN spm' = path
     ELSE spm' \in {NoPath} \cup (IF replace THEN {} ELSE {spm})

Loaded(replace, path, files) ==
  /\ ShowLoaded(path) /\ KeepLoaded(replace, path, files)
  /\ status' = "success" /\ asked' = files

(* A plot throws after everything was shown. *)
PlotsFail(replace, path, files) ==
  /\ ShowLoaded(path)
  /\ IF replace THEN UNCHANGED restored ELSE KeepLoaded(replace, path, files)
  /\ status' = "failed" /\ asked' = files

(* The dispatch dialog: exactly one capture when there are several. *)
Selections(files) ==
  LET captures == {CaptureOf[f] : f \in files}
  IN IF Cardinality(captures) > 1
     THEN {{f \in files : CaptureOf[f] = c} : c \in captures}
     ELSE {files}

(* LoadInput: "replace" starts from an empty lastPath and restores the *)
(* session's data on any failure.                                      *)
LoadInput(replace, path, files, key) ==
  LET before == IF replace THEN NoKey ELSE key
      after == IF replace THEN last ELSE key
  IN
  \/ LoadRefused(after)
  \/ \E chosen \in Selections(files) :
       \/ Skipped(path, chosen, before)
       \/ /\ Key(path, chosen) # before
          /\ \/ LoadFails(replace, path, chosen, after)
             \/ Loaded(replace, path, chosen)
             \/ PlotsFail(replace, path, chosen)

------------------------------------------------------------------------------
(* The user *)

(* SetJsonsFolder: any directory. *)
OpenFolder ==
  /\ running
  /\ \E path \in JsonDirs \cup AttDirs : LoadInput(TRUE, path, Detected(path), last)

(* OpenAttFiles: the picked files, under the path of the first. *)
OpenAttFiles ==
  /\ running
  /\ \E picked \in SUBSET Files : \E first \in picked :
       /\ \A f \in picked : first <= f
       /\ LoadInput(TRUE, first, picked, last)

(* OpenSpmJson attaches to a loaded trace, otherwise it loads the file. *)
AttachSpm ==
  /\ running /\ MayHaveTrace
  /\ spm' \in SpmFiles
  /\ UNCHANGED <<running, store, opened, current, last, shader, widgets, cache, asked, status>>

OpenSpm ==
  /\ running /\ ~HasTrace
  /\ \E path \in SpmFiles : LoadInput(FALSE, path, {}, last)

(* OpenRocpd: RocpdEmitter::run throws and nothing catches it. *)
OpenRocpd ==
  /\ running /\ running' = FALSE
  /\ UNCHANGED <<store, opened, current, last, spm, shader, widgets, cache, asked, status>>

(* Another theme, or the wave-state option: lastPath is cleared and *)
(* ResetSelector loads current_path again.                          *)
ReloadCurrent ==
  /\ running /\ current # NoPath
  /\ LoadInput(FALSE, current, Detected(current), NoKey)

(* GatherWaves loads the visible waves and points the views into the store. *)
Gather(chosen) ==
  /\ \E keys \in SUBSET KeysOf(store.path) : cache' = Filling(chosen \cup keys)
  /\ views' = store.id

(* SetMainWave, from the selectors: getWave takes the cached wave of the    *)
(* key or loads it from the store; a wave that does not load leaves no main *)
(* wave.  The views are gathered if there was none, or the shader engine or *)
(* the visible range changes.                                               *)
SetMainWave ==
  /\ running /\ selector = store.id /\ HasTrace
  /\ \E k \in KeysOf(store.path) :
       /\ main' \in (IF cache[k] # 0 THEN {cache[k]} ELSE {0, store.id})
       /\ \/ main' = 0 /\ UNCHANGED <<views, cache>>
          \/ main' # 0 /\ main # 0 /\ cache' = Filling({k}) /\ UNCHANGED views
          \/ main' # 0 /\ Gather({k})
  /\ UNCHANGED <<running, restored, opened, selector, asked, status>>

(* A selector whose store was destroyed reads freed memory.  *)
UseDeadSelector ==
  /\ running /\ selector \notin {0, store.id}
  /\ running' \in BOOLEAN
  /\ UNCHANGED <<restored, opened, widgets, cache, asked, status>>

(* UpdateWaveViewRange, with a range outside what was gathered: GatherWaves *)
(* dereferences main_wave before it looks whether there is one.             *)
EditRange ==
  /\ running /\ MayHaveTrace
  /\ \/ main # 0 /\ Gather({}) /\ UNCHANGED running
     \/ main = 0 /\ running' = FALSE /\ UNCHANGED <<views, cache>>
  /\ UNCHANGED <<restored, opened, selector, main, asked, status>>

SessionNext ==
  \/ OpenFolder \/ OpenAttFiles \/ AttachSpm \/ OpenSpm \/ OpenRocpd \/ ReloadCurrent
  \/ SetMainWave \/ UseDeadSelector \/ EditRange

SessionSpec == SessionInit /\ [][SessionNext]_sessionVars

------------------------------------------------------------------------------
(* Properties *)

SessionTypeOK ==
  /\ running \in BOOLEAN
  /\ opened \in Seq(Paths) /\ loads <= MaxLoads
  /\ store.id \in 0 .. loads /\ store.path \in Paths \cup {NoPath}
  /\ store.files \subseteq Files /\ store.whole \in BOOLEAN
  /\ current \in Paths \cup {NoPath} /\ spm \in SpmFiles \cup {NoPath}
  /\ last[1] \in Paths \cup {NoPath} /\ last[2] \subseteq Files
  /\ {shader, selector, views, main} \subseteq 0 .. loads
  /\ cache \in [Keys -> 0 .. loads]
  /\ asked \subseteq Files
  /\ status \in {"none", "success", "skipped", "failed"}

(* After a load that succeeded, and whatever is clicked until the next     *)
(* load, everything the viewer shows or would show belongs to the store it *)
(* loaded: no wave, selector or view of an earlier trace survives.         *)
SuccessIsClean ==
  status = "success" =>
    /\ current = store.path /\ selector = store.id
    /\ {shader, views, main} \cup {cache[k] : k \in Keys} \subseteq {0, store.id}

(* "Clear non-owning pointer before resetting data_store (which owns the     *)
(* memory)": shaderdata_manager never points into a destroyed store, through *)
(* failures, restorations and reloads.                                       *)
ShaderDataAlive == shader \in {0, store.id}

(* current_path is the "source-of-truth for what is loaded": as long as the *)
(* viewer holds a complete trace, reloading current_path asks for it again. *)
ReloadShowsTheSame == store.whole => current = store.path

(* "Pop the dispatch selector so the user picks exactly one capture": what *)
(* a successful load shows is what was picked.                             *)
SelectionHonoured == status = "success" => store.files = asked

(* "Clear these process-wide caches before emitters resolve markers or    *)
(* lazily load any waves for the incoming trace": no wave of one trace is *)
(* ever served for another.                                               *)
CacheOfStore ==
  HasTrace => \A k \in KeysOf(store.path) : cache[k] # 0 => opened[cache[k]] = store.path
=============================================================================
