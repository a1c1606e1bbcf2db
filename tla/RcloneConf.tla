----------------------------- MODULE RcloneConf -----------------------------
(***************************************************************************)
(* The rclone config Copyarr owns.  At start-up                            *)
(* EnsureWritableRcloneConfig imports the file the administrator mounted   *)
(* read-only, once, through a temporary file and a rename; from then on    *)
(* only the remotes API changes the copy.  A file is the set of remotes it *)
(* defines; a file that was only partly written is Torn.                   *)
(***************************************************************************)
EXTENDS Integers

CONSTANTS
    Remotes,
    NoFile, HalfLine,   \* what stands for the content of a file that is not there, or torn
    MaxStops        \* bound on crashes and failed starts

ASSUME FilesAssumption ==
    /\ NoFile \notin Remotes /\ HalfLine \notin Remotes /\ NoFile # HalfLine
    /\ MaxStops \in Nat

Absent == {NoFile}      \* no such file
Torn == {HalfLine}      \* a file whose writing was interrupted

VARIABLES
    source,         \* the mounted config
    conf,           \* the config in the data directory
    staged,         \* the temporary file of an import
    boot,           \* where start-up is
    stops

confVars == <<source, conf, staged, boot, stops>>

Files == (SUBSET Remotes) \cup {Absent, Torn}
Boots == {"down", "stat", "import", "copy", "install", "load", "ready"}

ConfTypeOK ==
    /\ source \in (SUBSET Remotes) \cup {Absent}
    /\ {conf, staged} \subseteq Files
    /\ boot \in Boots
    /\ stops \in 0 .. MaxStops

ConfInit ==
    /\ source \in (SUBSET Remotes) \cup {Absent}
    /\ conf = Absent /\ staged = Absent
    /\ boot = "down" /\ stops = 0

Launch == boot = "down" /\ boot' = "stat" /\ UNCHANGED <<source, conf, staged, stops>>

\* Mutant of StatConf: every start imports.
StatConfAlwaysImports ==
    /\ boot = "stat" /\ boot' = "import"
    /\ UNCHANGED <<source, conf, staged, stops>>

\* A config that is there already is used as it is.
StatConf ==
    /\ boot = "stat"
    /\ boot' = IF conf = Absent THEN "import" ELSE "load"
    /\ UNCHANGED <<source, conf, staged, stops>>

CreateEmpty ==
    /\ boot = "import" /\ source = Absent
    /\ conf' = {} /\ boot' = "load"
    /\ UNCHANGED <<source, staged, stops>>

\* Mutant of Stage: copying straight into place, without the temporary file.
StageInPlace ==
    /\ boot = "import" /\ source # Absent
    /\ conf' = Torn /\ boot' = "copy"
    /\ UNCHANGED <<source, staged, stops>>

\* A fresh temporary file: one that a crash left behind is never looked at.
Stage ==
    /\ boot = "import" /\ source # Absent
    /\ staged' = Torn /\ boot' = "copy"
    /\ UNCHANGED <<source, conf, stops>>

CopySource ==
    /\ boot = "copy"
    /\ staged' = source /\ boot' = "install"
    /\ UNCHANGED <<source, conf, stops>>

Install ==
    /\ boot = "install"
    /\ conf' = staged /\ staged' = Absent /\ boot' = "load"
    /\ UNCHANGED <<source, stops>>

\* Start-up gives up: main exits, and an import removes its temporary file first.
StartFails ==
    /\ boot \in {"stat", "import", "copy", "install", "load"} /\ stops < MaxStops
    /\ staged' = IF boot \in {"copy", "install"} THEN Absent ELSE staged
    /\ boot' = "down" /\ stops' = stops + 1
    /\ UNCHANGED <<source, conf>>

\* The process is killed: nothing deferred runs.
Crash ==
    /\ boot # "down" /\ stops < MaxStops
    /\ boot' = "down" /\ stops' = stops + 1
    /\ UNCHANGED <<source, conf, staged>>

\* The administrator edits the mounted file (an edit made while the process runs shows
\* only at the next start).
EditSource ==
    /\ boot \notin {"load", "ready"}
    /\ source' \in (SUBSET Remotes) \ {source}
    /\ UNCHANGED <<conf, staged, boot, stops>>

StartStep == Launch \/ StatConf \/ CreateEmpty \/ Stage \/ CopySource \/ Install

-----------------------------------------------------------------------------
\* Whatever interrupted an earlier start, the process runs on a config that was
\* written completely: a torn one is never taken for an import that had finished.
RunsOnWholeConfig == boot \in {"load", "ready"} => conf \in SUBSET Remotes

\* Once there is a config, only the remotes API changes it: no later start imports
\* the mounted file over remotes that were made in the UI.
OwnedConfigStays == [][conf # Absent => conf' = conf \/ boot = "ready"]_confVars
=============================================================================
