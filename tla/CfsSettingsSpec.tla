--------------------------- MODULE CfsSettingsSpec ---------------------------
(***************************************************************************)
(* What the settings store promises to the scenes, with the file format    *)
(* left out: a start gives either the settings of one save as a whole or   *)
(* the defaults, never a mixture, and a save that reports success is what  *)
(* the next start gives.  It promises nothing about a save that fails or   *)
(* is cut off by a crash: the old settings may be gone by then.            *)
(*                                                                         *)
(* CfsSettings implements this module; CfsSpool uses it as its store.      *)
(***************************************************************************)

CONSTANTS
    Settings,   \* the settings a user can arrive at
    Default     \* the settings of a device without a (readable) file

ASSUME DefaultAssumption == Default \in Settings

VARIABLES
    settings,   \* app->settings
    stored,     \* what a load would give now
    saving,     \* is the GUI thread inside cfs_settings_save?
    saved,      \* did the last save succeed?
    running     \* is the application running?

storeVars == <<settings, stored, saving, saved, running>>

StoreTypeOK ==
    /\ settings \in Settings
    /\ stored \in Settings
    /\ saving \in BOOLEAN /\ saved \in BOOLEAN /\ running \in BOOLEAN

------------------------------------------------------------------------------

StoreInit ==
    /\ settings = Default
    /\ stored = Default
    /\ saving = FALSE
    /\ saved = TRUE
    /\ running = TRUE

\* A scene changes the settings and calls cfs_settings_save.
Change(s) ==
    /\ running /\ ~saving
    /\ settings' = s
    /\ saving' = TRUE
    /\ saved' = FALSE
    /\ UNCHANGED <<stored, running>>

\* The old file is gone.
Truncate ==
    /\ saving
    /\ stored' = Default
    /\ UNCHANGED <<settings, saving, saved, running>>

\* The new file is readable.
Persist ==
    /\ saving
    /\ stored' = settings
    /\ UNCHANGED <<settings, saving, saved, running>>

\* cfs_settings_save returns TRUE.
Commit ==
    /\ saving
    /\ stored = settings
    /\ saving' = FALSE
    /\ saved' = TRUE
    /\ UNCHANGED <<settings, stored, running>>

\* cfs_settings_save returns FALSE; no caller looks at it.
Abandon ==
    /\ saving
    /\ saving' = FALSE
    /\ stored' \in {stored, settings}
    /\ UNCHANGED <<settings, saved, running>>

\* The application is closed, or the device loses its power.
Stop ==
    /\ running
    /\ running' = FALSE
    /\ saving' = FALSE
    /\ stored' \in IF saving THEN {stored, settings} ELSE {stored}
    /\ UNCHANGED <<settings, saved>>

Start ==
    /\ ~running
    /\ running' = TRUE
    /\ settings' = stored
    /\ saved' = TRUE
    /\ UNCHANGED <<stored, saving>>

------------------------------------------------------------------------------

StoreNext ==
    \/ \E s \in Settings : Change(s)
    \/ Truncate \/ Persist \/ Commit \/ Abandon
    \/ Stop \/ Start

StoreSpec == StoreInit /\ [][StoreNext]_storeVars

\* A save that reported success is what the next start gives.
StoreSavedSurvives == saved /\ ~saving => stored = settings
==============================================================================
