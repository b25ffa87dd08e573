---------------------------- MODULE AtomicInstall ----------------------------
(***************************************************************************)
(* What the installer promises about an installation, as seen by whoever     *)
(* next holds the operation lock.  An operation stages an update: the entries *)
(* it will replace and the release it will replace them with.  After that    *)
(* the update either happens, to exactly those entries and all of them at    *)
(* once, or is abandoned without a trace.  Nothing else ever changes.        *)
(***************************************************************************)
EXTENDS Integers

CONSTANTS
  Slots,      \* the paths of the installation that updates replace
  Releases,   \* contents an update can install
  Absent      \* what a path that does not exist holds

VARIABLES
  files,      \* what each path holds
  settings,   \* the runtime configuration
  staged      \* the update under way: the slots it replaces and their contents

Nothing == [part |-> {}, release |-> 0]

Init ==
  /\ files \in [Slots -> {0, Absent}]
  /\ settings \in [exists : BOOLEAN, dvd : {0}, retro : {0}]
  /\ staged = Nothing

Stage ==
  /\ staged = Nothing
  /\ staged' \in [part : (SUBSET Slots) \ {{}}, release : Releases]
  /\ UNCHANGED <<files, settings>>

\* All staged slots and no other.  Which of the two settings an update owns is
\* up to the operation; they change only with the files.
Update ==
  /\ staged # Nothing
  /\ files' = [s \in Slots |-> IF s \in staged.part THEN staged.release ELSE files[s]]
  /\ \/ UNCHANGED settings
     \/ settings' \in [exists : {TRUE},
                       dvd   : {settings.dvd, staged.release},
                       retro : {settings.retro, staged.release}]
  /\ staged' = Nothing

Abandon ==
  /\ staged # Nothing
  /\ staged' = Nothing
  /\ UNCHANGED <<files, settings>>

Spec == Init /\ [][Stage \/ Update \/ Abandon]_<<files, settings, staged>>
=============================================================================
