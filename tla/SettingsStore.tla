---------------------------- MODULE SettingsStore ----------------------------
(***************************************************************************)
(* What the settings promise to the rest of the firmware: a configuration  *)
(* is stored and adopted as a whole or not at all, and a restart comes up  *)
(* with what is stored or, if nothing whole is, with the defaults.  A save *)
(* that does not get to its end may lose what was stored before it.        *)
(***************************************************************************)
CONSTANTS Whole,    \* the configurations
          Factory,  \* the default configuration
          Nothing   \* no whole configuration

VARIABLES stored, adopted

storeVars == <<stored, adopted>>

OrFactory(s) == IF s = Nothing THEN Factory ELSE s

StoreInit == stored \in Whole \cup {Nothing} /\ adopted = OrFactory(stored)

Save == \E c \in Whole : stored' = c /\ adopted' = c

Lose == stored' = Nothing /\ UNCHANGED adopted

\* On the way down the stored configuration may be lost, on the way up it may
\* be repaired.
Restart ==
  \E s \in {stored, Nothing} :
    adopted' = OrFactory(s) /\ stored' \in {s, OrFactory(s)}

StoreNext == Save \/ Lose \/ Restart

StoreSpec == StoreInit /\ [][StoreNext]_storeVars
=============================================================================
