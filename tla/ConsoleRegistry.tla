---------------------------- MODULE ConsoleRegistry ----------------------------
(***************************************************************************)
(* What the config flows promise together, with no dialogs, verifications  *)
(* or devices that move: a registry of entries.  An entry has one link,    *)
(* and may be sure of the one console behind it.  Links and consoles are   *)
(* never shared; an entry may be moved to another link, and become sure of *)
(* its console, but what it is sure of stays until it is removed.          *)
(***************************************************************************)
CONSTANTS Entries, Links, Consoles, None

VARIABLES
    line,   \* the link of each entry; None when there is no such entry
    sure    \* the console an entry is sure of, or None

registryVars == <<line, sure>>

(* Entry e, with link l and console c, shares nothing with the others. *)
Apart(e, l, c) ==
    \A o \in Entries \ {e} :
        /\ l # None => line[o] # l
        /\ c # None => sure[o] # c

RegistryInit ==
    /\ line \in [Entries -> Links \cup {None}]
    /\ sure \in [Entries -> Consoles \cup {None}]
    /\ \A e \in Entries :
          /\ line[e] = None => sure[e] = None
          /\ Apart(e, line[e], sure[e])

(* Nothing but entry e changes. *)
Only(e) ==
    /\ line' = [line EXCEPT ![e] = line'[e]]
    /\ sure' = [sure EXCEPT ![e] = sure'[e]]

(* Entry e comes to be, is moved, or becomes sure of its console. *)
Assign(e) ==
    /\ Only(e)
    /\ line'[e] \in Links
    /\ sure'[e] \in Consoles \cup {None}
    /\ sure[e] \in {None, sure'[e]}
    /\ Apart(e, line'[e], sure'[e])

Remove(e) == Only(e) /\ line'[e] = None /\ sure'[e] = None

RegistryNext == \E e \in Entries : Remove(e) \/ Assign(e)

RegistrySpec == RegistryInit /\ [][RegistryNext]_registryVars
=============================================================================
