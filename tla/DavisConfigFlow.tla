---------------------------- MODULE DavisConfigFlow ----------------------------
(***************************************************************************)
(* The entries of the integration and the flows that create and change     *)
(* them: config_flow.py, verification.py and async_migrate_entry.  Several *)
(* flows may be open at a time; each waits for its user between the steps  *)
(* of a dialog, while devices are plugged, moved and pulled and entries    *)
(* come and go, so what a flow verified may be out of date when it ends.   *)
(*                                                                         *)
(* A device stands for a logger or console: it is its own strong identity  *)
(* (its USB serial number) and its own path under /dev/serial/by-id, if it *)
(* has them.  An entry id stands for the identity generated for it.        *)
(***************************************************************************)
CONSTANTS
    Ids,          \* config entries there may be
    Ports,        \* paths bound to a place, e.g. COM3 or a by-path name
    Devices,
    Serials,      \* the devices with a USB serial number
    ById,         \* the devices the host also names by what they are
    Loop2Devices, \* the devices that answer LOOP2
    Flows,        \* dialogs that may be open at a time
    Nothing

Paths == Ports \cup ById

(* The data and options of an entry that are kept here, and what a
   verification returns. *)
Entry == [link : Paths, identity : Ids \cup Devices, uid : Ids \cup Devices,
          strength : {"strong", "weak"}, loop2 : BOOLEAN, useLoop2 : BOOLEAN]
Result == [endpoint : Paths, identity : Devices \cup Paths,
           strength : {"strong", "weak"}, loop2 : BOOLEAN]

ASSUME ConfigAssumption ==
    /\ Serials \subseteq Devices /\ ById \subseteq Devices
    /\ Loop2Devices \subseteq Devices
    /\ Ids \cap Devices = {} /\ Ports \cap Devices = {}
    /\ Nothing \notin Ids \cup Ports \cup Devices
    /\ Nothing \notin Entry /\ Nothing \notin Result

VARIABLES
    at,        \* the device at each port, or Nothing
    entries,   \* the config entries: records, or Nothing
    step,      \* the step of each flow, or "none"
    target,    \* the entry a flow reconfigures; Nothing for a new one
    link,      \* the interface submitted last
    found      \* self.verification

flowVars == <<step, target, link, found>>
vars == <<at, entries, flowVars>>

Steps == {"none", "interface", "verifying", "verify", "options"}
Configured == {e \in Ids : entries[e] # Nothing}

(* The device a path leads to; a by-id path leads to its device anywhere. *)
DeviceAt(path) ==
    IF path \in Ports THEN at[path]
    ELSE IF \E p \in Ports : at[p] = path THEN path ELSE Nothing

(* canonicalize_serial_endpoint *)
Endpoint(path) == IF DeviceAt(path) \in ById THEN DeviceAt(path) ELSE path

(* _serial_identity: the serial number, or a weak one made of the path. *)
Strength(path) == IF DeviceAt(path) \in Serials THEN "strong" ELSE "weak"
SerialIdentity(path) ==
    IF Strength(path) = "strong" THEN DeviceAt(path) ELSE path

(* async_migrate_entry: entry e of the old version, for path; the device need
   not be there.  loop2 is the old option. *)
Migrated(e, path, loop2) ==
    LET strong == Strength(Endpoint(path)) = "strong"
        id     == IF strong THEN SerialIdentity(Endpoint(path)) ELSE e
    IN [link |-> Endpoint(path), identity |-> id, uid |-> id,
        strength |-> Strength(Endpoint(path)),
        loop2 |-> loop2, useLoop2 |-> loop2]

Plugged == {f \in [Ports -> Devices \cup {Nothing}] :
               \A p, q \in Ports : f[p] = f[q] /\ p # q => f[p] = Nothing}

(* After the start of Home Assistant: the entries an old version left, at most
   one for a port, have been migrated; LOOP2 was used where it works. *)
Init ==
    /\ at \in Plugged
    /\ \E old \in [Ids -> Ports \cup {Nothing}] :
          /\ \A d, e \in Ids : old[d] = old[e] /\ d # e => old[d] = Nothing
          /\ \E loop2 \in [Ids -> BOOLEAN] :
                /\ \A e \in Ids : loop2[e] =>
                       old[e] # Nothing /\ at[old[e]] \in Loop2Devices
                /\ entries = [e \in Ids |->
                       IF old[e] = Nothing THEN Nothing
                       ELSE Migrated(e, old[e], loop2[e])]
    /\ step = [f \in Flows |-> "none"]
    /\ target = [f \in Flows |-> Nothing]
    /\ link = [f \in Flows |-> Nothing]
    /\ found = [f \in Flows |-> Nothing]

-----------------------------------------------------------------------------
(* Flow f ends: created, aborted, or its dialog closed. *)
EndFlow(f) ==
    /\ step' = [step EXCEPT ![f] = "none"]
    /\ target' = [target EXCEPT ![f] = Nothing]
    /\ link' = [link EXCEPT ![f] = Nothing]
    /\ found' = [found EXCEPT ![f] = Nothing]

(* async_step_user and async_step_reconfigure show the selector. *)
StartUser(f) ==
    /\ step[f] = "none"
    /\ step' = [step EXCEPT ![f] = "interface"]
    /\ UNCHANGED <<at, entries, target, link, found>>

StartReconfigure(f, e) ==
    /\ step[f] = "none" /\ e \in Configured
    /\ step' = [step EXCEPT ![f] = "interface"]
    /\ target' = [target EXCEPT ![f] = e]
    /\ UNCHANGED <<at, entries, link, found>>

SubmitLink(f, path) ==
    /\ step[f] = "interface"
    /\ step' = [step EXCEPT ![f] = "verifying"]
    /\ link' = [link EXCEPT ![f] = path]
    /\ found' = [found EXCEPT ![f] = Nothing]
    /\ UNCHANGED <<at, entries, target>>

(* No baud rate opens the port or wakes the console: back to the selector. *)
VerifyFails(f) ==
    /\ step[f] = "verifying"
    /\ step' = [step EXCEPT ![f] = "interface"]
    /\ UNCHANGED <<at, entries, target, link, found>>

(* verify_serial: the LOOP2 probe may fail on a device that answers it. *)
VerifySerial(f) ==
    LET path == Endpoint(link[f])
    IN /\ step[f] = "verifying" /\ DeviceAt(path) # Nothing
       /\ \E loop2 \in BOOLEAN :
             /\ loop2 => DeviceAt(path) \in Loop2Devices
             /\ found' = [found EXCEPT ![f] =
                   [endpoint |-> path, identity |-> SerialIdentity(path),
                    strength |-> Strength(path), loop2 |-> loop2]]
       /\ step' = [step EXCEPT ![f] = "verify"]
       /\ UNCHANGED <<at, entries, target, link>>

(* The user confirms what was detected. *)
ConfirmNew(f) ==
    /\ step[f] = "verify" /\ target[f] = Nothing
    /\ step' = [step EXCEPT ![f] = "options"]
    /\ UNCHANGED <<at, entries, target, link, found>>

(* Mutants of UidTaken and LinkTaken: the check is dropped. *)
UidNotChecked(uid, others) == FALSE
LinkNotChecked(path, others) == FALSE

UidTaken(uid, others) == \E o \in others : entries[o].uid = uid
LinkTaken(path, others) == \E o \in others : entries[o].link = path

(* async_step_options: an unsupported LOOP2 leaves the form open; otherwise
   the flow ends, and in a new entry e unless it is configured already. *)
SubmitOptions(f, e, useLoop2) ==
    LET r  == found[f]
        id == IF r.strength = "strong" THEN r.identity ELSE e
    IN /\ step[f] = "options" /\ e \in Ids \ Configured
       /\ useLoop2 => r.loop2
       /\ entries' =
             IF UidTaken(id, Configured) \/ LinkTaken(r.endpoint, Configured)
             THEN entries
             ELSE [entries EXCEPT ![e] =
                      [link |-> r.endpoint, identity |-> id, uid |-> id,
                       strength |-> r.strength, loop2 |-> r.loop2,
                       useLoop2 |-> useLoop2]]
       /\ EndFlow(f)
       /\ UNCHANGED at

(* Mutant of SameConsole: a strong entry may lose its identity. *)
SameConsoleIfStrong(e, r) ==
    IF r.strength = "strong" /\ entries[e].strength = "strong"
    THEN r.identity = entries[e].uid
    ELSE r.strength = "strong" => ~UidTaken(r.identity, Configured \ {e})

(* The identity checks of _async_finish_reconfigure: a strong entry keeps its
   console; a weak one may become strong. *)
SameConsole(e, r) ==
    IF entries[e].strength = "strong"
    THEN r.strength = "strong" /\ r.identity = entries[e].uid
    ELSE r.strength = "strong" => ~UidTaken(r.identity, Configured \ {e})

(* Mutants of Reconfigured: unique_id or loop2_supported stays as it was. *)
ReconfiguredOldUid(e, r) ==
    LET id == IF r.strength = "strong" THEN r.identity ELSE entries[e].identity
    IN [entries[e] EXCEPT !.link = r.endpoint, !.identity = id,
                          !.strength = r.strength, !.loop2 = r.loop2]
ReconfiguredOldLoop2(e, r) ==
    LET id == IF r.strength = "strong" THEN r.identity ELSE entries[e].identity
        uid == IF r.strength = "strong" THEN r.identity ELSE entries[e].uid
    IN [entries[e] EXCEPT !.link = r.endpoint, !.identity = id, !.uid = uid,
                          !.strength = r.strength]

(* The entry after _async_finish_reconfigure; its options are preserved. *)
Reconfigured(e, r) ==
    LET id == IF r.strength = "strong" THEN r.identity ELSE entries[e].identity
        uid == IF r.strength = "strong" THEN r.identity ELSE entries[e].uid
    IN [entries[e] EXCEPT !.link = r.endpoint, !.identity = id, !.uid = uid,
                          !.strength = r.strength, !.loop2 = r.loop2]

(* Every failed check aborts the flow: identity_unavailable, wrong_device or
   already_configured. *)
FinishReconfigure(f) ==
    LET r == found[f]
        e == target[f]
    IN /\ step[f] = "verify" /\ e # Nothing
       /\ entries' =
             IF SameConsole(e, r) /\ ~LinkTaken(r.endpoint, Configured \ {e})
             THEN [entries EXCEPT ![e] = Reconfigured(e, r)]
             ELSE entries
       /\ EndFlow(f)
       /\ UNCHANGED at

(* The options flow. *)
SetOptions(e, useLoop2) ==
    /\ e \in Configured
    /\ useLoop2 => entries[e].loop2
    /\ entries' = [entries EXCEPT ![e].useLoop2 = useLoop2]
    /\ UNCHANGED <<at, flowVars>>

-----------------------------------------------------------------------------
(* Home Assistant and the world: external. *)

CloseDialog(f) ==
    /\ step[f] # "none"
    /\ EndFlow(f)
    /\ UNCHANGED <<at, entries>>

(* The flows that reconfigure a removed entry are aborted. *)
RemoveEntry(e) ==
    LET Of(x) == [f \in Flows |-> IF target[f] = e THEN Nothing ELSE x[f]]
    IN /\ e \in Configured
       /\ entries' = [entries EXCEPT ![e] = Nothing]
       /\ step' = [f \in Flows |-> IF target[f] = e THEN "none" ELSE step[f]]
       /\ target' = Of(target) /\ link' = Of(link) /\ found' = Of(found)
       /\ UNCHANGED at

(* A device is pulled from a port, or plugged into a free one. *)
Replug(p) ==
    /\ \E d \in Devices \cup {Nothing} :
          /\ at[p] = Nothing \/ d = Nothing
          /\ \A q \in Ports : at[q] # d \/ d = Nothing
          /\ at' = [at EXCEPT ![p] = d]
    /\ UNCHANGED <<entries, flowVars>>

Next ==
    \/ \E f \in Flows :
          \/ StartUser(f)
          \/ \E e \in Ids : StartReconfigure(f, e)
          \/ \E path \in Paths : SubmitLink(f, path)
          \/ VerifyFails(f)
          \/ VerifySerial(f)
          \/ ConfirmNew(f)
          \/ \E e \in Ids, useLoop2 \in BOOLEAN : SubmitOptions(f, e, useLoop2)
          \/ FinishReconfigure(f)
          \/ CloseDialog(f)
    \/ \E e \in Ids, useLoop2 \in BOOLEAN : SetOptions(e, useLoop2)
    \/ \E e \in Ids : RemoveEntry(e)
    \/ \E p \in Ports : Replug(p)

Spec == Init /\ [][Next]_vars

-----------------------------------------------------------------------------
(* Every variable has its type; a flow past its verification has a result,
   and a reconfigure flow has its entry. *)
TypeOK ==
    /\ at \in Plugged
    /\ entries \in [Ids -> Entry \cup {Nothing}]
    /\ step \in [Flows -> Steps]
    /\ target \in [Flows -> Ids \cup {Nothing}]
    /\ link \in [Flows -> Paths \cup {Nothing}]
    /\ found \in [Flows -> Result \cup {Nothing}]
    /\ \A f \in Flows :
          /\ step[f] = "verifying" => link[f] # Nothing
          /\ step[f] \in {"verify", "options"} => found[f] # Nothing
          /\ target[f] # Nothing => target[f] \in Configured

(* "test_duplicate_strong_console_is_rejected": whatever flows run side by
   side and however devices move meanwhile, no console has two entries. *)
UniqueConsoles ==
    \A d, e \in Configured :
        /\ entries[d].strength = "strong" /\ entries[e].strength = "strong"
        /\ entries[d].identity = entries[e].identity
        => d = e

(* No two entries use the same interface. *)
UniqueLinks ==
    \A d, e \in Configured : entries[d].link = entries[e].link => d = e

(* The unique id Home Assistant knows an entry by is that of the identity in
   its data, which the checks of later flows rely on. *)
UidFollowsIdentity == \A e \in Configured : entries[e].uid = entries[e].identity

(* "LOOP2 mode is used only when the option is on and the entry data records
   loop2_supported as true": an entry that is sure of its console sends LOOP2
   requests only to one that answers them, across reconfigurations from other
   consoles and however old the option is. *)
Loop2Answered ==
    \A e \in Configured :
        /\ entries[e].strength = "strong"
        /\ entries[e].useLoop2 /\ entries[e].loop2
        => entries[e].identity \in Loop2Devices

(* "reconfigure rejects a different physical logger or console": once an entry
   is sure of its console it stays with it until it is removed. *)
KeepsConsole(e) ==
    entries[e] # Nothing /\ entries[e].strength = "strong" =>
        \/ entries'[e] = Nothing
        \/ /\ entries'[e].strength = "strong"
           /\ entries'[e].identity = entries[e].identity

ConsoleKept == [][\A e \in Ids : KeepsConsole(e)]_vars

(* The entries as a registry: dialogs, and what they verified, are not part
   of it. *)
Registry == INSTANCE ConsoleRegistry WITH
    Entries  <- Ids,
    Links    <- Paths,
    Consoles <- Devices,
    None     <- Nothing,
    line     <- [e \in Ids |->
                    IF entries[e] = Nothing THEN Nothing ELSE entries[e].link],
    sure     <- [e \in Ids |->
                    IF entries[e] = Nothing THEN Nothing
                    ELSE IF entries[e].strength = "strong"
                         THEN entries[e].identity ELSE Nothing]

(* Whatever flows are open side by side, and however old what they verified
   is, each change of the entries is one a registry allows: a link and a
   console are given to an entry only while no other has them, and an entry
   moves only together with its console. *)
KeepsRegistry == Registry!RegistrySpec
=============================================================================
