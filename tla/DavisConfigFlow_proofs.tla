------------------------ MODULE DavisConfigFlow_proofs ------------------------
(***************************************************************************)
(* Proofs about DavisConfigFlow, for any number of entries, ports, devices *)
(* and open flows.  The checks of a flow and its change of the entries are *)
(* one step of the event loop; the proofs show that the entries as they    *)
(* are then, and a verification that may be old, are enough for them.      *)
(***************************************************************************)
EXTENDS DavisConfigFlow, TLAPS

(* What an entry's identity is made of. *)
KnownEntry(e, x) ==
    /\ x.uid = x.identity
    /\ x.strength = "strong" => x.identity \in Devices
    /\ x.strength = "weak" => x.identity = e
    /\ x.strength = "strong" /\ x.loop2 => x.identity \in Loop2Devices

(* What a verification found belongs together. *)
KnownResult(r) ==
    r.strength = "strong" =>
        r.identity \in Devices /\ (r.loop2 => r.identity \in Loop2Devices)

Known ==
    /\ \A e \in Configured : KnownEntry(e, entries[e])
    /\ \A f \in Flows : found[f] # Nothing => KnownResult(found[f])

Inv == TypeOK /\ Known /\ UniqueConsoles /\ UniqueLinks

-----------------------------------------------------------------------------
(* A path and its canonical form lead to the same device. *)
LEMMA EndpointLeads ==
    ASSUME at \in Plugged, NEW path \in Paths
    PROVE  /\ Endpoint(path) \in Paths
           /\ DeviceAt(Endpoint(path)) = DeviceAt(path)
           /\ DeviceAt(path) \in Devices \cup {Nothing}
           /\ Strength(path) \in {"strong", "weak"}
           /\ Strength(path) = "strong" => DeviceAt(path) \in Devices
           /\ Strength(Endpoint(path)) = Strength(path)
<1> USE ConfigAssumption
<1>1. DeviceAt(path) \in Devices \cup {Nothing}
  BY DEF DeviceAt, Plugged, Paths
<1>2. DeviceAt(Endpoint(path)) = DeviceAt(path)
  <2>1. CASE DeviceAt(path) \in ById
    <3>1. \E p \in Ports : at[p] = DeviceAt(path)
      BY <2>1 DEF DeviceAt, Paths
    <3>2. Endpoint(path) = DeviceAt(path) /\ DeviceAt(path) \notin Ports
      BY <2>1 DEF Endpoint
    <3> QED BY <3>1, <3>2 DEF DeviceAt
  <2>2. CASE DeviceAt(path) \notin ById
    BY <2>2 DEF Endpoint
  <2> QED BY <2>1, <2>2
<1>3. Endpoint(path) \in Paths
  BY DEF Endpoint, Paths
<1> QED BY <1>1, <1>2, <1>3 DEF Strength

-----------------------------------------------------------------------------
LEMMA InitInv == Init => Inv
<1> SUFFICES ASSUME Init PROVE Inv
  OBVIOUS
<1> USE ConfigAssumption
<1>1. PICK old \in [Ids -> Ports \cup {Nothing}], loop2 \in [Ids -> BOOLEAN] :
        /\ \A d, e \in Ids : old[d] = old[e] /\ d # e => old[d] = Nothing
        /\ \A e \in Ids : loop2[e] =>
               old[e] # Nothing /\ at[old[e]] \in Loop2Devices
        /\ entries = [e \in Ids |-> IF old[e] = Nothing THEN Nothing
                                    ELSE Migrated(e, old[e], loop2[e])]
  BY DEF Init
<1>2. at \in Plugged /\ \A e \in Ids : old[e] # Nothing =>
          old[e] \in Paths /\ DeviceAt(old[e]) = at[old[e]]
  BY <1>1 DEF Init, Paths, DeviceAt
<1>3. ASSUME NEW e \in Ids, old[e] # Nothing
      PROVE  /\ entries[e] \in Entry /\ KnownEntry(e, entries[e])
             /\ entries[e].link = Endpoint(old[e])
             /\ entries[e].strength = "strong" => entries[e].identity = at[old[e]]
  <2> DEFINE path == Endpoint(old[e])
             id == IF Strength(path) = "strong" THEN SerialIdentity(path) ELSE e
  <2>1. entries[e] = [link |-> path, identity |-> id, uid |-> id,
                      strength |-> Strength(path),
                      loop2 |-> loop2[e], useLoop2 |-> loop2[e]]
    BY <1>1, <1>3 DEF Migrated
  <2>2. /\ path \in Paths /\ DeviceAt(path) = at[old[e]]
        /\ Strength(path) \in {"strong", "weak"}
        /\ Strength(path) = "strong" => DeviceAt(path) \in Devices
    BY <1>2, <1>3, EndpointLeads
  <2>3. /\ Strength(path) = "strong" => id = at[old[e]] /\ id \in Devices
        /\ Strength(path) = "weak" => id = e
        /\ loop2[e] => at[old[e]] \in Loop2Devices
        /\ loop2[e] \in BOOLEAN
    BY <1>1, <2>2 DEF SerialIdentity
  <2> HIDE DEF path, id
  <2>4. id \in Ids \cup Devices
    BY <2>2, <2>3
  <2>5. entries[e] \in Entry
    BY <2>1, <2>2, <2>3, <2>4 DEF Entry
  <2>6. KnownEntry(e, entries[e]) /\ entries[e].link = path
        /\ (entries[e].strength = "strong" => entries[e].identity = at[old[e]])
    BY <2>1, <2>2, <2>3 DEF KnownEntry
  <2> QED BY <2>5, <2>6 DEF path
<1>4. \A e \in Ids : entries[e] = Nothing \/ old[e] # Nothing
  BY <1>1
<1>5. TypeOK
  <2>1. entries \in [Ids -> Entry \cup {Nothing}]
    <3>1. \A e \in Ids : entries[e] \in Entry \cup {Nothing}
      BY <1>3, <1>4
    <3> QED BY <1>1, <3>1
  <2> QED BY <2>1 DEF Init, TypeOK, Steps
<1>6. Known
  BY <1>3, <1>4 DEF Known, Configured, Init
<1>7. ASSUME NEW d \in Configured, NEW e \in Configured, d # e
      PROVE  /\ entries[d].link # entries[e].link
             /\ ~(/\ entries[d].strength = "strong"
                  /\ entries[e].strength = "strong"
                  /\ entries[d].identity = entries[e].identity)
  <2>1. d \in Ids /\ e \in Ids /\ old[d] # Nothing /\ old[e] # Nothing
    BY <1>4, <1>7 DEF Configured
  <2>2. /\ old[d] \in Ports /\ old[e] \in Ports /\ old[d] # old[e]
        /\ at[old[d]] = at[old[e]] => at[old[d]] = Nothing
    BY <1>1, <1>2, <1>7, <2>1 DEF Plugged
  <2>3. Endpoint(old[d]) # Endpoint(old[e])
    BY <1>2, <2>1, <2>2 DEF Endpoint, DeviceAt
  <2>4. entries[d].strength = "strong" => entries[d].identity # Nothing
    BY <1>3, <2>1 DEF KnownEntry
  <2> QED BY <1>3, <2>1, <2>2, <2>3, <2>4
<1> QED BY <1>5, <1>6, <1>7 DEF Inv, UniqueConsoles, UniqueLinks

-----------------------------------------------------------------------------
(* Changing one entry: the new record need not clash with the others. *)
LEMMA EntryChanges ==
    ASSUME Inv, NEW e \in Ids, NEW x \in Entry, KnownEntry(e, x),
           entries' = [entries EXCEPT ![e] = x],
           x.strength = "strong" =>
               \A o \in Configured \ {e} : entries[o].uid # x.identity,
           \A o \in Configured \ {e} : entries[o].link # x.link
    PROVE  /\ entries' \in [Ids -> Entry \cup {Nothing}]
           /\ Configured' \subseteq Configured \cup {e}
           /\ Configured \subseteq Configured'
           /\ \A d \in Configured' : KnownEntry(d, entries'[d])
           /\ UniqueConsoles' /\ UniqueLinks'
<1>1. /\ entries' \in [Ids -> Entry \cup {Nothing}]
      /\ entries'[e] = x
      /\ \A d \in Ids \ {e} : entries'[d] = entries[d]
      /\ \A d \in Configured : entries[d].uid = entries[d].identity
  BY DEF Inv, TypeOK, Known, KnownEntry
<1>2. Configured' \subseteq Configured \cup {e}
  BY <1>1 DEF Configured
<1>3. x # Nothing
  BY ConfigAssumption
<1>4. Configured \subseteq Configured'
  BY <1>1, <1>3 DEF Configured
<1>5. \A d \in Configured' : KnownEntry(d, entries'[d])
  BY <1>1, <1>2 DEF Inv, Known, Configured
<1>6. UniqueConsoles'
  BY <1>1, <1>2 DEF Inv, UniqueConsoles, Configured
<1>7. UniqueLinks'
  BY <1>1, <1>2 DEF Inv, UniqueLinks, Configured
<1> QED BY <1>1, <1>2, <1>4, <1>5, <1>6, <1>7

(* A step that leaves the entries and what was found alone, or forgets it. *)
LEMMA OnlyFlows ==
    ASSUME Inv, UNCHANGED entries,
           \A f \in Flows : found'[f] # Nothing =>
               found'[f] = found[f] \/ KnownResult(found'[f])
    PROVE  Known' /\ UniqueConsoles' /\ UniqueLinks' /\ Configured' = Configured
BY DEF Inv, Known, UniqueConsoles, UniqueLinks, Configured

(* What is left of a flow that ended. *)
LEMMA EndedFlow ==
    ASSUME TypeOK, NEW f \in Flows, EndFlow(f), Configured \subseteq Configured',
           at' \in Plugged, entries' \in [Ids -> Entry \cup {Nothing}]
    PROVE  /\ TypeOK'
           /\ \A g \in Flows : found'[g] # Nothing => found'[g] = found[g]
BY DEF TypeOK, EndFlow, Steps

LEMMA FlowSteps ==
    ASSUME Inv, NEW f \in Flows,
           \/ StartUser(f) \/ (\E e \in Ids : StartReconfigure(f, e))
           \/ (\E path \in Paths : SubmitLink(f, path))
           \/ VerifyFails(f) \/ ConfirmNew(f) \/ CloseDialog(f)
    PROVE  Inv'
<1> USE DEF Steps
<1>1. UNCHANGED <<at, entries>>
      /\ \A g \in Flows : found'[g] # Nothing => found'[g] = found[g]
  BY DEF StartUser, StartReconfigure, SubmitLink, VerifyFails, ConfirmNew,
         CloseDialog, EndFlow, Inv, TypeOK
<1>2. Known' /\ UniqueConsoles' /\ UniqueLinks' /\ Configured' = Configured
  BY <1>1, OnlyFlows
<1>3. ASSUME StartUser(f) \/ VerifyFails(f) \/ ConfirmNew(f) PROVE TypeOK'
  BY <1>2, <1>3 DEF StartUser, VerifyFails, ConfirmNew, Inv, TypeOK
<1>4. ASSUME NEW e \in Ids, StartReconfigure(f, e) PROVE TypeOK'
  BY <1>2, <1>4 DEF StartReconfigure, Inv, TypeOK
<1>5. ASSUME NEW path \in Paths, SubmitLink(f, path) PROVE TypeOK'
  <2>1. path # Nothing
    BY ConfigAssumption DEF Paths
  <2> QED BY <1>2, <1>5, <2>1 DEF SubmitLink, Inv, TypeOK
<1>6. ASSUME CloseDialog(f) PROVE TypeOK'
  BY <1>1, <1>2, <1>6, EndedFlow DEF CloseDialog, Inv, TypeOK
<1> QED BY <1>2, <1>3, <1>4, <1>5, <1>6 DEF Inv

LEMMA VerifySteps ==
    ASSUME Inv, NEW f \in Flows, VerifySerial(f)
    PROVE  Inv'
<1> DEFINE path == Endpoint(link[f])
           Res(l) == [endpoint |-> path, identity |-> SerialIdentity(path),
                      strength |-> Strength(path), loop2 |-> l]
<1>1. PICK l \in BOOLEAN : /\ l => DeviceAt(path) \in Loop2Devices
                           /\ found' = [found EXCEPT ![f] = Res(l)]
  BY DEF VerifySerial
<1>2. link[f] \in Paths /\ at \in Plugged /\ step[f] = "verifying"
  BY DEF VerifySerial, Inv, TypeOK
<1>3. path \in Paths
  BY <1>2, EndpointLeads
<1>4. /\ Strength(path) \in {"strong", "weak"}
      /\ Strength(path) = "strong" => DeviceAt(path) \in Devices
  BY <1>2, <1>3, EndpointLeads
<1>5. SerialIdentity(path) \in Devices \cup Paths
  BY <1>3, <1>4 DEF SerialIdentity
<1> HIDE DEF path
<1>6. Res(l) \in Result
  BY <1>3, <1>4, <1>5 DEF Result
<1>7. KnownResult(Res(l))
  BY <1>1, <1>4 DEF KnownResult, SerialIdentity
<1>8. Res(l) # Nothing
  BY <1>6, ConfigAssumption
<1> HIDE DEF Res
<1>9. Known' /\ UniqueConsoles' /\ UniqueLinks' /\ Configured' = Configured
  BY <1>1, <1>7, OnlyFlows DEF VerifySerial, Inv, TypeOK
<1>10. TypeOK'
  BY <1>1, <1>2, <1>6, <1>8, <1>9 DEF VerifySerial, Inv, TypeOK, Steps
<1> QED BY <1>9, <1>10 DEF Inv

LEMMA SubmitSteps ==
    ASSUME Inv, NEW f \in Flows, NEW e \in Ids, NEW useLoop2 \in BOOLEAN,
           SubmitOptions(f, e, useLoop2)
    PROVE  Inv'
<1> DEFINE r == found[f]
           id == IF r.strength = "strong" THEN r.identity ELSE e
           x == [link |-> r.endpoint, identity |-> id, uid |-> id,
                 strength |-> r.strength, loop2 |-> r.loop2,
                 useLoop2 |-> useLoop2]
           taken == UidTaken(id, Configured) \/ LinkTaken(r.endpoint, Configured)
<1>1. /\ e \notin Configured /\ (useLoop2 => r.loop2)
      /\ entries' = IF taken THEN entries ELSE [entries EXCEPT ![e] = x]
      /\ EndFlow(f) /\ at' = at /\ step[f] = "options"
  BY DEF SubmitOptions
<1>2. r \in Result /\ KnownResult(r)
  BY <1>1 DEF Inv, TypeOK, Known
<1>3. CASE taken
  <2>1. entries' = entries /\ Configured' = Configured
    BY <1>1, <1>3 DEF Configured
  <2>2. TypeOK' /\ \A g \in Flows : found'[g] # Nothing => found'[g] = found[g]
    BY <1>1, <2>1, EndedFlow DEF Inv, TypeOK
  <2> QED BY <2>1, <2>2, OnlyFlows DEF Inv
<1>4. CASE ~taken
  <2>1. id \in Ids \cup Devices
    BY <1>2 DEF KnownResult, Result
  <2>2. x \in Entry /\ KnownEntry(e, x)
    BY <1>2, <2>1 DEF Entry, Result, KnownEntry, KnownResult
  <2>3. /\ x.strength = "strong" =>
               \A o \in Configured \ {e} : entries[o].uid # x.identity
        /\ \A o \in Configured \ {e} : entries[o].link # x.link
    BY <1>4 DEF UidTaken, LinkTaken
  <2> HIDE DEF x
  <2>4. entries' = [entries EXCEPT ![e] = x]
    BY <1>1, <1>4
  <2>5. /\ entries' \in [Ids -> Entry \cup {Nothing}]
        /\ Configured \subseteq Configured'
        /\ \A d \in Configured' : KnownEntry(d, entries'[d])
        /\ UniqueConsoles' /\ UniqueLinks'
    BY <2>2, <2>3, <2>4, EntryChanges
  <2>6. TypeOK' /\ \A g \in Flows : found'[g] # Nothing => found'[g] = found[g]
    BY <1>1, <2>5, EndedFlow DEF Inv, TypeOK
  <2> QED BY <2>5, <2>6 DEF Inv, Known
<1> QED BY <1>3, <1>4

(* The entry a reconfigure flow leaves behind. *)
LEMMA ReconfiguredEntry ==
    ASSUME Inv, NEW e \in Configured, NEW r \in Result, KnownResult(r),
           SameConsole(e, r)
    PROVE  /\ Reconfigured(e, r) \in Entry
           /\ KnownEntry(e, Reconfigured(e, r))
           /\ Reconfigured(e, r).link = r.endpoint
           /\ Reconfigured(e, r).strength = r.strength
           /\ r.strength = "strong" => Reconfigured(e, r).identity = r.identity
<1>1. entries[e] \in Entry /\ KnownEntry(e, entries[e])
  BY DEF Inv, TypeOK, Known, Configured
<1>2. r.strength = "weak" => entries[e].strength = "weak"
  BY <1>1 DEF SameConsole, Result, Entry
<1> QED BY <1>1, <1>2 DEF Reconfigured, Entry, Result, KnownEntry, KnownResult

(* It clashes with no other entry. *)
LEMMA ReconfiguredApart ==
    ASSUME Inv, NEW e \in Configured, NEW r \in Result, KnownResult(r),
           SameConsole(e, r), ~LinkTaken(r.endpoint, Configured \ {e})
    PROVE  /\ Reconfigured(e, r).strength = "strong" =>
                 \A o \in Configured \ {e} :
                     entries[o].uid # Reconfigured(e, r).identity
           /\ \A o \in Configured \ {e} : entries[o].link # Reconfigured(e, r).link
<1> DEFINE x == Reconfigured(e, r)
<1>1. /\ x.link = r.endpoint /\ x.strength = r.strength
      /\ r.strength = "strong" => x.identity = r.identity
  BY ReconfiguredEntry
<1> HIDE DEF x
<1>2. ASSUME x.strength = "strong", NEW o \in Configured, o # e,
             entries[o].uid = x.identity
      PROVE  FALSE
  <2>1. CASE entries[e].strength = "strong"
    <3>1. /\ entries[e].uid = r.identity /\ r.identity \in Devices
          /\ KnownEntry(e, entries[e]) /\ KnownEntry(o, entries[o])
          /\ entries[o].strength \in {"strong", "weak"} /\ o \in Ids
      BY <1>1, <1>2, <2>1
         DEF SameConsole, KnownResult, Inv, Known, TypeOK, Entry, Configured
    <3>2. entries[o].strength = "strong"
      BY <1>1, <1>2, <3>1, ConfigAssumption DEF KnownEntry
    <3> QED BY <1>1, <1>2, <2>1, <3>1, <3>2 DEF KnownEntry, Inv, UniqueConsoles
  <2>2. CASE entries[e].strength # "strong"
    BY <1>1, <1>2, <2>2 DEF SameConsole, UidTaken
  <2> QED BY <2>1, <2>2
<1>3. \A o \in Configured \ {e} : entries[o].link # x.link
  BY <1>1 DEF LinkTaken
<1> QED BY <1>2, <1>3 DEF x

LEMMA FinishSteps ==
    ASSUME Inv, NEW f \in Flows, FinishReconfigure(f)
    PROVE  Inv'
<1> DEFINE r == found[f]
           e == target[f]
           x == Reconfigured(e, r)
           agreed == SameConsole(e, r) /\ ~LinkTaken(r.endpoint, Configured \ {e})
<1>1. /\ entries' = IF agreed THEN [entries EXCEPT ![e] = x] ELSE entries
      /\ EndFlow(f) /\ at' = at /\ step[f] = "verify" /\ e # Nothing
  BY DEF FinishReconfigure
<1>2. r \in Result /\ KnownResult(r) /\ e \in Configured /\ e \in Ids
  BY <1>1 DEF Inv, TypeOK, Known, Configured
<1>3. CASE ~agreed
  <2>1. entries' = entries /\ Configured' = Configured
    BY <1>1, <1>3 DEF Configured
  <2>2. TypeOK' /\ \A g \in Flows : found'[g] # Nothing => found'[g] = found[g]
    BY <1>1, <2>1, EndedFlow DEF Inv, TypeOK
  <2> QED BY <2>1, <2>2, OnlyFlows DEF Inv
<1>4. CASE agreed
  <2> HIDE DEF r, e
  <2>1. /\ x \in Entry /\ KnownEntry(e, x)
        /\ x.link = r.endpoint /\ x.strength = r.strength
        /\ r.strength = "strong" => x.identity = r.identity
    BY <1>2, <1>4, ReconfiguredEntry
  <2>2. x.strength = "strong" =>
            \A o \in Configured \ {e} : entries[o].uid # x.identity
    BY <1>2, <1>4, ReconfiguredApart
  <2>3. \A o \in Configured \ {e} : entries[o].link # x.link
    BY <1>2, <1>4, ReconfiguredApart
  <2> HIDE DEF x
  <2>4. entries' = [entries EXCEPT ![e] = x]
    BY <1>1, <1>4
  <2>5. /\ entries' \in [Ids -> Entry \cup {Nothing}]
        /\ Configured \subseteq Configured'
        /\ \A d \in Configured' : KnownEntry(d, entries'[d])
        /\ UniqueConsoles' /\ UniqueLinks'
    BY <1>2, <2>1, <2>2, <2>3, <2>4, EntryChanges
  <2>6. TypeOK' /\ \A g \in Flows : found'[g] # Nothing => found'[g] = found[g]
    BY <1>1, <2>5, EndedFlow DEF Inv, TypeOK
  <2> QED BY <2>5, <2>6 DEF Inv, Known
<1> QED BY <1>3, <1>4

LEMMA OtherSteps ==
    ASSUME Inv,
           \/ \E e \in Ids, useLoop2 \in BOOLEAN : SetOptions(e, useLoop2)
           \/ \E e \in Ids : RemoveEntry(e)
           \/ \E p \in Ports : Replug(p)
    PROVE  Inv'
<1>1. ASSUME NEW e \in Ids, NEW useLoop2 \in BOOLEAN, SetOptions(e, useLoop2)
      PROVE  Inv'
  <2> DEFINE x == [entries[e] EXCEPT !.useLoop2 = useLoop2]
  <2>1. /\ e \in Configured /\ (useLoop2 => entries[e].loop2)
        /\ entries[e] \in Entry /\ KnownEntry(e, entries[e])
        /\ UNCHANGED <<at, flowVars>>
    BY <1>1 DEF SetOptions, Inv, TypeOK, Known, Configured
  <2>2. entries' = [entries EXCEPT ![e] = x]
    BY <1>1 DEF SetOptions
  <2>3. /\ x \in Entry /\ x.link = entries[e].link /\ x.uid = entries[e].uid
        /\ x.identity = entries[e].identity /\ x.strength = entries[e].strength
        /\ x.loop2 = entries[e].loop2 /\ x.useLoop2 = useLoop2
    BY <2>1 DEF Entry
  <2> HIDE DEF x
  <2>4. /\ entries' \in [Ids -> Entry \cup {Nothing}] /\ entries'[e] = x
        /\ \A d \in Ids \ {e} : entries'[d] = entries[d]
    BY <2>2, <2>3 DEF Inv, TypeOK
  <2>5. Configured' = Configured /\ x # Nothing
    BY <2>1, <2>3, <2>4, ConfigAssumption DEF Configured
  <2>6. TypeOK'
    BY <2>1, <2>4, <2>5 DEF Inv, TypeOK, flowVars
  <2>7. UniqueConsoles' /\ UniqueLinks'
    BY <2>3, <2>4, <2>5 DEF Inv, UniqueConsoles, UniqueLinks, Configured
  <2>8. \A d \in Configured' : KnownEntry(d, entries'[d])
    <3>1. KnownEntry(e, x)
      BY <2>1, <2>3 DEF KnownEntry
    <3> QED BY <2>4, <2>5, <3>1 DEF Inv, Known, Configured
  <2> QED BY <2>1, <2>6, <2>7, <2>8 DEF Inv, Known, flowVars
<1>2. ASSUME NEW e \in Ids, RemoveEntry(e) PROVE Inv'
  <2>1. /\ entries' = [entries EXCEPT ![e] = Nothing] /\ at' = at
        /\ Configured' = Configured \ {e}
    BY <1>2 DEF RemoveEntry, Configured, Inv, TypeOK
  <2>2. \A g \in Flows : /\ target[g] = e \/ found'[g] = found[g]
                         /\ target[g] # e \/ found'[g] = Nothing
    BY <1>2 DEF RemoveEntry
  <2>3. TypeOK'
    BY <1>2, <2>1 DEF RemoveEntry, Inv, TypeOK, Steps
  <2>4. UniqueConsoles' /\ UniqueLinks' /\ Known'
    BY <2>1, <2>2 DEF Inv, TypeOK, Known, UniqueConsoles, UniqueLinks, Configured
  <2> QED BY <2>3, <2>4 DEF Inv
<1>3. ASSUME NEW p \in Ports, Replug(p) PROVE Inv'
  <2>1. UNCHANGED <<entries, flowVars>> /\ at' \in Plugged
    BY <1>3 DEF Replug, Inv, TypeOK, Plugged
  <2>2. Known' /\ UniqueConsoles' /\ UniqueLinks' /\ Configured' = Configured
    BY <2>1, OnlyFlows DEF flowVars
  <2> QED BY <2>1, <2>2 DEF Inv, TypeOK, flowVars
<1> QED BY <1>1, <1>2, <1>3

LEMMA NextInv == Inv /\ [Next]_vars => Inv'
<1> SUFFICES ASSUME Inv, [Next]_vars PROVE Inv'
  OBVIOUS
<1>1. CASE UNCHANGED vars
  BY <1>1 DEF vars, flowVars, Inv, TypeOK, Known, UniqueConsoles, UniqueLinks,
              Configured
<1>2. CASE Next
  BY <1>2, FlowSteps, VerifySteps, SubmitSteps, FinishSteps, OtherSteps DEF Next
<1> QED BY <1>1, <1>2

-----------------------------------------------------------------------------
(* The invariant the results below follow from. *)
THEOREM Invariance == Spec => []Inv
BY InitInv, NextInv, PTL DEF Spec

(* Types, and the data each step of a flow relies on. *)
THEOREM TypeCorrect == Spec => []TypeOK
BY Invariance, PTL DEF Inv

(* No console has two entries, for any number of flows and entries. *)
THEOREM ConsolesUnique == Spec => []UniqueConsoles
BY Invariance, PTL DEF Inv

(* No two entries use the same interface. *)
THEOREM LinksUnique == Spec => []UniqueLinks
BY Invariance, PTL DEF Inv

(* Unique ids and identities agree. *)
THEOREM UidCorrect == Spec => []UidFollowsIdentity
<1>1. Inv => UidFollowsIdentity
  BY DEF Inv, Known, KnownEntry, UidFollowsIdentity
<1> QED BY <1>1, Invariance, PTL

(* LOOP2 is used with consoles that answer it. *)
THEOREM Loop2Correct == Spec => []Loop2Answered
<1>1. Inv => Loop2Answered
  BY DEF Inv, Known, KnownEntry, Loop2Answered
<1> QED BY <1>1, Invariance, PTL

(* An entry that is sure of its console stays with it. *)
THEOREM ConsoleAlwaysKept == Spec => ConsoleKept
<1>1. ASSUME Inv, [Next]_vars, NEW e \in Ids PROVE KeepsConsole(e)
  <2> SUFFICES ASSUME entries[e] # Nothing, entries[e].strength = "strong",
                      entries'[e] # Nothing, entries'[e] # entries[e]
               PROVE  /\ entries'[e].strength = "strong"
                      /\ entries'[e].identity = entries[e].identity
    BY DEF KeepsConsole
  <2>1. e \in Configured /\ entries[e] \in Entry /\ KnownEntry(e, entries[e])
    BY <1>1 DEF Configured, Inv, TypeOK, Known
  <2>2. CASE \E f \in Flows : FinishReconfigure(f)
    <3>1. PICK f \in Flows : FinishReconfigure(f)
      BY <2>2
    <3> DEFINE r == found[f]
    <3>2. /\ entries \in [Ids -> Entry \cup {Nothing}]
          /\ target[f] \in Configured /\ r \in Result /\ KnownResult(r)
      BY <1>1, <3>1 DEF FinishReconfigure, Inv, TypeOK, Known
    <3>3. /\ target[f] = e /\ SameConsole(e, r)
          /\ entries'[e] = Reconfigured(e, r)
      BY <3>1, <3>2 DEF FinishReconfigure, Configured
    <3>4. /\ entries'[e].strength = r.strength /\ r.strength = "strong"
          /\ entries'[e].identity = r.identity /\ r.identity = entries[e].uid
      BY <1>1, <3>2, <3>3, ReconfiguredEntry DEF SameConsole
    <3> QED BY <2>1, <3>4 DEF KnownEntry
  <2>3. CASE \E d \in Ids, useLoop2 \in BOOLEAN : SetOptions(d, useLoop2)
    BY <1>1, <2>1, <2>3 DEF SetOptions, Inv, TypeOK, Entry
  <2>4. CASE \E f \in Flows, d \in Ids, useLoop2 \in BOOLEAN :
                 SubmitOptions(f, d, useLoop2)
    BY <1>1, <2>1, <2>4 DEF SubmitOptions, Inv, TypeOK
  <2>5. CASE \E d \in Ids : RemoveEntry(d)
    BY <1>1, <2>1, <2>5 DEF RemoveEntry, Inv, TypeOK
  <2>6. CASE UNCHANGED entries
    BY <2>6
  <2> QED
    BY <1>1, <2>2, <2>3, <2>4, <2>5, <2>6
       DEF Next, vars, StartUser, StartReconfigure, SubmitLink, VerifyFails,
           VerifySerial, ConfirmNew, CloseDialog, Replug
<1>2. Inv /\ [Next]_vars => \A e \in Ids : KeepsConsole(e)
  BY <1>1
<1>3. Inv /\ [Next]_vars => [\A e \in Ids : KeepsConsole(e)]_vars
  BY <1>2
<1> QED BY <1>3, Invariance, PTL DEF Spec, ConsoleKept

-----------------------------------------------------------------------------
(* The entries are a ConsoleRegistry.                                      *)

Line == [e \in Ids |-> IF entries[e] = Nothing THEN Nothing ELSE entries[e].link]
Sure == [e \in Ids |-> IF entries[e] = Nothing THEN Nothing
                       ELSE IF entries[e].strength = "strong"
                            THEN entries[e].identity ELSE Nothing]

(* What the registry knows of an entry. *)
LEMMA RegistryState ==
    ASSUME Inv
    PROVE  /\ Line \in [Ids -> Paths \cup {Nothing}]
           /\ Sure \in [Ids -> Devices \cup {Nothing}]
           /\ \A e \in Ids : Line[e] = Nothing => Sure[e] = Nothing
           /\ \A d, e \in Ids : d # e =>
                  /\ Line[d] # Nothing => Line[d] # Line[e]
                  /\ Sure[d] # Nothing => Sure[d] # Sure[e]
<1> USE ConfigAssumption
<1>1. \A e \in Ids : \/ entries[e] = Nothing
                     \/ entries[e] \in Entry /\ KnownEntry(e, entries[e])
  BY DEF Inv, TypeOK, Known, Configured
<1>2. Nothing \notin Paths /\ Nothing \notin Devices
  BY DEF Paths
<1>3. \A e \in Ids : /\ Line[e] \in Paths \cup {Nothing}
                     /\ Sure[e] \in Devices \cup {Nothing}
                     /\ Line[e] = Nothing => Sure[e] = Nothing
  <2> TAKE e \in Ids
  <2>1. CASE entries[e] = Nothing
    BY <2>1 DEF Line, Sure
  <2>2. CASE entries[e] # Nothing
    <3>1. entries[e].link \in Paths /\ entries[e].strength \in {"strong", "weak"}
          /\ (entries[e].strength = "strong" => entries[e].identity \in Devices)
      BY <1>1, <2>2 DEF Entry, KnownEntry
    <3> QED BY <1>2, <2>2, <3>1 DEF Line, Sure
  <2> QED BY <2>1, <2>2
<1>4. ASSUME NEW d \in Ids, NEW e \in Ids, d # e
      PROVE  /\ Line[d] # Nothing => Line[d] # Line[e]
             /\ Sure[d] # Nothing => Sure[d] # Sure[e]
  <2>1. Line[d] # Nothing => Line[d] # Line[e]
    BY <1>4 DEF Line, Inv, UniqueLinks, Configured
  <2>2. Sure[d] # Nothing => Sure[d] # Sure[e]
    BY <1>4 DEF Sure, Inv, UniqueConsoles, Configured
  <2> QED BY <2>1, <2>2
<1>5. Line \in [Ids -> Paths \cup {Nothing}] /\ Sure \in [Ids -> Devices \cup {Nothing}]
  BY <1>3 DEF Line, Sure
<1> QED BY <1>3, <1>4, <1>5

(* When only entry e changes, the registry changes at e only. *)
LEMMA OthersKeep ==
    ASSUME NEW e \in Ids, \A o \in Ids \ {e} : entries'[o] = entries[o]
    PROVE  /\ Line' = [Line EXCEPT ![e] = Line'[e]]
           /\ Sure' = [Sure EXCEPT ![e] = Sure'[e]]
<1>1. \A o \in Ids \ {e} : Line'[o] = Line[o] /\ Sure'[o] = Sure[o]
  BY DEF Line, Sure
<1>2. /\ Line = [d \in Ids |-> Line[d]] /\ Line' = [d \in Ids |-> Line'[d]]
      /\ Sure = [d \in Ids |-> Sure[d]] /\ Sure' = [d \in Ids |-> Sure'[d]]
  BY DEF Line, Sure
<1> QED BY <1>1, <1>2

(* An entry that is changed so that it clashes with no other, and keeps the
   console it was sure of, is assigned. *)
LEMMA ChangeAssigns ==
    ASSUME Inv, NEW e \in Ids, NEW x \in Entry, KnownEntry(e, x),
           entries' = [entries EXCEPT ![e] = x],
           x.strength = "strong" =>
               \A o \in Configured \ {e} : entries[o].uid # x.identity,
           \A o \in Configured \ {e} : entries[o].link # x.link,
           e \in Configured /\ entries[e].strength = "strong" =>
               x.strength = "strong" /\ x.identity = entries[e].identity
    PROVE  Registry!Assign(e)
<1> USE ConfigAssumption
<1>1. /\ entries'[e] = x /\ \A o \in Ids \ {e} : entries'[o] = entries[o]
      /\ x # Nothing /\ Nothing \notin Paths /\ Nothing \notin Devices
  BY DEF Inv, TypeOK, Paths
<1>2. /\ Line'[e] = x.link /\ x.link \in Paths
      /\ Sure'[e] = IF x.strength = "strong" THEN x.identity ELSE Nothing
      /\ Sure'[e] \in Devices \cup {Nothing}
  BY <1>1 DEF Line, Sure, Entry, KnownEntry
<1>3. Line' = [Line EXCEPT ![e] = Line'[e]] /\ Sure' = [Sure EXCEPT ![e] = Sure'[e]]
  BY <1>1, OthersKeep
<1>4. Sure[e] \in {Nothing, Sure'[e]}
  BY <1>1, <1>2 DEF Sure, Configured
<1>5. ASSUME NEW o \in Ids \ {e}
      PROVE  /\ Line'[e] # Nothing => Line[o] # Line'[e]
             /\ Sure'[e] # Nothing => Sure[o] # Sure'[e]
  <2>1. CASE o \in Configured
    <3>1. entries[o].uid = entries[o].identity
      BY <2>1 DEF Inv, Known, KnownEntry
    <3> QED BY <1>1, <1>2, <1>5, <2>1, <3>1 DEF Line, Sure, Configured
  <2>2. CASE o \notin Configured
    BY <1>1, <1>2, <1>5, <2>2 DEF Line, Sure, Configured
  <2> QED BY <2>1, <2>2
<1>6. /\ Line'[e] \in Paths /\ Sure'[e] \in Devices \cup {Nothing}
  BY <1>2
<1> QED BY <1>3, <1>4, <1>5, <1>6
        DEF Registry!Assign, Registry!Only, Registry!Apart, Line, Sure

LEMMA SubmitAssigns ==
    ASSUME Inv, NEW f \in Flows, NEW e \in Ids, NEW useLoop2 \in BOOLEAN,
           SubmitOptions(f, e, useLoop2)
    PROVE  UNCHANGED entries \/ Registry!Assign(e)
<1> DEFINE r == found[f]
           id == IF r.strength = "strong" THEN r.identity ELSE e
           x == [link |-> r.endpoint, identity |-> id, uid |-> id,
                 strength |-> r.strength, loop2 |-> r.loop2,
                 useLoop2 |-> useLoop2]
           taken == UidTaken(id, Configured) \/ LinkTaken(r.endpoint, Configured)
<1>1. /\ e \notin Configured
      /\ entries' = IF taken THEN entries ELSE [entries EXCEPT ![e] = x]
      /\ r \in Result /\ KnownResult(r)
  BY DEF SubmitOptions, Inv, TypeOK, Known
<1>2. CASE ~taken
  <2>1. id \in Ids \cup Devices
    BY <1>1 DEF KnownResult, Result
  <2>2. x \in Entry /\ KnownEntry(e, x)
    BY <1>1, <2>1 DEF Entry, Result, KnownEntry, KnownResult
  <2>3. /\ x.strength = "strong" =>
               \A o \in Configured \ {e} : entries[o].uid # x.identity
        /\ \A o \in Configured \ {e} : entries[o].link # x.link
    BY <1>2 DEF UidTaken, LinkTaken
  <2> HIDE DEF x
  <2>4. entries' = [entries EXCEPT ![e] = x]
    BY <1>1, <1>2
  <2>5. Registry!Assign(e)
    BY <1>1, <2>2, <2>3, <2>4, ChangeAssigns
  <2> QED BY <2>5
<1> QED BY <1>1, <1>2

LEMMA FinishAssigns ==
    ASSUME Inv, NEW f \in Flows, FinishReconfigure(f)
    PROVE  UNCHANGED entries \/ \E e \in Ids : Registry!Assign(e)
<1>1. PICK e \in Ids, r \in Result :
        /\ entries' = IF SameConsole(e, r) /\ ~LinkTaken(r.endpoint, Configured \ {e})
                      THEN [entries EXCEPT ![e] = Reconfigured(e, r)] ELSE entries
        /\ KnownResult(r) /\ e \in Configured
  BY DEF FinishReconfigure, Inv, TypeOK, Known, Configured
<1>2. CASE SameConsole(e, r) /\ ~LinkTaken(r.endpoint, Configured \ {e})
  <2> DEFINE x == Reconfigured(e, r)
  <2>1. /\ x \in Entry /\ KnownEntry(e, x)
        /\ x.link = r.endpoint /\ x.strength = r.strength
        /\ r.strength = "strong" => x.identity = r.identity
    BY <1>1, <1>2, ReconfiguredEntry
  <2>2. /\ x.strength = "strong" =>
               \A o \in Configured \ {e} : entries[o].uid # x.identity
        /\ \A o \in Configured \ {e} : entries[o].link # x.link
    BY <1>1, <1>2, ReconfiguredApart
  <2>3. entries[e].strength = "strong" =>
            x.strength = "strong" /\ x.identity = entries[e].identity
    <3>1. entries[e].uid = entries[e].identity
      BY <1>1 DEF Inv, Known, KnownEntry
    <3> QED BY <1>2, <2>1, <3>1 DEF SameConsole
  <2>4. entries' = [entries EXCEPT ![e] = x]
    BY <1>1, <1>2
  <2> HIDE DEF x
  <2>5. Registry!Assign(e)
    BY <2>1, <2>2, <2>3, <2>4, ChangeAssigns
  <2> QED BY <2>5
<1> QED BY <1>1, <1>2

LEMMA RegistryStep ==
    ASSUME Inv, [Next]_vars
    PROVE  Registry!RegistryNext \/ UNCHANGED <<Line, Sure>>
<1>1. CASE UNCHANGED entries
  BY <1>1 DEF Line, Sure
<1>2. ASSUME NEW f \in Flows, NEW e \in Ids, NEW useLoop2 \in BOOLEAN,
             SubmitOptions(f, e, useLoop2)
      PROVE  UNCHANGED entries \/ Registry!RegistryNext
  BY <1>2, SubmitAssigns DEF Registry!RegistryNext
<1>3. ASSUME NEW f \in Flows, FinishReconfigure(f)
      PROVE  UNCHANGED entries \/ Registry!RegistryNext
  BY <1>3, FinishAssigns DEF Registry!RegistryNext
<1>4. ASSUME NEW e \in Ids, NEW useLoop2 \in BOOLEAN, SetOptions(e, useLoop2)
      PROVE  UNCHANGED <<Line, Sure>>
  <2>1. /\ entries[e] \in Entry /\ entries[e] # Nothing
        /\ entries' = [entries EXCEPT ![e] = [entries[e] EXCEPT !.useLoop2 = useLoop2]]
    BY <1>4 DEF SetOptions, Inv, TypeOK, Configured
  <2> DEFINE x == [entries[e] EXCEPT !.useLoop2 = useLoop2]
  <2>2. /\ x.link = entries[e].link /\ x.strength = entries[e].strength
        /\ x.identity = entries[e].identity /\ x \in Entry
    BY <2>1 DEF Entry
  <2> HIDE DEF x
  <2>3. x # Nothing
    BY <2>2, ConfigAssumption
  <2>4. entries' = [entries EXCEPT ![e] = x]
    BY <2>1 DEF x
  <2>5. entries'[e] = x /\ \A d \in Ids \ {e} : entries'[d] = entries[d]
    BY <2>4 DEF Inv, TypeOK
  <2> QED BY <2>1, <2>2, <2>3, <2>5 DEF Line, Sure
<1>5. ASSUME NEW e \in Ids, RemoveEntry(e) PROVE Registry!RegistryNext
  <2>1. entries' = [entries EXCEPT ![e] = Nothing]
    BY <1>5 DEF RemoveEntry
  <2>2. entries'[e] = Nothing /\ \A d \in Ids \ {e} : entries'[d] = entries[d]
    BY <2>1 DEF Inv, TypeOK
  <2>3. /\ Line' = [Line EXCEPT ![e] = Line'[e]] /\ Sure' = [Sure EXCEPT ![e] = Sure'[e]]
        /\ Line'[e] = Nothing /\ Sure'[e] = Nothing
    BY <2>2, OthersKeep DEF Line, Sure
  <2>4. Registry!Remove(e)
    BY <2>3 DEF Registry!Remove, Registry!Only, Line, Sure
  <2> QED BY <2>4 DEF Registry!RegistryNext
<1> QED
  BY <1>1, <1>2, <1>3, <1>4, <1>5
     DEF Next, vars, StartUser, StartReconfigure, SubmitLink, VerifyFails,
         VerifySerial, ConfirmNew, CloseDialog, Replug

(* The entries are a registry, for any number of entries, devices and flows:
   the checks each flow makes at its end are enough for all of them. *)
THEOREM FlowsKeepRegistry == Spec => KeepsRegistry
<1>1. Init => Registry!RegistryInit
  <2> SUFFICES ASSUME Init PROVE Registry!RegistryInit
    OBVIOUS
  <2>1. Inv
    BY InitInv
  <2> QED BY <2>1, RegistryState DEF Registry!RegistryInit, Registry!Apart, Line, Sure
<1>2. Inv /\ [Next]_vars => [Registry!RegistryNext]_(Registry!registryVars)
  BY RegistryStep DEF Line, Sure, Registry!registryVars
<1> QED BY <1>1, <1>2, Invariance, PTL DEF Spec, KeepsRegistry, Registry!RegistrySpec
=============================================================================
