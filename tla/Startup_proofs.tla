--------------------------- MODULE Startup_proofs ---------------------------
(***************************************************************************)
(* The start of HANASitter for any configuration files, command lines and  *)
(* systems: the composition implements SitterConfig, what starts can       *)
(* record, and daemon.ini is read without mixing up its sections.          *)
(***************************************************************************)
EXTENDS Startup, Settings_proofs

----------------------------------------------------------------------------
(* The composition. *)

\* The start with the topology in its place is one of SitterConfig: its
\* initial states are initial states, its steps are steps or stutters.
THEOREM CompositionRefines == Spec => ConfigIsKept
<1>1. Init => ConfigInit
  BY DEF Init
<1>2. [Next]_startupVars => [ConfigNext]_configVars
  <2> SUFFICES ASSUME [Next]_startupVars
               PROVE  [ConfigNext]_configVars
    OBVIOUS
  <2>1. CASE ReadConfig \/ CheckConfig
    BY <2>1 DEF ConfigNext
  <2>2. CASE DiscoverStep
    <3>1. pc = "discover" /\ UNCHANGED <<inputs, settings, delimiter, next>>
      BY <2>2 DEF DiscoverStep
    <3>2. CASE stage' = "done"
      BY <2>2, <3>1, <3>2 DEF DiscoverStep, Discover, ConfigNext
    <3>3. CASE stage' \in {"rejected", "crashed"}
      <4>1. pc' \in {"rejected", "unavailable"} /\ scaleOut' \in BOOLEAN
        <5>1. stage' # "done" /\ (stage' = "rejected" \/ stage' = "crashed")
          BY <3>3
        <5>2. pc' \in {"rejected", "unavailable"}
          BY <2>2, <5>1 DEF DiscoverStep
        <5>3. scaleOut' = (Len(hosts') > 1)
          BY <2>2, <5>2 DEF DiscoverStep
        <5>4. QED
          BY <5>2, <5>3
      <4>2. QED
        BY <3>1, <4>1 DEF Discover, ConfigNext
    <3>4. CASE stage' \notin {"done", "rejected", "crashed"}
      <4>1. pc' = "discover" /\ scaleOut' = scaleOut
        BY <2>2, <3>4 DEF DiscoverStep
      <4>2. QED
        BY <3>1, <4>1 DEF configVars
    <3>5. QED
      BY <3>2, <3>3, <3>4
  <2>3. CASE UNCHANGED startupVars
    BY <2>3 DEF startupVars
  <2>4. QED
    BY <2>1, <2>2, <2>3 DEF Next, Stopped
<1>3. QED
  BY <1>1, <1>2, PTL DEF Spec, ConfigIsKept, ConfigSpec

\* Hence what starts, on any landscape, can make the recordings it was asked
\* for (hanasitter.py:1209-1510).
THEOREM StartSafety == Spec => []RecordingIsWellDefined
BY CompositionRefines, ConfigSafety, PTL DEF ConfigIsKept

\* Its settings come from where --help says (hanasitter.py:989-1117).
THEOREM StartSettings == Spec => []EverySettingHasItsSource
BY CompositionRefines, SettingsSafety, PTL DEF ConfigIsKept

\* It crashes only on input of a form --help does not give, and on -so and
\* -hc of the command line (hanasitter.py:1209-1510).
THEOREM StartCrashes == Spec => []WrongCombinationsAreRejected
BY CompositionRefines, CrashSafety, PTL DEF ConfigIsKept

----------------------------------------------------------------------------
(* daemon.ini. *)

Lists ==
    /\ system \in Systems
    /\ names \in Seq(STRING) /\ firsts \in Seq(Nat) /\ seconds \in Seq(Nat)
    /\ line \in Nat \ {0}
    /\ found \subseteq T!Parts
    /\ found # {} => "name" \in found

LEMMA ItemOf == ASSUME NEW S, NEW s \in Seq(S), NEW k \in 1 .. Len(s) PROVE s[k] \in S
OBVIOUS

LEMMA Longer ==
    ASSUME NEW S, NEW s \in Seq(S), NEW e \in S
    PROVE  Append(s, e) \in Seq(S) /\ Len(Append(s, e)) = Len(s) + 1 /\ Len(s) \in Nat
OBVIOUS

\* What one line does, in terms of the line.
LEMMA LineAdds ==
    ASSUME Lists, T!ReadDaemonLine, NEW entry, entry = system.daemon[line]
    PROVE  /\ line \in DOMAIN system.daemon /\ entry.text \in STRING /\ entry.number \in Nat
           /\ system' = system /\ line' = line + 1
           /\ names' = IF T!Takes("name") THEN Append(names, entry.text) ELSE names
           /\ firsts' = IF T!Takes("first") THEN Append(firsts, entry.number) ELSE firsts
           /\ seconds' = IF T!Takes("second") THEN Append(seconds, entry.number) ELSE seconds
           /\ found' = IF T!SectionEnds /\ found = T!Parts THEN {}
                       ELSE found \cup {part \in T!Parts : T!Takes(part)}
           /\ stage' = "daemon" => ~T!SectionEnds \/ found = T!Parts
           /\ T!Takes("name") <=> "name" \notin found /\ entry.kind = "name"
           /\ T!Takes("first") <=> "first" \notin found /\ entry.kind = "first" /\ "name" \in found
           /\ T!Takes("second") <=> "second" \notin found /\ entry.kind = "second" /\ "name" \in found
           /\ T!SectionEnds <=> "name" \in found /\ entry.kind = "blank"
<1>1. system.daemon \in Seq([kind : STRING, text : STRING, number : Nat])
  BY LandscapeAssumption DEF Lists
<1>2. line \in 1 .. Len(system.daemon)
  BY <1>1 DEF Lists, T!ReadDaemonLine
<1>3. entry \in [kind : STRING, text : STRING, number : Nat]
  BY <1>1, <1>2, ItemOf
<1>4. line \in DOMAIN system.daemon /\ entry.text \in STRING /\ entry.number \in Nat
  BY <1>1, <1>2, <1>3
<1>5. /\ names' = IF T!Takes("name") THEN Append(names, entry.text) ELSE names
      /\ firsts' = IF T!Takes("first") THEN Append(firsts, entry.number) ELSE firsts
      /\ seconds' = IF T!Takes("second") THEN Append(seconds, entry.number) ELSE seconds
      /\ found' = IF T!SectionEnds /\ found = T!Parts THEN {}
                  ELSE found \cup {part \in T!Parts : T!Takes(part)}
      /\ line' = line + 1 /\ system' = system
      /\ stage' = "daemon" => ~T!SectionEnds \/ found = T!Parts
  BY DEF T!ReadDaemonLine, T!Extended, T!DaemonLine, T!SectionComplete, T!given
<1>6. /\ T!Takes("name") <=> "name" \notin found /\ entry.kind = "name"
      /\ T!Takes("first") <=> "first" \notin found /\ entry.kind = "first" /\ "name" \in found
      /\ T!Takes("second") <=> "second" \notin found /\ entry.kind = "second" /\ "name" \in found
      /\ T!SectionEnds <=> "name" \in found /\ entry.kind = "blank"
  BY DEF T!Takes, T!SectionEnds, T!DaemonLine
<1>7. QED
  BY <1>4, <1>5, <1>6

\* A line adds to a list exactly when it adds its part to the section.
LEMMA DaemonLineKeeps ==
    ASSUME Lists, T!HalvesStayAligned, T!ReadDaemonLine
    PROVE  Lists' /\ T!HalvesStayAligned'
<1> DEFINE entry == system.daemon[line]
<1>1. entry.text \in STRING /\ entry.number \in Nat
  BY LineAdds
<1>2. /\ names' = IF T!Takes("name") THEN Append(names, entry.text) ELSE names
      /\ firsts' = IF T!Takes("first") THEN Append(firsts, entry.number) ELSE firsts
      /\ seconds' = IF T!Takes("second") THEN Append(seconds, entry.number) ELSE seconds
      /\ found' = IF T!SectionEnds /\ found = T!Parts THEN {}
                  ELSE found \cup {part \in T!Parts : T!Takes(part)}
      /\ line' = line + 1 /\ system' = system
  BY LineAdds
<1>3. /\ T!Takes("name") <=> "name" \notin found /\ entry.kind = "name"
      /\ T!Takes("first") <=> "first" \notin found /\ entry.kind = "first" /\ "name" \in found
      /\ T!Takes("second") <=> "second" \notin found /\ entry.kind = "second" /\ "name" \in found
      /\ T!SectionEnds <=> "name" \in found /\ entry.kind = "blank"
  BY LineAdds
<1>4. /\ names' \in Seq(STRING) /\ Len(names) \in Nat
      /\ Len(names') = Len(names) + (IF T!Takes("name") THEN 1 ELSE 0)
  <2>1. names \in Seq(STRING)
    BY DEF Lists
  <2>2. /\ Append(names, entry.text) \in Seq(STRING)
        /\ Len(Append(names, entry.text)) = Len(names) + 1 /\ Len(names) \in Nat
    BY <1>1, <2>1, Longer
  <2>3. CASE T!Takes("name")
    BY <1>2, <2>2, <2>3
  <2>4. CASE ~T!Takes("name")
    BY <1>2, <2>1, <2>2, <2>4
  <2>5. QED
    BY <2>3, <2>4
<1>5. /\ firsts' \in Seq(Nat) /\ seconds' \in Seq(Nat) /\ Len(firsts) \in Nat /\ Len(seconds) \in Nat
      /\ Len(firsts') = Len(firsts) + (IF T!Takes("first") THEN 1 ELSE 0)
      /\ Len(seconds') = Len(seconds) + (IF T!Takes("second") THEN 1 ELSE 0)
  BY <1>1, <1>2, Longer DEF Lists
<1>6. CASE T!SectionEnds /\ found = T!Parts
  <2>1. found' = {} /\ names' = names /\ firsts' = firsts /\ seconds' = seconds
    BY <1>2, <1>3, <1>6
  <2>2. "name" \in found /\ "first" \in found /\ "second" \in found
    BY <1>6 DEF T!Parts
  <2>3. QED
    <3>1. Lists'
      BY <1>2, <2>1 DEF Lists
    <3>2. T!HalvesStayAligned'
      BY <1>4, <1>5, <2>1, <2>2 DEF T!HalvesStayAligned
    <3>3. QED
      BY <3>1, <3>2
<1>7. CASE ~(T!SectionEnds /\ found = T!Parts)
  <2>1. found' = found \cup {part \in T!Parts : T!Takes(part)}
    BY <1>2, <1>7
  <2>2. /\ "name" \in found' <=> "name" \in found \/ T!Takes("name")
        /\ "first" \in found' <=> "first" \in found \/ T!Takes("first")
        /\ "second" \in found' <=> "second" \in found \/ T!Takes("second")
    BY <2>1 DEF T!Parts
  <2>3. found' # {} => "name" \in found'
    BY <1>3, <2>1, <2>2 DEF Lists, T!Parts
  <2>4. Lists'
    BY <1>2, <1>4, <1>5, <2>1, <2>3 DEF Lists
  <2>5. T!HalvesStayAligned'
    <3> DEFINE complete == Len(names) - (IF "name" \in found THEN 1 ELSE 0)
    <3>0. /\ Len(firsts) = complete + (IF "first" \in found THEN 1 ELSE 0)
          /\ Len(seconds) = complete + (IF "second" \in found THEN 1 ELSE 0)
      BY DEF T!HalvesStayAligned
    <3>1. CASE T!Takes("name")
      <4>1. /\ "name" \notin found /\ "first" \notin found /\ "second" \notin found
            /\ ~T!Takes("first") /\ ~T!Takes("second")
        BY <1>3, <3>1 DEF Lists
      <4>2. Len(names') = Len(names) + 1 /\ Len(firsts') = Len(names) /\ Len(seconds') = Len(names)
        BY <1>4, <1>5, <3>0, <3>1, <4>1
      <4>3. "name" \in found' /\ "first" \notin found' /\ "second" \notin found'
        BY <2>2, <3>1, <4>1
      <4>4. QED
        BY <1>4, <4>2, <4>3 DEF T!HalvesStayAligned
    <3>2. CASE T!Takes("first")
      <4>1. "name" \in found /\ "first" \notin found /\ ~T!Takes("name") /\ ~T!Takes("second")
        BY <1>3, <3>2
      <4>2. Len(names') = Len(names) /\ Len(firsts') = Len(names) /\ Len(seconds') = Len(seconds)
        BY <1>4, <1>5, <3>0, <3>2, <4>1
      <4>3. "name" \in found' /\ "first" \in found' /\ ("second" \in found' <=> "second" \in found)
        BY <2>2, <3>2, <4>1
      <4>4. QED
        BY <1>4, <3>0, <4>1, <4>2, <4>3 DEF T!HalvesStayAligned
    <3>3. CASE T!Takes("second")
      <4>1. "name" \in found /\ "second" \notin found /\ ~T!Takes("name") /\ ~T!Takes("first")
        BY <1>3, <3>3
      <4>2. Len(names') = Len(names) /\ Len(seconds') = Len(names) /\ Len(firsts') = Len(firsts)
        BY <1>4, <1>5, <3>0, <3>3, <4>1
      <4>3. "name" \in found' /\ "second" \in found' /\ ("first" \in found' <=> "first" \in found)
        BY <2>2, <3>3, <4>1
      <4>4. QED
        BY <1>4, <3>0, <4>1, <4>2, <4>3 DEF T!HalvesStayAligned
    <3>4. CASE ~T!Takes("name") /\ ~T!Takes("first") /\ ~T!Takes("second")
      <4>1. Len(names') = Len(names) /\ Len(seconds') = Len(seconds) /\ Len(firsts') = Len(firsts)
        BY <1>4, <1>5, <3>4
      <4>2. /\ "name" \in found' <=> "name" \in found
            /\ "first" \in found' <=> "first" \in found
            /\ "second" \in found' <=> "second" \in found
        BY <2>2, <3>4
      <4>3. QED
        BY <1>4, <3>0, <4>1, <4>2 DEF T!HalvesStayAligned
    <3>5. QED
      BY <3>1, <3>2, <3>3, <3>4
  <2>6. QED
    BY <2>4, <2>5
<1>8. QED
  BY <1>6, <1>7

LEMMA AlignedStep ==
    ASSUME Lists, T!HalvesStayAligned, [Next]_startupVars
    PROVE  Lists' /\ T!HalvesStayAligned'
<1>1. CASE T!ReadDaemonLine
  BY <1>1, DaemonLineKeeps
<1>2. CASE UNCHANGED <<system, names, firsts, seconds, line, found>>
  BY <1>2 DEF Lists, T!HalvesStayAligned
<1>3. T!ReadDaemonLine \/ UNCHANGED <<system, names, firsts, seconds, line, found>>
  BY DEF Next, DiscoverStep, Stopped, startupVars, topologyVars, T!TopologyNext, T!ReadKey, T!ReadInfo,
     T!DaemonEnds, T!FindDatabase, T!FindHosts, T!FindUsedHosts, T!given, T!reading
<1>4. QED
  BY <1>1, <1>2, <1>3

\* zip() pairs a tenant with its own port in every daemon.ini, whatever the
\* order of its lines and sections (hanasitter.py:500-528).
THEOREM AlignedSafety == Spec => []HalvesStayAligned
<1>1. Init => Lists /\ T!HalvesStayAligned
  <2> SUFFICES ASSUME Init PROVE Lists /\ T!HalvesStayAligned
    OBVIOUS
  <2>1. /\ system \in Systems /\ line = 1 /\ found = {}
        /\ names = <<>> /\ firsts = <<>> /\ seconds = <<>>
    BY DEF Init, T!TopologyInit
  <2>2. Lists
    BY <2>1 DEF Lists
  <2>3. T!HalvesStayAligned
    BY <2>1 DEF T!HalvesStayAligned
  <2>4. QED
    BY <2>2, <2>3
<1>2. Lists /\ T!HalvesStayAligned /\ [Next]_startupVars => Lists' /\ T!HalvesStayAligned'
  BY AlignedStep
<1>3. QED
  BY <1>1, <1>2, PTL DEF Spec, HalvesStayAligned

----------------------------------------------------------------------------
(* Types of the discovery. *)

Searching == {"key", "info", "daemon", "database", "hosts"}

Shape ==
    /\ Lists
    /\ sqlPort \in Nat /\ port \in Nat /\ isMdc \in BOOLEAN
    /\ tenantName \in STRING \cup {T!NoTenant}
    /\ \A k \in DOMAIN tenants : tenants[k] \in [name : STRING, port : Nat]
    /\ \E n \in Nat : DOMAIN tenants \subseteq 1 .. n
    /\ hosts \in Seq(STRING) /\ usedHosts \subseteq T!ItemsOf(hosts)
    /\ stage \in Searching \cup {"uses", "done", "rejected", "crashed"}
    /\ stage \in Searching => usedHosts = {}
    /\ stage \in {"daemon", "database"} => system.nameservers # <<>>

LEMMA SystemTyped ==
    ASSUME system \in Systems
    PROVE  /\ system.key \in Seq([host : STRING, port : Nat]) /\ system.key # <<>>
           /\ system.info \in Seq([name : STRING, port : Nat])
           /\ system.nameservers \in Seq(Nat)
           /\ system.landscape \in Seq(STRING)
BY LandscapeAssumption

\* The entry of hdbuserstore that is taken is one of it.
LEMMA LocalIsEntry ==
    ASSUME system \in Systems
    PROVE  T!LocalEntry \in 1 .. Len(system.key)
<1> DEFINE key == system.key
           K == {k \in DOMAIN key : T!KeyHost(k) = system.local}
           c == CHOOSE k \in DOMAIN key : /\ T!KeyHost(k) = system.local
                                          /\ \A j \in 1 .. k - 1 : T!KeyHost(j) # system.local
<1>1. DOMAIN key = 1 .. Len(key) /\ Len(key) \in Nat /\ 1 \in 1 .. Len(key)
  BY SystemTyped
<1>2. CASE K = {}
  <2>1. T!LocalEntry = 1
    BY <1>2, Zenon DEF T!LocalEntry
  <2>2. QED
    BY <1>1, <2>1
<1>3. CASE K # {}
  <2>1. K \in SUBSET Nat
    BY <1>1
  <2>2. PICK k \in K : \A j \in K : k <= j
    BY <1>3, <2>1, Least
  <2>3. ASSUME NEW j \in 1 .. k - 1
        PROVE  T!KeyHost(j) # system.local
    <3>1. j \in DOMAIN key /\ ~(k <= j)
      BY <1>1
    <3>2. QED
      BY <2>2, <3>1
  <2>4. c \in DOMAIN key
    BY <2>2, <2>3
  <2>5. T!LocalEntry = c
    BY <1>3, Zenon DEF T!LocalEntry
  <2>6. QED
    BY <1>1, <2>4, <2>5
<1>4. QED
  BY <1>2, <1>3

LEMMA ServiceTyped == \A p, n \in Nat : T!Service(T!Instance(p), n) \in Nat
<1>1. \A p \in Nat : T!Instance(p) \in Nat
  <2>1. \A p \in Nat : p \div 100 \in Nat
    OBVIOUS
  <2>2. \A q \in Nat : q % 100 \in Nat
    OBVIOUS
  <2>3. QED
    BY <2>1, <2>2, Zenon DEF T!Instance
<1>2. \A i, n \in Nat : T!Service(i, n) \in Nat
  BY DEF T!Service
<1>3. QED
  BY <1>1, <1>2

LEMMA ServiceIs ==
    ASSUME NEW p \in Nat, NEW n \in Nat
    PROVE  T!Service(T!Instance(p), n) = T!Service(T!Instance(p), 0) + n
<1>1. T!Instance(p) \in Nat
  <2>1. p \div 100 \in Nat
    OBVIOUS
  <2>2. \A q \in Nat : q % 100 \in Nat
    OBVIOUS
  <2>3. QED
    BY <2>1, <2>2, Zenon DEF T!Instance
<1>2. PICK i \in Nat : i = T!Instance(p)
  BY <1>1
<1>3. T!Service(i, n) = T!Service(i, 0) + n
  BY DEF T!Service
<1>4. QED
  BY <1>2, <1>3

\* The tenants daemon.ini names are named, and have ports.
LEMMA DaemonTenantsTyped ==
    ASSUME Lists
    PROVE  /\ \A k \in DOMAIN T!DaemonTenants : T!DaemonTenants[k] \in [name : STRING, port : Nat]
           /\ \E n \in Nat : DOMAIN T!DaemonTenants \subseteq 1 .. n
<1>1. /\ names \in Seq(STRING) /\ firsts \in Seq(Nat) /\ seconds \in Seq(Nat)
      /\ Len(names) \in Nat /\ Len(firsts) \in Nat /\ Len(seconds) \in Nat
  BY DEF Lists
<1>2. DOMAIN T!DaemonTenants = {k \in 1 .. Len(names) : k <= Len(firsts) /\ k <= Len(seconds)}
  BY <1>1 DEF T!DaemonTenants
<1>3. ASSUME NEW k \in DOMAIN T!DaemonTenants
      PROVE  T!DaemonTenants[k] \in [name : STRING, port : Nat]
  <2>1. k \in 1 .. Len(names) /\ k \in 1 .. Len(firsts) /\ k \in 1 .. Len(seconds)
    BY <1>1, <1>2
  <2>2. names[k] \in STRING /\ firsts[k] \in Nat /\ seconds[k] \in Nat
    BY <1>1, <2>1, ItemOf
  <2>3. T!DaemonTenants[k] = [name |-> names[k], port |-> 100 * firsts[k] + seconds[k]]
    BY <1>1, <2>1 DEF T!DaemonTenants
  <2>4. 100 * firsts[k] + seconds[k] \in Nat
    BY <2>2
  <2>5. QED
    BY <2>2, <2>3, <2>4
<1>4. QED
  BY <1>1, <1>2, <1>3

LEMMA KeyShape == ASSUME Shape, T!ReadKey PROVE Shape'
<1>1. system.key[T!LocalEntry] \in [host : STRING, port : Nat]
  BY SystemTyped, LocalIsEntry, ItemOf DEF Shape, Lists
<1>2. sqlPort' \in Nat
  BY <1>1 DEF T!ReadKey
<1>3. /\ stage' \in {"info", "rejected"} /\ stage = "key"
      /\ UNCHANGED <<system, line, names, firsts, seconds, found, tenants, isMdc, tenantName, port, hosts, usedHosts>>
  BY DEF T!ReadKey, T!given, T!reading, T!target, T!landscape
<1>4. Lists'
  BY <1>3 DEF Shape, Lists
<1>5. QED
  BY <1>2, <1>3, <1>4 DEF Shape, Searching, T!ItemsOf

LEMMA InfoShape == ASSUME Shape, T!ReadInfo PROVE Shape'
<1>1. /\ stage = "info" /\ tenants' = system.info
      /\ UNCHANGED <<system, line, names, firsts, seconds, found, sqlPort, tenantName, port, hosts, usedHosts>>
      /\ isMdc' \in BOOLEAN
      /\ stage' \in {"crashed", "daemon", "database"}
      /\ stage' # "crashed" => system.nameservers # <<>>
  BY DEF T!ReadInfo, T!given, T!reading, T!target, T!landscape
<1>2. system.info \in Seq([name : STRING, port : Nat])
  BY SystemTyped DEF Shape, Lists
<1>3. /\ \A k \in DOMAIN tenants' : tenants'[k] \in [name : STRING, port : Nat]
      /\ \E n \in Nat : DOMAIN tenants' \subseteq 1 .. n
  <2>1. DOMAIN system.info = 1 .. Len(system.info) /\ Len(system.info) \in Nat
    BY <1>2
  <2>2. \A k \in DOMAIN system.info : system.info[k] \in [name : STRING, port : Nat]
    BY <1>2, <2>1, ItemOf
  <2>3. QED
    BY <1>1, <2>1, <2>2
<1>4. Lists'
  BY <1>1 DEF Shape, Lists
<1>5. QED
  BY <1>1, <1>3, <1>4 DEF Shape, Searching, T!ItemsOf

LEMMA DaemonShape ==
    ASSUME Shape, T!HalvesStayAligned, T!ReadDaemonLine \/ T!DaemonEnds
    PROVE  Shape'
<1>1. CASE T!ReadDaemonLine
  <2>1. Lists'
    BY <1>1, DaemonLineKeeps DEF Shape
  <2>2. /\ stage = "daemon" /\ stage' \in {"daemon", "rejected"}
        /\ UNCHANGED <<system, tenants, sqlPort, isMdc, tenantName, port, hosts, usedHosts>>
    BY <1>1 DEF T!ReadDaemonLine, T!given, T!target, T!landscape
  <2>3. QED
    BY <2>1, <2>2 DEF Shape, Searching, T!ItemsOf
<1>2. CASE T!DaemonEnds
  <2>1. /\ stage = "daemon" /\ stage' = "database" /\ tenants' = T!DaemonTenants
        /\ UNCHANGED <<system, line, names, firsts, seconds, found, sqlPort, isMdc, tenantName, port, hosts, usedHosts>>
    BY <1>2 DEF T!DaemonEnds, T!given, T!reading, T!target, T!landscape
  <2>2. /\ \A k \in DOMAIN tenants' : tenants'[k] \in [name : STRING, port : Nat]
        /\ \E n \in Nat : DOMAIN tenants' \subseteq 1 .. n
    BY <2>1, DaemonTenantsTyped DEF Shape
  <2>3. Lists'
    BY <2>1 DEF Shape, Lists
  <2>4. QED
    BY <2>1, <2>2, <2>3 DEF Shape, Searching, T!ItemsOf
<1>3. QED
  BY <1>1, <1>2

Matches == {k \in DOMAIN tenants : T!SqlPort(tenants[k].port) = sqlPort}
LastMatch == CHOOSE k \in Matches : \A j \in Matches : j <= k

LEMMA LastMatchExists ==
    ASSUME Shape, Matches # {}
    PROVE  LastMatch \in Matches
<1>1. PICK n \in Nat : DOMAIN tenants \subseteq 1 .. n
  BY DEF Shape
<1>2. Matches \in SUBSET (1 .. n)
  BY <1>1 DEF Matches
<1>3. \E k \in Matches : \A j \in Matches : j <= k
  BY <1>2, Greatest
<1>4. QED
  BY <1>3 DEF LastMatch

LEMMA DatabaseShape == ASSUME Shape, T!FindDatabase PROVE Shape'
<1>1. /\ stage = "database" /\ stage' \in {"hosts", "rejected"}
      /\ UNCHANGED <<system, line, names, firsts, seconds, found, tenants, sqlPort, isMdc, hosts, usedHosts>>
  BY DEF T!FindDatabase, T!given, T!reading, T!landscape
<1>2. tenantName' \in STRING \cup {T!NoTenant} /\ port' \in Nat
  <2>1. CASE ~isMdc
    <3>1. port' = T!Service(T!Instance(sqlPort), 3) /\ tenantName' = tenantName
      BY <2>1 DEF T!FindDatabase
    <3>2. QED
      BY <3>1, ServiceTyped DEF Shape
  <2>2. CASE isMdc /\ \E k \in DOMAIN tenants : T!Unruly(tenants[k].port)
    BY <2>2 DEF T!FindDatabase, T!target, Shape
  <2>3. CASE isMdc /\ ~ \E k \in DOMAIN tenants : T!Unruly(tenants[k].port)
    <3>1. /\ tenantName' = IF Matches = {} THEN T!NoTenant ELSE tenants[LastMatch].name
          /\ port' = IF Matches = {} THEN system.nameservers[1] ELSE tenants[LastMatch].port
      BY <2>3, Zenon DEF T!FindDatabase, Matches, LastMatch
    <3>2. CASE Matches = {}
      <4>1. system.nameservers \in Seq(Nat) /\ system.nameservers # <<>>
        BY <1>1, SystemTyped DEF Shape, Lists
      <4>2. system.nameservers[1] \in Nat
        BY <4>1
      <4>3. QED
        BY <3>1, <3>2, <4>2
    <3>3. CASE Matches # {}
      <4>1. LastMatch \in DOMAIN tenants
        BY <3>3, LastMatchExists DEF Matches
      <4>2. tenants[LastMatch] \in [name : STRING, port : Nat]
        BY <4>1 DEF Shape
      <4>3. QED
        BY <3>1, <3>3, <4>2
    <3>4. QED
      BY <3>2, <3>3
  <2>4. QED
    BY <2>1, <2>2, <2>3
<1>3. Lists'
  BY <1>1 DEF Shape, Lists
<1>4. QED
  BY <1>1, <1>2, <1>3 DEF Shape, Searching, T!ItemsOf

LEMMA HostsShape == ASSUME Shape, T!FindHosts \/ T!FindUsedHosts PROVE Shape'
<1>1. /\ UNCHANGED <<system, line, names, firsts, seconds, found, tenants, sqlPort, isMdc, tenantName, port>>
      /\ stage' \in {"rejected", "uses", "done", "crashed"}
  BY DEF T!FindHosts, T!FindUsedHosts, T!given, T!reading, T!target
<1>2. hosts' \in Seq(STRING) /\ usedHosts' \subseteq T!ItemsOf(hosts)'
  <2>1. CASE T!FindHosts
    <3>1. stage = "hosts" /\ hosts' = system.landscape /\ usedHosts' = usedHosts
      BY <2>1 DEF T!FindHosts
    <3>2. QED
      BY <3>1, SystemTyped DEF Shape, Lists, Searching
  <2>2. CASE T!FindUsedHosts
    <3>1. hosts' = hosts /\ usedHosts' \subseteq usedHosts \cup T!ItemsOf(hosts)
      BY <2>2 DEF T!FindUsedHosts
    <3>2. QED
      BY <3>1 DEF Shape, T!ItemsOf
  <2>3. QED
    BY <2>1, <2>2
<1>3. Lists'
  BY <1>1 DEF Shape, Lists
<1>4. QED
  BY <1>1, <1>2, <1>3 DEF Shape, Searching

LEMMA ShapeStep ==
    ASSUME Shape, T!HalvesStayAligned, [Next]_startupVars
    PROVE  Shape'
<1>1. CASE T!TopologyNext
  BY <1>1, KeyShape, InfoShape, DaemonShape, DatabaseShape, HostsShape DEF T!TopologyNext
<1>2. CASE UNCHANGED topologyVars
  BY <1>2 DEF topologyVars, Shape, Lists, T!ItemsOf
<1>3. T!TopologyNext \/ UNCHANGED topologyVars
  BY DEF Next, DiscoverStep, Stopped, startupVars
<1>4. QED
  BY <1>1, <1>2, <1>3

LEMMA ShapeInit == Init => Shape /\ T!HalvesStayAligned
<1> SUFFICES ASSUME Init PROVE Shape /\ T!HalvesStayAligned
  OBVIOUS
<1>1. /\ system \in Systems /\ line = 1 /\ found = {} /\ stage = "key"
      /\ names = <<>> /\ firsts = <<>> /\ seconds = <<>> /\ tenants = <<>>
      /\ sqlPort = 0 /\ isMdc = FALSE /\ tenantName = T!NoTenant /\ port = 0
      /\ hosts = <<>> /\ usedHosts = {}
  BY DEF Init, T!TopologyInit
<1>2. Lists
  BY <1>1 DEF Lists
<1>3. T!HalvesStayAligned
  BY <1>1 DEF T!HalvesStayAligned
<1>4. /\ \A k \in DOMAIN tenants : tenants[k] \in [name : STRING, port : Nat]
      /\ \E n \in Nat : DOMAIN tenants \subseteq 1 .. n
  <2>1. DOMAIN tenants = {} /\ 0 \in Nat
    BY <1>1
  <2>2. QED
    BY <2>1
<1>5. hosts \in Seq(STRING) /\ usedHosts \subseteq T!ItemsOf(hosts)
  BY <1>1
<1>6. /\ stage \in Searching \cup {"uses", "done", "rejected", "crashed"}
      /\ stage \in Searching => usedHosts = {}
      /\ stage \in {"daemon", "database"} => system.nameservers # <<>>
  BY <1>1 DEF Searching
<1>7. sqlPort \in Nat /\ port \in Nat /\ isMdc \in BOOLEAN
  BY <1>1
<1>8. tenantName \in STRING \cup {T!NoTenant}
  BY <1>1
<1>9. QED
  BY <1>2, <1>3, <1>4, <1>5, <1>6, <1>7, <1>8 DEF Shape

LEMMA ShapeAlwaysStep ==
    ASSUME Shape, T!HalvesStayAligned, [Next]_startupVars
    PROVE  Shape' /\ T!HalvesStayAligned'
BY ShapeStep, AlignedStep DEF Shape

\* Types of the start, for any landscape (hanasitter.py:1117-1202).
THEOREM StartTypeCorrect == Spec => []TypeOK
<1>1. Spec => []Shape
  BY ShapeInit, ShapeAlwaysStep, PTL DEF Spec
<1>2. Spec => []ConfigTypeOK
  BY CompositionRefines, ConfigTypeCorrect, PTL DEF ConfigIsKept
<1>3. Shape => T!TopologyTypeOK
  <2>1. True("-hc") \in BOOLEAN
    BY DEF True
  <2>2. QED
    BY <2>1 DEF Shape, Lists, Searching, T!TopologyTypeOK
<1>4. QED
  BY <1>1, <1>2, <1>3, PTL DEF TypeOK

----------------------------------------------------------------------------
(* The database that is found, if HANA's files describe what runs. *)

Complete == IF "name" \in found THEN Len(names) - 1 ELSE Len(names)

SectionsAreRead ==
    \A m \in 1 .. Complete : \E db \in T!TenantsOf(system) :
        names[m] = db.name /\ 100 * firsts[m] + seconds[m] = db.port

\* Before line n of a section from line k on, a half of the port is the m-th
\* of its list if it has been got, and is still to come otherwise.
Half(daemon, part, list, got, m, k, n) ==
    IF part \in got THEN \E i \in k + 1 .. n - 1 : daemon[i].kind = part /\ list[m] = daemon[i].number
    ELSE \A i \in k + 1 .. n - 1 : daemon[i].kind # part

SectionIsOpen(k, e, db) ==
    /\ T!Describes(system, k, e, db) /\ k < line /\ line <= e
    /\ Len(names) > 0 /\ names[Len(names)] = db.name
    /\ Half(system.daemon, "first", firsts, found, Len(names), k, line)
    /\ Half(system.daemon, "second", seconds, found, Len(names), k, line)

OpenSection ==
    "name" \in found =>
        \E k, e \in DOMAIN system.daemon, db \in T!TenantsOf(system) : SectionIsOpen(k, e, db)

NamesAreRead ==
    \A k \in DOMAIN system.daemon : k < line /\ system.daemon[k].kind = "name" =>
        \E m \in 1 .. Len(names) : names[m] = system.daemon[k].text

Reading == SectionsAreRead /\ OpenSection /\ NamesAreRead

LEMMA HalfKeeps ==
    ASSUME NEW daemon, NEW part, NEW k \in Nat, NEW n \in Nat, k < n, NEW m \in Nat \ {0},
           NEW list \in Seq(Nat), NEW got, NEW list2, NEW got2,
           Half(daemon, part, list, got, m, k, n),
           Len(list) = m - 1 + (IF part \in got THEN 1 ELSE 0), daemon[n].number \in Nat,
           IF part \notin got /\ daemon[n].kind = part
           THEN list2 = Append(list, daemon[n].number) /\ part \in got2
           ELSE list2 = list /\ (part \in got2 <=> part \in got)
    PROVE  Half(daemon, part, list2, got2, m, k, n + 1)
<1>1. k + 1 .. n + 1 - 1 = (k + 1 .. n - 1) \cup {n}
  OBVIOUS
<1>2. CASE part \in got
  BY <1>1, <1>2 DEF Half
<1>3. CASE part \notin got /\ daemon[n].kind = part
  <2>1. list2[m] = daemon[n].number
    BY <1>3
  <2>2. QED
    BY <1>1, <1>3, <2>1 DEF Half
<1>4. CASE part \notin got /\ daemon[n].kind # part
  BY <1>1, <1>4 DEF Half
<1>5. QED
  BY <1>2, <1>3, <1>4

\* A line outside of sections, and one that begins a section.
LEMMA OutsideIsRead ==
    ASSUME Lists, T!HalvesStayAligned, T!DaemonDescribes(system), Reading, T!ReadDaemonLine,
           "name" \notin found
    PROVE  Reading'
<1> DEFINE entry == system.daemon[line]
<1>1. /\ found = {} /\ ~T!Takes("first") /\ ~T!Takes("second") /\ ~T!SectionEnds
      /\ T!Takes("name") <=> entry.kind = "name"
      /\ line \in DOMAIN system.daemon /\ line \in Nat /\ entry.text \in STRING
      /\ system' = system /\ line' = line + 1
      /\ firsts' = firsts /\ seconds' = seconds
      /\ names' = IF T!Takes("name") THEN Append(names, entry.text) ELSE names
      /\ found' = {part \in T!Parts : T!Takes(part)}
  BY LineAdds DEF Lists
<1>2. names \in Seq(STRING) /\ Len(names) \in Nat /\ Complete = Len(names)
  BY <1>1 DEF Lists, Complete
<1>3. DOMAIN system.daemon \subseteq Nat
  <2>1. system.daemon \in Seq([kind : STRING, text : STRING, number : Nat])
    BY LandscapeAssumption DEF Lists
  <2>2. QED
    BY <2>1
<1>4. CASE entry.kind # "name"
  <2>1. names' = names /\ found' = {}
    BY <1>1, <1>4 DEF T!Parts
  <2>2. SectionsAreRead'
    BY <1>1, <1>2, <2>1 DEF Reading, SectionsAreRead, Complete, T!TenantsOf
  <2>3. OpenSection'
    BY <2>1 DEF OpenSection
  <2>4. NamesAreRead'
    BY <1>1, <1>3, <1>4, <2>1 DEF Reading, NamesAreRead
  <2>5. QED
    BY <2>2, <2>3, <2>4 DEF Reading
<1>5. CASE entry.kind = "name"
  <2>1. names' = Append(names, entry.text) /\ found' = {"name"}
    BY <1>1, <1>5 DEF T!Parts
  <2>2. /\ Len(names') = Len(names) + 1 /\ names'[Len(names) + 1] = entry.text
        /\ \A m \in 1 .. Len(names) : names'[m] = names[m]
    BY <1>1, <1>2, <2>1
  <2>3. Complete' = Complete
    BY <1>2, <2>1, <2>2 DEF Complete
  <2>4. SectionsAreRead'
    BY <1>1, <1>2, <2>2, <2>3 DEF Reading, SectionsAreRead, T!TenantsOf
  <2>5. PICK e \in DOMAIN system.daemon, db \in T!TenantsOf(system) : T!Describes(system, line, e, db)
    BY <1>1, <1>5 DEF T!DaemonDescribes
  <2>6. line < e /\ entry.text = db.name /\ e \in Nat
    BY <1>3, <2>5 DEF T!Describes
  <2>7. PICK n \in DOMAIN system.daemon : n = line
    BY <1>1
  <2>8. n + 1 .. (n + 1) - 1 = {} /\ n \in Nat
    BY <1>1, <2>7
  <2>9. SectionIsOpen(n, e, db)'
    <3>1. T!Describes(system, n, e, db)'
      BY <1>1, <2>5, <2>7 DEF T!Describes
    <3>2. QED
      BY <1>1, <2>1, <2>2, <2>5, <2>6, <2>7, <2>8, <3>1 DEF SectionIsOpen, Half
  <2>10. OpenSection'
    BY <1>1, <2>7, <2>9 DEF OpenSection, T!TenantsOf
  <2>11. NamesAreRead'
    BY <1>1, <1>2, <1>3, <2>2 DEF Reading, NamesAreRead
  <2>12. QED
    BY <2>4, <2>10, <2>11 DEF Reading
<1>6. QED
  BY <1>4, <1>5

\* The blank line that ends a section: both halves have been read, and belong
\* to the name.
LEMMA EndIsRead ==
    ASSUME Lists, T!HalvesStayAligned, Reading, T!ReadDaemonLine, stage' = "daemon",
           NEW k \in DOMAIN system.daemon, NEW db \in T!TenantsOf(system),
           SectionIsOpen(k, line, db), "name" \in found
    PROVE  Reading'
<1> DEFINE entry == system.daemon[line]
<1>1. entry.kind = "blank"
  BY DEF SectionIsOpen, T!Describes
<1>2. /\ found = T!Parts /\ found' = {} /\ ~T!Takes("name") /\ ~T!Takes("first") /\ ~T!Takes("second")
      /\ line \in Nat /\ system' = system /\ line' = line + 1
  BY <1>1, LineAdds DEF Lists
<1>3. names' = names /\ firsts' = firsts /\ seconds' = seconds
  BY <1>2, LineAdds
<1>4. "first" \in found /\ "second" \in found
  BY <1>2 DEF T!Parts
<1>5. Len(names) \in Nat /\ Complete = Len(names) - 1 /\ Complete' = Len(names)
  BY <1>2, <1>3 DEF Lists, Complete
<1>6. names[Len(names)] = db.name /\ 100 * firsts[Len(names)] + seconds[Len(names)] = db.port
  <2> DEFINE daemon == system.daemon
             inside == k + 1 .. line - 1
  <2>1. PICK i \in inside : daemon[i].kind = "first" /\ firsts[Len(names)] = daemon[i].number
    BY <1>4 DEF SectionIsOpen, Half
  <2>2. PICK j \in inside : daemon[j].kind = "second" /\ seconds[Len(names)] = daemon[j].number
    BY <1>4 DEF SectionIsOpen, Half
  <2>3. PICK a, b \in inside : /\ daemon[a].kind = "first" /\ daemon[b].kind = "second"
                               /\ db.port = 100 * daemon[a].number + daemon[b].number
    BY DEF SectionIsOpen, T!Describes
  <2>4. \A part \in {"first", "second"} : \A c, d \in inside :
           daemon[c].kind = part /\ daemon[d].kind = part => c = d
    BY DEF SectionIsOpen, T!Describes
  <2>5. a = i /\ b = j
    BY <2>1, <2>2, <2>3, <2>4
  <2>6. QED
    BY <2>1, <2>2, <2>3, <2>5 DEF SectionIsOpen
<1>7. SectionsAreRead'
  <2>1. ASSUME NEW m \in 1 .. Len(names)
        PROVE  \E t \in T!TenantsOf(system) : names[m] = t.name /\ 100 * firsts[m] + seconds[m] = t.port
    <3>1. CASE m = Len(names)
      BY <1>6, <3>1
    <3>2. CASE m # Len(names)
      <4>1. m \in 1 .. Complete
        BY <1>5, <3>2
      <4>2. QED
        BY <4>1 DEF Reading, SectionsAreRead
    <3>3. QED
      BY <3>1, <3>2
  <2>2. QED
    BY <1>2, <1>3, <1>5, <2>1 DEF SectionsAreRead, T!TenantsOf
<1>8. OpenSection'
  BY <1>2 DEF OpenSection
<1>9. NamesAreRead'
  <2>1. ASSUME NEW j \in DOMAIN system.daemon, j < line + 1, system.daemon[j].kind = "name"
        PROVE  j < line
    <3>1. j # line
      BY <1>1, <2>1
    <3>2. j \in Nat
      <4>1. system.daemon \in Seq([kind : STRING, text : STRING, number : Nat])
        BY LandscapeAssumption DEF Lists
      <4>2. QED
        BY <4>1
    <3>3. QED
      BY <1>2, <2>1, <3>1, <3>2
  <2>2. QED
    BY <1>2, <1>3, <2>1 DEF Reading, NamesAreRead
<1>10. QED
  BY <1>7, <1>8, <1>9 DEF Reading

\* A line in the middle of a section.
LEMMA InsideIsRead ==
    ASSUME Lists, T!HalvesStayAligned, Reading, T!ReadDaemonLine, stage' = "daemon",
           NEW k \in DOMAIN system.daemon, NEW e \in DOMAIN system.daemon, NEW db \in T!TenantsOf(system),
           SectionIsOpen(k, e, db), "name" \in found, line # e
    PROVE  Reading'
<1> DEFINE entry == system.daemon[line]
<1>1. /\ system.daemon \in Seq([kind : STRING, text : STRING, number : Nat])
      /\ k \in Nat /\ e \in Nat /\ line \in Nat /\ k < line /\ line < e
  <2>1. system.daemon \in Seq([kind : STRING, text : STRING, number : Nat])
    BY LandscapeAssumption DEF Lists
  <2>2. k \in Nat /\ e \in Nat /\ line \in Nat
    BY <2>1 DEF Lists
  <2>3. QED
    BY <2>1, <2>2 DEF SectionIsOpen
<1>2. entry.kind # "name" /\ entry.kind # "blank"
  <2>1. line \in k + 1 .. e - 1
    BY <1>1
  <2>2. QED
    BY <2>1 DEF SectionIsOpen, T!Describes
<1>3. /\ ~T!Takes("name") /\ ~T!SectionEnds /\ entry.number \in Nat
      /\ found' = found \cup {part \in T!Parts : T!Takes(part)}
      /\ firsts' = IF T!Takes("first") THEN Append(firsts, entry.number) ELSE firsts
      /\ seconds' = IF T!Takes("second") THEN Append(seconds, entry.number) ELSE seconds
      /\ system' = system /\ line' = line + 1
      /\ T!Takes("first") <=> "first" \notin found /\ entry.kind = "first"
      /\ T!Takes("second") <=> "second" \notin found /\ entry.kind = "second"
  BY <1>2, LineAdds
<1>4. names' = names
  BY <1>3, LineAdds
<1>5. /\ "name" \in found'
      /\ ("first" \in found') = ("first" \in found \/ T!Takes("first"))
      /\ ("second" \in found') = ("second" \in found \/ T!Takes("second"))
  BY <1>3 DEF T!Parts
<1>6. /\ firsts \in Seq(Nat) /\ seconds \in Seq(Nat) /\ Len(names) \in Nat
      /\ Len(firsts) = Len(names) - 1 + (IF "first" \in found THEN 1 ELSE 0)
      /\ Len(seconds) = Len(names) - 1 + (IF "second" \in found THEN 1 ELSE 0)
      /\ Len(firsts) \in Nat /\ Len(seconds) \in Nat
  BY DEF Lists, T!HalvesStayAligned
<1>7. Len(names) \in Nat \ {0}
  BY <1>6 DEF SectionIsOpen
<1>8. PICK n \in Nat : n = line
  BY <1>1
<1>9. Half(system.daemon, "first", firsts', found', Len(names), k, n + 1)
  <2>1. Half(system.daemon, "first", firsts, found, Len(names), k, n)
    BY <1>8 DEF SectionIsOpen
  <2>2. IF "first" \notin found /\ system.daemon[n].kind = "first"
        THEN firsts' = Append(firsts, system.daemon[n].number) /\ "first" \in found'
        ELSE firsts' = firsts /\ ("first" \in found' <=> "first" \in found)
    BY <1>3, <1>5, <1>8
  <2>3. QED
    BY <1>1, <1>3, <1>6, <1>7, <1>8, <2>1, <2>2, HalfKeeps
<1>10. Half(system.daemon, "second", seconds', found', Len(names), k, n + 1)
  <2>1. Half(system.daemon, "second", seconds, found, Len(names), k, n)
    BY <1>8 DEF SectionIsOpen
  <2>2. IF "second" \notin found /\ system.daemon[n].kind = "second"
        THEN seconds' = Append(seconds, system.daemon[n].number) /\ "second" \in found'
        ELSE seconds' = seconds /\ ("second" \in found' <=> "second" \in found)
    BY <1>3, <1>5, <1>8
  <2>3. QED
    BY <1>1, <1>3, <1>6, <1>7, <1>8, <2>1, <2>2, HalfKeeps
<1>11. SectionIsOpen(k, e, db)'
  <2>1. T!Describes(system, k, e, db)'
    BY <1>3 DEF SectionIsOpen, T!Describes
  <2>2. k < line' /\ line' <= e /\ names'[Len(names')] = db.name
    BY <1>1, <1>3, <1>4 DEF SectionIsOpen
  <2>3. QED
    BY <1>3, <1>4, <1>5, <1>8, <1>9, <1>10, <2>1, <2>2, Zenon DEF SectionIsOpen
<1>12. OpenSection'
  BY <1>3, <1>11 DEF OpenSection, T!TenantsOf
<1>13. SectionsAreRead'
  <2>1. Complete = Len(names) - 1 /\ Complete' = Len(names) - 1
    BY <1>4, <1>5 DEF Complete
  <2>2. \A m \in 1 .. Len(names) - 1 : firsts'[m] = firsts[m] /\ seconds'[m] = seconds[m]
    BY <1>3, <1>6
  <2>3. \A m \in 1 .. Len(names) - 1 : \E t \in T!TenantsOf(system) :
           names[m] = t.name /\ 100 * firsts'[m] + seconds'[m] = t.port
    BY <2>1, <2>2 DEF Reading, SectionsAreRead
  <2>4. QED
    BY <1>3, <1>4, <2>1, <2>3 DEF SectionsAreRead, T!TenantsOf
<1>14. NamesAreRead'
  <2>1. ASSUME NEW j \in DOMAIN system.daemon, j < line + 1, system.daemon[j].kind = "name"
        PROVE  j < line
    <3>1. j # line /\ j \in Nat
      BY <1>1, <1>2, <2>1
    <3>2. QED
      BY <1>1, <2>1, <3>1
  <2>2. QED
    BY <1>3, <1>4, <2>1 DEF Reading, NamesAreRead
<1>15. QED
  BY <1>12, <1>13, <1>14 DEF Reading

LEMMA LineIsRead ==
    ASSUME Lists, T!HalvesStayAligned, T!DaemonDescribes(system), Reading, T!ReadDaemonLine,
           stage' = "daemon"
    PROVE  Reading'
<1>1. CASE "name" \notin found
  BY <1>1, OutsideIsRead
<1>2. CASE "name" \in found
  <2>1. PICK k, e \in DOMAIN system.daemon, db \in T!TenantsOf(system) : SectionIsOpen(k, e, db)
    BY <1>2 DEF Reading, OpenSection
  <2>2. CASE line = e
    BY <1>2, <2>1, <2>2, EndIsRead
  <2>3. CASE line # e
    BY <1>2, <2>1, <2>3, InsideIsRead
  <2>4. QED
    BY <2>2, <2>3
<1>3. QED
  BY <1>1, <1>2

\* tenantDBNames and their ports are those of the tenants.
TenantsAreRight ==
    /\ \A k \in DOMAIN tenants : \E db \in T!TenantsOf(system) :
          tenants[k].name = db.name /\ tenants[k].port = db.port
    /\ \A db \in T!TenantsOf(system) : \E k \in DOMAIN tenants :
          tenants[k].name = db.name /\ tenants[k].port = db.port

TargetIsRight ==
    \A db \in system.databases : db.sql = sqlPort => port = db.port /\ tenantName = db.name

Progress ==
    /\ stage \in {"key", "info", "daemon", "database"} => tenantName = T!NoTenant
    /\ stage \in {"key", "info"} => line = 1 /\ names = <<>> /\ found = {}
    /\ stage = "daemon" => system.info # <<>> /\ isMdc /\ T!OwnedBySystem(system) /\ Reading
    /\ stage = "database" => (isMdc <=> system.info # <<>>) /\ (isMdc => TenantsAreRight)
    /\ stage \in {"hosts", "uses", "done"} => TargetIsRight
    /\ stage = "uses" => hosts = system.landscape
    /\ stage = "done" => usedHosts = {h \in T!ItemsOf(system.landscape) : port \in system.locks[h]}

\* At its end, every tenant of daemon.ini has been read, and nothing else.
LEMMA DaemonIsRead ==
    ASSUME Lists, T!HalvesStayAligned, T!Coherent(system), Reading, T!DaemonEnds,
           system.info # <<>>, T!OwnedBySystem(system)
    PROVE  TenantsAreRight'
<1>1. /\ names \in Seq(STRING) /\ firsts \in Seq(Nat) /\ seconds \in Seq(Nat)
      /\ Len(names) \in Nat /\ Len(firsts) \in Nat /\ Len(seconds) \in Nat
  BY DEF Lists
<1>2. \A k \in DOMAIN system.daemon : k \in Nat /\ k < line
  <2>1. system.daemon \in Seq([kind : STRING, text : STRING, number : Nat])
    BY LandscapeAssumption DEF Lists
  <2>2. line > Len(system.daemon) /\ line \in Nat
    BY DEF T!DaemonEnds, Lists
  <2>3. DOMAIN system.daemon = 1 .. Len(system.daemon) /\ Len(system.daemon) \in Nat
    BY <2>1
  <2>4. QED
    BY <2>2, <2>3
<1>3. "name" \notin found
  <2>1. ASSUME "name" \in found
        PROVE  FALSE
    <3>1. PICK k, e \in DOMAIN system.daemon, db \in T!TenantsOf(system) : SectionIsOpen(k, e, db)
      BY <2>1 DEF Reading, OpenSection
    <3>2. line <= e /\ e < line /\ e \in Nat /\ line \in Nat
      BY <1>2, <3>1 DEF SectionIsOpen, Lists
    <3>3. QED
      BY <3>2
  <2>2. QED
    BY <2>1
<1>4. Complete = Len(names) /\ Len(firsts) = Len(names) /\ Len(seconds) = Len(names)
  <2>1. found = {}
    BY <1>3 DEF Lists
  <2>2. QED
    BY <1>1, <2>1 DEF Complete, T!HalvesStayAligned
<1>5. /\ DOMAIN tenants' = 1 .. Len(names) /\ system' = system
      /\ \A k \in 1 .. Len(names) : /\ tenants'[k].name = names[k]
                                    /\ tenants'[k].port = 100 * firsts[k] + seconds[k]
  <2>1. tenants' = T!DaemonTenants /\ system' = system
    BY DEF T!DaemonEnds, T!given
  <2>2. {k \in DOMAIN names : k <= Len(firsts) /\ k <= Len(seconds)} = 1 .. Len(names)
    BY <1>1, <1>4
  <2>3. QED
    BY <2>1, <2>2 DEF T!DaemonTenants
<1>6. ASSUME NEW k \in DOMAIN tenants'
      PROVE  \E db \in T!TenantsOf(system) : tenants'[k].name = db.name /\ tenants'[k].port = db.port
  <2>1. k \in 1 .. Complete
    BY <1>4, <1>5
  <2>2. PICK db \in T!TenantsOf(system) : names[k] = db.name /\ 100 * firsts[k] + seconds[k] = db.port
    BY <2>1 DEF Reading, SectionsAreRead
  <2>3. QED
    BY <1>5, <2>2
<1>7. ASSUME NEW db \in T!TenantsOf(system)
      PROVE  \E k \in DOMAIN tenants' : tenants'[k].name = db.name /\ tenants'[k].port = db.port
  <2>1. PICK k, e \in DOMAIN system.daemon : T!Describes(system, k, e, db)
    BY DEF T!Coherent, T!DaemonDescribes
  <2>2. k < line /\ system.daemon[k].kind = "name" /\ system.daemon[k].text = db.name
    BY <1>2, <2>1 DEF T!Describes
  <2>3. PICK m \in 1 .. Len(names) : names[m] = db.name
    BY <2>2 DEF Reading, NamesAreRead
  <2>4. PICK other \in T!TenantsOf(system) : tenants'[m].name = other.name /\ tenants'[m].port = other.port
    BY <1>5, <1>6
  <2>5. other = db
    BY <1>5, <2>3, <2>4 DEF T!Coherent
  <2>6. QED
    BY <1>5, <2>4, <2>5
<1>8. QED
  BY <1>5, <1>6, <1>7 DEF TenantsAreRight, T!TenantsOf

\* Tenant: of the ports it accepts, no two have the same SQL port, and none
\* has that of the SystemDB.
LEMMA SqlPorts ==
    ASSUME sqlPort \in Nat, NEW p \in Nat, NEW q \in Nat,
           ~T!Unruly(p), ~T!Unruly(q), T!SqlPort(p) = T!SqlPort(q)
    PROVE  p = q
<1>1. T!Service(T!Instance(sqlPort), 0) \in Nat
  BY ServiceTyped
<1>2. PICK s \in Nat : s = T!Service(T!Instance(sqlPort), 0)
  BY <1>1
<1>3. /\ T!Service(T!Instance(sqlPort), 3) = s + 3
      /\ T!Service(T!Instance(sqlPort), 15) = s + 15
      /\ T!Service(T!Instance(sqlPort), 40) = s + 40
  BY <1>2, ServiceIs
<1>4. /\ p >= s + 40 \/ p = s + 3
      /\ q >= s + 40 \/ q = s + 3
  BY <1>3 DEF T!Unruly
<1>5. /\ T!SqlPort(p) = IF p >= s + 40 THEN p + 1 ELSE s + 15
      /\ T!SqlPort(q) = IF q >= s + 40 THEN q + 1 ELSE s + 15
  BY <1>3 DEF T!SqlPort
<1>6. CASE p >= s + 40 /\ q >= s + 40
  <2>1. p + 1 = q + 1
    BY <1>5, <1>6, Zenon
  <2>2. QED
    BY <2>1
<1>7. CASE p = s + 3 /\ q = s + 3
  BY <1>7
<1>8. ASSUME NEW a \in Nat, NEW b \in Nat, a >= s + 40, b = s + 3
      PROVE  a + 1 # s + 15 /\ ~(b >= s + 40)
  BY <1>2, <1>8
<1>9. CASE p >= s + 40 /\ q = s + 3
  BY <1>5, <1>8, <1>9, Zenon
<1>10. CASE p = s + 3 /\ q >= s + 40
  BY <1>5, <1>8, <1>10, Zenon
<1>11. QED
  BY <1>4, <1>6, <1>7, <1>9, <1>10

LEMMA TenantSqlPort ==
    ASSUME sqlPort \in Nat, NEW db, db.sql = sqlPort, T!PortsAgree(db), db.port \in Nat
    PROVE  T!SqlPort(db.port) = sqlPort
<1>1. PICK s \in Nat : s = T!Service(T!Instance(sqlPort), 0)
  BY ServiceTyped
<1>2. /\ T!Service(T!Instance(sqlPort), 3) = s + 3
      /\ T!Service(T!Instance(sqlPort), 15) = s + 15
      /\ T!Service(T!Instance(sqlPort), 40) = s + 40
  BY <1>1, ServiceIs
<1>3. \/ db.port >= s + 40 /\ sqlPort = db.port + 1
      \/ db.port = s + 3 /\ sqlPort = s + 15
  BY <1>2 DEF T!PortsAgree
<1>4. T!SqlPort(db.port) = IF db.port >= s + 40 THEN db.port + 1 ELSE s + 15
  BY <1>2 DEF T!SqlPort
<1>5. QED
  BY <1>1, <1>3, <1>4

LEMMA SystemSqlPort ==
    ASSUME sqlPort \in Nat, sqlPort = T!Service(T!Instance(sqlPort), 13), NEW p \in Nat
    PROVE  T!SqlPort(p) # sqlPort
<1>1. PICK s \in Nat : s = T!Service(T!Instance(sqlPort), 0)
  BY ServiceTyped
<1>2. /\ T!Service(T!Instance(sqlPort), 13) = s + 13
      /\ T!Service(T!Instance(sqlPort), 15) = s + 15
      /\ T!Service(T!Instance(sqlPort), 40) = s + 40
  BY <1>1, ServiceIs
<1>3. T!SqlPort(p) = IF p >= s + 40 THEN p + 1 ELSE s + 15
  BY <1>2 DEF T!SqlPort
<1>4. QED
  BY <1>1, <1>2, <1>3

LEMMA TargetIsFound ==
    ASSUME Shape, T!Coherent(system), Progress, T!FindDatabase, stage' = "hosts"
    PROVE  TargetIsRight'
<1>1. /\ stage = "database" /\ sqlPort' = sqlPort /\ system' = system /\ tenants' = tenants
      /\ tenantName = T!NoTenant /\ sqlPort \in Nat /\ (isMdc <=> system.info # <<>>)
  BY DEF T!FindDatabase, T!given, Progress, Shape
<1> SUFFICES ASSUME NEW db \in system.databases, db.sql = sqlPort
             PROVE  port' = db.port /\ tenantName' = db.name
  BY <1>1 DEF TargetIsRight
<1>2. CASE ~isMdc
  <2>1. port' = T!Service(T!Instance(sqlPort), 3) /\ tenantName' = T!NoTenant
    BY <1>1, <1>2 DEF T!FindDatabase
  <2>2. db.name = T!NoTenant /\ db.port = T!Service(T!Instance(db.sql), 3)
    BY <1>1, <1>2 DEF T!Coherent
  <2>3. QED
    BY <2>1, <2>2
<1>3. CASE isMdc
  <2>1. /\ \A k \in DOMAIN tenants : ~T!Unruly(tenants[k].port)
        /\ tenantName' = IF Matches = {} THEN T!NoTenant ELSE tenants[LastMatch].name
        /\ port' = IF Matches = {} THEN system.nameservers[1] ELSE tenants[LastMatch].port
    BY <1>3, Zenon DEF T!FindDatabase, Matches, LastMatch
  <2>2. \A k \in DOMAIN tenants : tenants[k].port \in Nat
    BY DEF Shape
  <2>3. TenantsAreRight
    BY <1>1, <1>3 DEF Progress
  <2>4. CASE db \in T!TenantsOf(system)
    <3>1. PICK k \in DOMAIN tenants : tenants[k].name = db.name /\ tenants[k].port = db.port
      BY <2>3, <2>4 DEF TenantsAreRight
    <3>2. T!PortsAgree(db)
      BY <1>1, <1>3, <2>4 DEF T!Coherent
    <3>3. T!SqlPort(tenants[k].port) = sqlPort
      BY <1>1, <2>2, <3>1, <3>2, TenantSqlPort
    <3>4. k \in Matches
      BY <3>3 DEF Matches
    <3>5. LastMatch \in Matches
      BY <3>4, LastMatchExists
    <3>6. LastMatch \in DOMAIN tenants /\ T!SqlPort(tenants[LastMatch].port) = sqlPort
      BY <3>5 DEF Matches
    <3>7. tenants[LastMatch].port = db.port
      BY <1>1, <2>1, <2>2, <3>1, <3>3, <3>6, SqlPorts
    <3>8. PICK other \in T!TenantsOf(system) :
            tenants[LastMatch].name = other.name /\ tenants[LastMatch].port = other.port
      BY <2>3, <3>6 DEF TenantsAreRight
    <3>9. other = db
      BY <1>1, <1>3, <2>4, <3>7, <3>8 DEF T!Coherent
    <3>10. QED
      BY <2>1, <3>4, <3>7, <3>8, <3>9
  <2>5. CASE db \notin T!TenantsOf(system)
    <3>1. /\ db.name = T!NoTenant /\ db.port = system.nameservers[1]
          /\ sqlPort = T!Service(T!Instance(sqlPort), 13)
      BY <1>1, <1>3, <2>5 DEF T!Coherent, T!TenantsOf
    <3>2. Matches = {}
      BY <1>1, <2>2, <3>1, SystemSqlPort DEF Matches
    <3>3. QED
      BY <2>1, <3>1, <3>2
  <2>6. QED
    BY <2>4, <2>5
<1>4. QED
  BY <1>2, <1>3

LEMMA InfoProgress ==
    ASSUME Shape, T!Coherent(system), Progress, T!ReadInfo
    PROVE  Progress'
<1>1. /\ stage = "info" /\ tenants' = system.info /\ system' = system
      /\ (isMdc' <=> system.info # <<>>)
      /\ line' = 1 /\ names' = <<>> /\ found' = {} /\ line = 1 /\ names = <<>> /\ found = {}
      /\ tenantName' = tenantName /\ tenantName = T!NoTenant
  BY DEF T!ReadInfo, T!given, T!reading, T!target, Progress
<1>2. /\ stage' \in {"crashed", "daemon", "database"}
      /\ stage' = "daemon" => isMdc' /\ T!OwnedBySystem(system)
      /\ stage' = "database" => ~isMdc' \/ ~T!OwnedBySystem(system)
  BY DEF T!ReadInfo
<1>3. Reading'
  <2>1. Len(<<>>) = 0 /\ 1 .. 0 = {}
    OBVIOUS
  <2>2. SectionsAreRead'
    <3>1. 1 .. Complete' = {}
      BY <1>1, <2>1 DEF Complete
    <3>2. QED
      BY <3>1 DEF SectionsAreRead
  <2>3. OpenSection'
    BY <1>1 DEF OpenSection
  <2>4. NamesAreRead'
    <3>1. system.daemon \in Seq([kind : STRING, text : STRING, number : Nat])
      BY LandscapeAssumption DEF Shape, Lists
    <3>2. \A k \in DOMAIN system.daemon : ~(k < 1)
      BY <3>1
    <3>3. QED
      BY <1>1, <3>2 DEF NamesAreRead
  <2>5. QED
    BY <2>2, <2>3, <2>4 DEF Reading
<1>4. ASSUME stage' = "database", isMdc'
      PROVE  TenantsAreRight'
  <2>1. {[name |-> db.name, port |-> db.port] : db \in T!TenantsOf(system)} = T!ItemsOf(system.info)
    BY <1>1, <1>2, <1>4 DEF T!Coherent
  <2>2. ASSUME NEW k \in DOMAIN system.info
        PROVE  \E db \in T!TenantsOf(system) : system.info[k].name = db.name /\ system.info[k].port = db.port
    <3>1. system.info[k] \in T!ItemsOf(system.info)
      BY DEF T!ItemsOf
    <3>2. PICK db \in T!TenantsOf(system) : system.info[k] = [name |-> db.name, port |-> db.port]
      BY <2>1, <3>1
    <3>3. QED
      BY <3>2
  <2>3. ASSUME NEW db \in T!TenantsOf(system)
        PROVE  \E k \in DOMAIN system.info : system.info[k].name = db.name /\ system.info[k].port = db.port
    <3>1. [name |-> db.name, port |-> db.port] \in T!ItemsOf(system.info)
      BY <2>1
    <3>2. PICK k \in DOMAIN system.info : system.info[k] = [name |-> db.name, port |-> db.port]
      BY <3>1 DEF T!ItemsOf
    <3>3. QED
      BY <3>2
  <2>4. QED
    BY <1>1, <2>2, <2>3 DEF TenantsAreRight, T!TenantsOf
<1>5. QED
  BY <1>1, <1>2, <1>3, <1>4 DEF Progress, T!OwnedBySystem

LEMMA DaemonProgress ==
    ASSUME Shape, T!HalvesStayAligned, T!Coherent(system), Progress, T!ReadDaemonLine \/ T!DaemonEnds
    PROVE  Progress'
<1>1. /\ stage = "daemon" /\ system' = system /\ isMdc' = isMdc /\ tenantName' = tenantName
      /\ tenantName = T!NoTenant /\ system.info # <<>> /\ isMdc /\ T!OwnedBySystem(system)
      /\ Reading /\ Lists
  BY DEF T!ReadDaemonLine, T!DaemonEnds, T!given, T!target, Progress, Shape
<1>2. CASE T!ReadDaemonLine
  <2>1. stage' \in {"daemon", "rejected"}
    BY <1>2 DEF T!ReadDaemonLine
  <2>2. T!DaemonDescribes(system)
    BY <1>1 DEF T!Coherent
  <2>3. stage' = "daemon" => Reading'
    BY <1>1, <1>2, <2>2, LineIsRead
  <2>4. QED
    BY <1>1, <2>1, <2>3 DEF Progress, T!OwnedBySystem
<1>3. CASE T!DaemonEnds
  <2>1. stage' = "database"
    BY <1>3 DEF T!DaemonEnds
  <2>2. TenantsAreRight'
    BY <1>1, <1>3, DaemonIsRead
  <2>3. QED
    BY <1>1, <2>1, <2>2 DEF Progress
<1>4. QED
  BY <1>2, <1>3

LEMMA HostsProgress ==
    ASSUME Progress, T!FindHosts \/ T!FindUsedHosts
    PROVE  Progress'
<1>1. /\ UNCHANGED <<system, sqlPort, tenantName, port>> /\ stage \in {"hosts", "uses"} /\ TargetIsRight
  BY DEF T!FindHosts, T!FindUsedHosts, T!given, T!target, Progress
<1>2. TargetIsRight'
  BY <1>1 DEF TargetIsRight
<1>3. CASE T!FindHosts
  <2>1. hosts' = system.landscape /\ stage' \in {"rejected", "uses"}
    BY <1>3 DEF T!FindHosts
  <2>2. QED
    BY <1>1, <1>2, <2>1 DEF Progress
<1>4. CASE T!FindUsedHosts
  <2>1. /\ hosts = system.landscape /\ stage' \in {"done", "crashed"}
        /\ stage' = "done" => usedHosts' = {h \in T!ItemsOf(hosts) : port \in system.locks[h]}
    BY <1>4 DEF T!FindUsedHosts, T!HasLock, Progress
  <2>2. stage' = "done" => usedHosts' = {h \in T!ItemsOf(system'.landscape) : port' \in system'.locks[h]}
    BY <1>1, <2>1
  <2>3. QED
    BY <1>1, <1>2, <2>1, <2>2 DEF Progress, T!ItemsOf
<1>5. QED
  BY <1>3, <1>4

LEMMA ProgressStep ==
    ASSUME Shape, T!HalvesStayAligned, T!Coherent(system), Progress, [Next]_startupVars
    PROVE  Progress'
<1>1. CASE T!ReadKey
  <2>1. /\ stage = "key" /\ stage' \in {"info", "rejected"}
        /\ UNCHANGED <<line, names, found, tenantName>>
    BY <1>1 DEF T!ReadKey, T!reading, T!target
  <2>2. QED
    BY <2>1 DEF Progress
<1>2. CASE T!FindDatabase
  <2>1. stage' \in {"hosts", "rejected"}
    BY <1>2 DEF T!FindDatabase
  <2>2. stage' = "hosts" => TargetIsRight'
    BY <1>2, TargetIsFound
  <2>3. QED
    BY <2>1, <2>2 DEF Progress
<1>3. CASE UNCHANGED topologyVars
  BY <1>3 DEF topologyVars, Progress, Reading, SectionsAreRead, OpenSection, NamesAreRead, Complete,
     SectionIsOpen, TenantsAreRight, TargetIsRight
<1>4. T!TopologyNext \/ UNCHANGED topologyVars
  BY DEF Next, DiscoverStep, Stopped, startupVars
<1>5. QED
  BY <1>1, <1>2, <1>3, <1>4, InfoProgress, DaemonProgress, HostsProgress DEF T!TopologyNext

\* The database that is found is the one the key names, on its hosts, for
\* any number of tenants and hosts and any daemon.ini, as long as the files
\* and commands of HANA describe what runs (hanasitter.py:1160-1202).
THEOREM FindsTheDatabase == Spec => [](T!Coherent(system) => DatabaseIsIdentified)
<1> DEFINE Known == T!Coherent(system) => Progress
<1>1. Init => Known
  <2>1. Init => /\ stage = "key" /\ line = 1 /\ names = <<>> /\ found = {} /\ tenantName = T!NoTenant
    BY DEF Init, T!TopologyInit
  <2>2. QED
    BY <2>1 DEF Progress
<1>2. Shape /\ T!HalvesStayAligned /\ Known /\ [Next]_startupVars => Known'
  <2> SUFFICES ASSUME Shape, T!HalvesStayAligned, Known, [Next]_startupVars, T!Coherent(system)'
               PROVE  Progress'
    OBVIOUS
  <2>1. system' = system
    BY DEF Next, DiscoverStep, Stopped, startupVars, topologyVars, T!TopologyNext, T!ReadKey, T!ReadInfo,
       T!ReadDaemonLine, T!DaemonEnds, T!FindDatabase, T!FindHosts, T!FindUsedHosts, T!given
  <2>2. T!Coherent(system)
    BY <2>1
  <2>3. QED
    BY <2>2, ProgressStep
<1>3. Known => (T!Coherent(system) => DatabaseIsIdentified)
  BY DEF Progress, TargetIsRight, DatabaseIsIdentified, T!DatabaseIsIdentified, T!Coherent
<1>4. QED
  BY <1>1, <1>2, <1>3, ShapeInit, ShapeAlwaysStep, PTL DEF Spec
=============================================================================
