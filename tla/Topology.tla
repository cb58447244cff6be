------------------------------ MODULE Topology ------------------------------
(***************************************************************************)
(* How main() of hanasitter.py finds the database it is to watch: from the *)
(* key of hdbuserstore, the output of HDB info, the lock files, daemon.ini *)
(* and the landscape of sapcontrol.  daemon.ini is read line by line.      *)
(*                                                                         *)
(* A port is a number, 30000 + 100 * instance + service.  A system is a    *)
(* record of what the commands show; databases, in it, is what runs there, *)
(* which only the properties see.                                          *)
(***************************************************************************)
EXTENDS Integers, Sequences

CONSTANTS
    Systems,   \* the systems considered
    ShortName  \* the first part of a host name

VARIABLES
    system,     \* the system, fixed
    hostCheck,  \* -hc, fixed
    stage,
    line,                     \* the next line of daemon.ini
    names, firsts, seconds,   \* what has been read from it: tenants, halves of the ports
    found,                    \* the parts of the current section that were found
    tenants,                  \* tenantDBNames with tenantIndexserverPorts
    sqlPort, isMdc,           \* local_sqlport, is_mdc
    tenantName, port,         \* tenantDBName, communicationPort
    hosts, usedHosts          \* hosts_worker_and_standby, used_hosts

given == <<system, hostCheck>>
reading == <<line, names, firsts, seconds, found>>
target == <<tenantName, port>>
landscape == <<hosts, usedHosts>>
topologyVars == <<given, stage, reading, tenants, sqlPort, isMdc, target, landscape>>

NoTenant == ""   \* None

Instance(p) == (p \div 100) % 100
Service(inst, n) == 30000 + 100 * inst + n

TopologyInit ==
    /\ system \in Systems
    /\ hostCheck \in BOOLEAN
    /\ stage = "key"
    /\ line = 1 /\ names = <<>> /\ firsts = <<>> /\ seconds = <<>> /\ found = {}
    /\ tenants = <<>> /\ sqlPort = 0 /\ isMdc = FALSE
    /\ tenantName = NoTenant /\ port = 0
    /\ hosts = <<>> /\ usedHosts = {}

----------------------------------------------------------------------------
KeyHost(k) == system.key[k].host

\* The entry of the local host, and the first one if there is none.
LocalEntry ==
    IF \E k \in DOMAIN system.key : KeyHost(k) = system.local
    THEN CHOOSE k \in DOMAIN system.key : /\ KeyHost(k) = system.local
                                          /\ \A j \in 1 .. k - 1 : KeyHost(j) # system.local
    ELSE 1

ReadKey ==
    /\ stage = "key"
    /\ sqlPort' = system.key[LocalEntry].port
    /\ stage' = IF hostCheck /\ \E k \in DOMAIN system.key :
                                   Instance(system.key[k].port) # Instance(system.key[1].port)
                THEN "rejected" ELSE "info"
    /\ UNCHANGED <<given, reading, tenants, isMdc, target, landscape>>

\* The name of the user owning an indexserver is that of the tenant if
\* tenants are highly isolated; otherwise all are owned by <sid>adm.
OwnedBySystem(s) == \A k \in DOMAIN s.info : s.info[k].name = s.sid

ReadInfo ==
    /\ stage = "info"
    /\ tenants' = system.info
    /\ isMdc' = (system.info # <<>>)
    /\ stage' = IF system.nameservers = <<>> THEN "crashed"
                ELSE IF isMdc' /\ OwnedBySystem(system) THEN "daemon" ELSE "database"
    /\ UNCHANGED <<given, reading, sqlPort, target, landscape>>

\* tenant_names_and_ports: what one line adds.  The lines with the port and
\* with the instance ids come in either order, and other sections have them
\* as well.
DaemonLine == system.daemon[line]

Takes(part) ==
    /\ part \notin found /\ DaemonLine.kind = part
    /\ part = "name" \/ "name" \in found

Extended(list, part, item) == IF Takes(part) THEN Append(list, item) ELSE list

Parts == {"name", "first", "second"}
SectionEnds == "name" \in found /\ DaemonLine.kind = "blank"

SectionComplete == found = Parts

ReadDaemonLine ==
    /\ stage = "daemon" /\ line <= Len(system.daemon)
    /\ names' = Extended(names, "name", DaemonLine.text)
    /\ firsts' = Extended(firsts, "first", DaemonLine.number)
    /\ seconds' = Extended(seconds, "second", DaemonLine.number)
    /\ found' = IF SectionEnds /\ SectionComplete THEN {} ELSE found \cup {part \in Parts : Takes(part)}
    /\ stage' = IF SectionEnds /\ ~SectionComplete THEN "rejected" ELSE "daemon"
    /\ line' = line + 1
    /\ UNCHANGED <<given, tenants, sqlPort, isMdc, target, landscape>>

\* Mutant: the ports in the order of HDB info.
DaemonTenants_InfoOrder ==
    [k \in {k \in DOMAIN names : k <= Len(system.info)} |->
        [name |-> names[k], port |-> system.info[k].port]]

\* zip() ends with the shortest list.
DaemonTenants ==
    [k \in {k \in DOMAIN names : k <= Len(firsts) /\ k <= Len(seconds)} |->
        [name |-> names[k], port |-> 100 * firsts[k] + seconds[k]]]

DaemonEnds ==
    /\ stage = "daemon" /\ line > Len(system.daemon)
    /\ tenants' = DaemonTenants
    /\ stage' = "database"
    /\ UNCHANGED <<given, reading, sqlPort, isMdc, target, landscape>>

\* Tenant: the SQL port that belongs to the port of an indexserver.
SqlPort(p) == IF p >= Service(Instance(sqlPort), 40) THEN p + 1 ELSE Service(Instance(sqlPort), 15)
Unruly(p) == p < Service(Instance(sqlPort), 40) /\ p # Service(Instance(sqlPort), 3)

\* The last tenant with the SQL port of the key; without one it is the
\* SystemDB, whatever that port is.
FindDatabase ==
    /\ stage = "database"
    /\ IF isMdc
       THEN LET matches == {k \in DOMAIN tenants : SqlPort(tenants[k].port) = sqlPort}
                last == CHOOSE k \in matches : \A j \in matches : j <= k
            IN  IF \E k \in DOMAIN tenants : Unruly(tenants[k].port)
                THEN stage' = "rejected" /\ UNCHANGED target
                ELSE /\ tenantName' = IF matches = {} THEN NoTenant ELSE tenants[last].name
                     /\ port' = IF matches = {} THEN system.nameservers[1] ELSE tenants[last].port
                     /\ stage' = "hosts"
       ELSE /\ port' = Service(Instance(sqlPort), 3)
            /\ stage' = IF sqlPort = Service(Instance(sqlPort), 15) THEN "hosts" ELSE "rejected"
            /\ UNCHANGED tenantName
    /\ UNCHANGED <<given, reading, tenants, sqlPort, isMdc, landscape>>

ItemsOf(list) == {list[k] : k \in DOMAIN list}
InLandscape(host) == \E h \in ItemsOf(system.landscape) : h = host \/ ShortName[h] = ShortName[host]

FindHosts ==
    /\ stage = "hosts"
    /\ hosts' = system.landscape
    /\ stage' = IF hostCheck /\ \E k \in DOMAIN system.key :
                                   KeyHost(k) # "localhost" /\ ~InLandscape(KeyHost(k))
                THEN "rejected" ELSE "uses"
    /\ UNCHANGED <<given, reading, tenants, sqlPort, isMdc, target, usedHosts>>

HasLock(h) == port \in system.locks[h]

FindUsedHosts ==
    /\ stage = "uses"
    /\ IF \A h \in ItemsOf(hosts) : h \in DOMAIN system.locks
       THEN usedHosts' = {h \in ItemsOf(hosts) : HasLock(h)} /\ stage' = "done"
       ELSE stage' = "crashed" /\ UNCHANGED usedHosts
    /\ UNCHANGED <<given, reading, tenants, sqlPort, isMdc, target, hosts>>

TopologyNext ==
    \/ ReadKey \/ ReadInfo \/ ReadDaemonLine \/ DaemonEnds \/ FindDatabase
    \/ FindHosts \/ FindUsedHosts
TopologySpec == TopologyInit /\ [][TopologyNext]_topologyVars

----------------------------------------------------------------------------
TopologyTypeOK ==
    /\ system \in Systems
    /\ hostCheck \in BOOLEAN
    /\ stage \in {"key", "info", "daemon", "database", "hosts", "uses", "done", "rejected", "crashed"}
    /\ line \in Nat \ {0}
    /\ names \in Seq(STRING) /\ firsts \in Seq(Nat) /\ seconds \in Seq(Nat)
    /\ found \subseteq Parts
    /\ sqlPort \in Nat /\ port \in Nat
    /\ isMdc \in BOOLEAN
    /\ tenantName \in STRING \cup {NoTenant}
    /\ \A k \in DOMAIN tenants : tenants[k] \in [name : STRING, port : Nat]
    /\ hosts \in Seq(STRING) /\ usedHosts \subseteq ItemsOf(hosts)

\* zip() pairs the lists by position: at every line of daemon.ini they have
\* the same length, but for the parts of the section that is being read
\* (hanasitter.py:508-526).
HalvesStayAligned ==
    LET complete == Len(names) - (IF "name" \in found THEN 1 ELSE 0) IN
    /\ Len(firsts) = complete + (IF "first" \in found THEN 1 ELSE 0)
    /\ Len(seconds) = complete + (IF "second" \in found THEN 1 ELSE 0)

----------------------------------------------------------------------------
(* What HANA owes the sitter: its files and commands describe what runs.   *)

TenantsOf(s) == {db \in s.databases : db.name # NoTenant}

\* Lines k to e of daemon.ini are the section of db: other lines may stand
\* anywhere in it, and port and instance ids in either order.
Describes(s, k, e, db) ==
    LET inside == k + 1 .. e - 1
        At(i, part) == s.daemon[i].kind = part
    IN  /\ At(k, "name") /\ s.daemon[k].text = db.name
        /\ k < e /\ At(e, "blank") /\ \A i \in inside : ~At(i, "name") /\ ~At(i, "blank")
        /\ \E i, j \in inside : /\ At(i, "first") /\ At(j, "second")
                               /\ db.port = 100 * s.daemon[i].number + s.daemon[j].number
        /\ \A part \in {"first", "second"} : \A i, j \in inside : At(i, part) /\ At(j, part) => i = j

DaemonDescribes(s) ==
    /\ \A k \in DOMAIN s.daemon : s.daemon[k].kind = "name" =>
          \E e \in DOMAIN s.daemon, db \in TenantsOf(s) : Describes(s, k, e, db)
    /\ \A db \in TenantsOf(s) : \E k, e \in DOMAIN s.daemon : Describes(s, k, e, db)

\* An indexserver below 3<inst>40 is the first tenant, of an old system.
PortsAgree(db) ==
    \/ db.port >= Service(Instance(db.sql), 40) /\ db.sql = db.port + 1
    \/ db.port = Service(Instance(db.sql), 3) /\ db.sql = Service(Instance(db.sql), 15)

Coherent(s) ==
    /\ \A db \in s.databases : db.hosts = {h \in ItemsOf(s.landscape) : db.port \in s.locks[h]}
    /\ s.info = <<>> =>
         \A db \in s.databases : db.name = NoTenant /\ db.port = Service(Instance(db.sql), 3)
    /\ s.info # <<>> =>
         /\ \A db \in s.databases \ TenantsOf(s) :
               db.port = s.nameservers[1] /\ db.sql = Service(Instance(db.sql), 13)
         /\ \A db \in TenantsOf(s) : PortsAgree(db)
         /\ \A db, other \in TenantsOf(s) : db.name = other.name \/ db.port = other.port => db = other
         /\ IF OwnedBySystem(s) THEN DaemonDescribes(s)
            ELSE {[name |-> db.name, port |-> db.port] : db \in TenantsOf(s)} = ItemsOf(s.info)

----------------------------------------------------------------------------
\* The database that is watched is the one whose SQL port the key names, on
\* the hosts where it runs: in whatever order HDB info and daemon.ini list
\* the tenants, and in whichever of its layouts (hanasitter.py:1160-1202).
DatabaseIsIdentified ==
    stage = "done" =>
        \A db \in system.databases : db.sql = sqlPort =>
            /\ port = db.port /\ tenantName = db.name
            /\ usedHosts = db.hosts
=============================================================================
