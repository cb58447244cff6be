------------------------------ MODULE Startup ------------------------------
(***************************************************************************)
(* main() of hanasitter.py up to its loop: SitterConfig with the discovery *)
(* of the landscape, Topology, in its place.                               *)
(***************************************************************************)
EXTENDS SitterConfig

CONSTANTS Systems, ShortName

VARIABLES system, stage, line, names, firsts, seconds, found, tenants, sqlPort, isMdc,
          tenantName, port, hosts, usedHosts

ASSUME LandscapeAssumption ==
    \A s \in Systems :
        /\ s.key \in Seq([host : STRING, port : Nat]) \ {<<>>}
        /\ s.info \in Seq([name : STRING, port : Nat])
        /\ s.nameservers \in Seq(Nat)
        /\ s.daemon \in Seq([kind : STRING, text : STRING, number : Nat])
        /\ s.landscape \in Seq(STRING)

T == INSTANCE Topology WITH hostCheck <- True("-hc")

topologyVars == <<system, stage, line, names, firsts, seconds, found, tenants, sqlPort, isMdc,
                  tenantName, port, hosts, usedHosts>>
startupVars == <<configVars, topologyVars>>

Init == ConfigInit /\ T!TopologyInit

\* Mutant: -hm is switched off as soon as the hosts are known.
DiscoverStep_ResetsHostMode ==
    /\ pc = "discover"
    /\ UNCHANGED <<inputs, source, delimiter, next>>
    /\ value' \in {value, [value EXCEPT !["-hm"] = <<"false">>]}
    /\ T!TopologyNext
    /\ (value' # value) = (stage' = "done" /\ Len(hosts') = 1 /\ True("-hm"))
    /\ pc' = CASE stage' = "done" -> "switches"
               [] stage' = "rejected" -> "rejected"
               [] stage' = "crashed" -> "unavailable"
               [] OTHER -> "discover"
    /\ scaleOut' = IF pc' = "discover" THEN scaleOut ELSE Len(hosts') > 1

\* The landscape decides whether this is a scale-out.
DiscoverStep ==
    /\ pc = "discover"
    /\ UNCHANGED <<inputs, settings, delimiter, next>>
    /\ T!TopologyNext
    /\ pc' = CASE stage' = "done" -> "switches"
               [] stage' = "rejected" -> "rejected"
               [] stage' = "crashed" -> "unavailable"
               [] OTHER -> "discover"
    /\ scaleOut' = IF pc' = "discover" THEN scaleOut ELSE Len(hosts') > 1

Stopped == pc \in {"loop", "rejected", "crashed", "unavailable"} /\ UNCHANGED startupVars

Next ==
    \/ (ReadConfig \/ CheckConfig) /\ UNCHANGED topologyVars
    \/ DiscoverStep
    \/ Stopped

Spec == Init /\ [][Next]_startupVars

----------------------------------------------------------------------------
TypeOK == ConfigTypeOK /\ T!TopologyTypeOK

HalvesStayAligned == T!HalvesStayAligned
DatabaseIsIdentified == T!DatabaseIsIdentified

\* With the topology in its place, the start still is one that SitterConfig
\* allows: the discovery is one step between -hc and the other checks.
ConfigIsKept == ConfigSpec
=============================================================================
