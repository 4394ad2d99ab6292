----------------------------- MODULE Management -----------------------------
(***************************************************************************)
(* What operators act on besides routes, and where the data come from:     *)
(* device configurations, accounts, tenants, request limits, the cache of  *)
(* external data; the prefix tree, the registered prefixes, the collection *)
(* of RPKI data, the data sources and what is stored from them.  Each has  *)
(* its own tables and its own state in the process, and none of the        *)
(* actions modelled reads another's, so that a behaviour moves one of      *)
(* them; which one is drawn at the start.                                  *)
(***************************************************************************)
EXTENDS DeviceConfigs, Accounts, Tenants, RequestLimits, ExternalData,
        PrefixAssets, Collection, Sources

CONSTANT Parts   \* bound: the parts that move, a subset of AllParts

AllParts == {"devices", "accounts", "tenants", "limits", "external",
             "tree", "assets", "supply", "sources", "storage"}

ASSUME PartsAssumption == Parts \subseteq AllParts /\ Parts # {}

VARIABLE part   \* the part that moves in this behaviour

managementVars ==
  <<part, deviceVars, accountVars, tenantVars, limitVars, externalVars,
    treeVars, assetVars, supplyVars, sourceVars, storageVars>>

\* Where several initial states are possible, a part that does not move has one.
StandStill ==
  /\ part # "devices" => devices = "texts"
  /\ part # "accounts" => bound = CHOOSE b \in AccountBounds : TRUE
  /\ part # "external" => says = <<CHOOSE saying \in Saying : TRUE>>

ManagementInit ==
  /\ part \in Parts
  /\ DevicesInit /\ AccountsInit /\ TenantsInit
  /\ LimitsInit /\ ExternalInit
  /\ TreeInit /\ AssetsInit /\ SupplyInit /\ SourcesInit /\ StorageInit
  /\ StandStill

ManagementNext ==
  /\ UNCHANGED part
  /\ \/ /\ part = "devices" /\ DevicesNext
        /\ UNCHANGED <<accountVars, tenantVars, limitVars, externalVars, treeVars,
                       assetVars, supplyVars, sourceVars, storageVars>>
     \/ /\ part = "accounts" /\ AccountsNext
        /\ UNCHANGED <<deviceVars, tenantVars, limitVars, externalVars, treeVars,
                       assetVars, supplyVars, sourceVars, storageVars>>
     \/ /\ part = "tenants" /\ TenantsNext
        /\ UNCHANGED <<deviceVars, accountVars, limitVars, externalVars, treeVars,
                       assetVars, supplyVars, sourceVars, storageVars>>
     \/ /\ part = "limits" /\ LimitsNext
        /\ UNCHANGED <<deviceVars, accountVars, tenantVars, externalVars, treeVars,
                       assetVars, supplyVars, sourceVars, storageVars>>
     \/ /\ part = "external" /\ ExternalNext
        /\ UNCHANGED <<deviceVars, accountVars, tenantVars, limitVars, treeVars,
                       assetVars, supplyVars, sourceVars, storageVars>>
     \/ /\ part = "tree" /\ TreeNext
        /\ UNCHANGED <<deviceVars, accountVars, tenantVars, limitVars, externalVars,
                       assetVars, supplyVars, sourceVars, storageVars>>
     \/ /\ part = "assets" /\ AssetsNext
        /\ UNCHANGED <<deviceVars, accountVars, tenantVars, limitVars, externalVars,
                       treeVars, supplyVars, sourceVars, storageVars>>
     \/ /\ part = "supply" /\ SupplyNext
        /\ UNCHANGED <<deviceVars, accountVars, tenantVars, limitVars, externalVars,
                       treeVars, assetVars, sourceVars, storageVars>>
     \/ /\ part = "sources" /\ SourcesNext
        /\ UNCHANGED <<deviceVars, accountVars, tenantVars, limitVars, externalVars,
                       treeVars, assetVars, supplyVars, storageVars>>
     \/ /\ part = "storage" /\ StorageNext
        /\ UNCHANGED <<deviceVars, accountVars, tenantVars, limitVars, externalVars,
                       treeVars, assetVars, supplyVars, sourceVars>>

ManagementSpec == ManagementInit /\ [][ManagementNext]_managementVars

(* What has a bound stays within it: the members of a tenant within its    *)
(* seats, which calls that overlap pass by less than their number, the     *)
(* requests of a client within the rate, and the age of what the cache of  *)
(* external data serves within its time to live.                           *)
WithinLimits == SeatsBounded /\ RateHolds /\ FactsFresh

(* The data the platform works on are what it could fetch: a committed     *)
(* collection is whole, finds its own rows again and reports alike on the  *)
(* repositories; of a batch the newest announcements stay; and the ROAs    *)
(* around a prefix are found, in the tree and in the dictionary of a       *)
(* collection.  Each part says below its name what it leaves aside.  (The  *)
(* tree stands still, and is empty, in all other parts.)                   *)
SupplyHolds ==
  SupplySound /\ NewestKept /\ (part = "tree" => CoveringAgrees)
=============================================================================
