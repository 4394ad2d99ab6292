---------------------------- MODULE PrefixAssets ----------------------------
(***************************************************************************)
(* The registered prefixes and their hierarchy: services/prefix_service.py *)
(* with models/prefix.py and the prefix endpoints, and the assets that the *)
(* collection of real data adds.                                           *)
(*                                                                         *)
(* A row keeps the parent that was found when it was registered or given a *)
(* new address; nothing looks again when other rows come, move or go.  The *)
(* search and the write are apart, and other calls commit between them.    *)
(* Only the string of a prefix is unique.                                  *)
(***************************************************************************)
EXTENDS PrefixTree

CONSTANTS
  Registrars,      \* calls in progress together
  Registered,      \* the spellings that operators register, some of Spelt
  Announced,       \* the announced prefixes a collection finds, in its order
  MaxAssets,       \* bounds the rows ever inserted
  MaxChanges       \* bounds the rows moved, deleted or given a parent

NoParent == 0

ASSUME AssetsAssumption == Registered \subseteq Spelt /\ Announced \in Seq(Spelt)

VARIABLES
  assets,        \* prefixes: id -> [prefix, parent], the rows that exist
  nextAsset,     \* the next id
  registering,   \* per call in progress: what it writes and what it saw
  changes,       \* how many rows were moved, deleted or given a parent
  moved,         \* history: rows given a new address
  handSet,       \* history: rows given a parent by hand
  crossed        \* history: rows two calls in progress together gave addresses

assetVars == <<assets, nextAsset, registering, changes, moved, handSet, crossed>>

AssetsInit ==
  /\ assets = <<>> /\ nextAsset = 1 /\ registering = <<>> /\ changes = 0
  /\ moved = {} /\ handSet = {} /\ crossed = {}

Added(f, key, value) == [k \in DOMAIN f \cup {key} |-> IF k = key THEN value ELSE f[k]]

Assets == DOMAIN assets
NetOf(a) == Network(assets[a].prefix)
SpeltAs(prefix) == {a \in Assets : assets[a].prefix = prefix}

\* Mutant of Nearest: the widest prefix around is taken.
NearestWidest(net, self) ==
  LET around == {a \in Assets \ self : StrictlyIn(net, NetOf(a))}
      best == {a \in around : \A b \in around : NetOf(b).len >= NetOf(a).len}
  IN IF best = {} THEN {NoParent} ELSE best

(* find_parent_prefix: the longest of the prefixes strictly around; of two *)
(* spellings of one network, whichever the database returns first.  A row  *)
(* that is given an address carries it already.                            *)
Nearest(net, self) ==
  LET around == {a \in Assets \ self : StrictlyIn(net, NetOf(a))}
      best == {a \in around : \A b \in around : NetOf(b).len <= NetOf(a).len}
  IN IF best = {} THEN {NoParent} ELSE best

(* check_prefix_overlap: prefixes that overlap without one containing the  *)
(* other.                                                                  *)
Overlapping(net) ==
  {a \in Assets :
     /\ NetOf(a) # net /\ NetOf(a).family = net.family
     /\ NetOf(a).addr <= Broadcast(net) /\ net.addr <= Broadcast(NetOf(a))
     /\ ~StrictlyIn(net, NetOf(a)) /\ ~StrictlyIn(NetOf(a), net)}

(* create_prefix up to the insert.  The schema writes the prefix without   *)
(* host bits; one that is there, or overlaps, is refused.                  *)
BeginRegister(c, prefix) ==
  LET net == Network(prefix) IN
  /\ c \notin DOMAIN registering
  /\ nextAsset + Cardinality(DOMAIN registering) <= MaxAssets
  /\ SpeltAs(net) = {} /\ Overlapping(net) = {}
  /\ \E parent \in Nearest(net, {}) :
       registering' = Added(registering, c,
         [row |-> 0, net |-> net, old |-> net,
          parent |-> parent, loaded |-> NoParent, seen |-> Assets])
  /\ UNCHANGED <<assets, nextAsset, changes, moved, handSet, crossed>>

(* update_prefix with an address, its own perhaps, up to the write.        *)
BeginReaddress(c, a, prefix) ==
  LET net == Network(prefix) IN
  /\ c \notin DOMAIN registering /\ a \in Assets
  /\ changes < MaxChanges /\ changes' = changes + 1
  /\ SpeltAs(net) \subseteq {a}
  /\ \E parent \in Nearest(net, {a}) :
       registering' = Added(registering, c,
         [row |-> a, net |-> net, old |-> assets[a].prefix,
          parent |-> parent, loaded |-> assets[a].parent, seen |-> Assets])
  /\ UNCHANGED <<assets, nextAsset, moved, handSet, crossed>>

Done(c) == [d \in DOMAIN registering \ {c} |-> registering[d]]

(* The database refuses a string that is there by now, a parent that has   *)
(* gone, and a row that has gone.                                          *)
Refused(call) ==
  \/ (call.row = 0 \/ call.net # call.old) /\ SpeltAs(call.net) \ {call.row} # {}
  \/ call.parent # NoParent /\ call.parent \notin Assets
       /\ (call.row = 0 \/ call.parent # call.loaded)
  \/ call.row # 0 /\ call.row \notin Assets

(* The insert, or the update, which writes the columns that changed.       *)
CommitPrefix(c) ==
  /\ c \in DOMAIN registering /\ registering' = Done(c)
  /\ LET call == registering[c]
         others == {registering[d].row : d \in DOMAIN Done(c)} IN
     CASE Refused(call) -> UNCHANGED <<assets, nextAsset, moved, crossed>>
       [] ~Refused(call) /\ call.row = 0 ->
            /\ assets' = Added(assets, nextAsset,
                 [prefix |-> call.net, parent |-> call.parent, seen |-> call.seen])
            /\ nextAsset' = nextAsset + 1
            /\ UNCHANGED <<moved, crossed>>
       [] OTHER ->
            /\ assets' = [assets EXCEPT ![call.row] =
                 [prefix |-> IF call.net = call.old THEN @.prefix ELSE call.net,
                  seen |-> call.seen,
                  parent |-> IF call.parent = call.loaded THEN @.parent ELSE call.parent]]
            /\ moved' = IF call.net = call.old THEN moved ELSE moved \cup {call.row}
            /\ crossed' = crossed \cup ({call.row} \cap others)
            /\ UNCHANGED nextAsset
  /\ UNCHANGED <<changes, handSet>>

(* update_prefix with a parent: any row there is, the row itself included. *)
SetParent(a, parent) ==
  /\ changes < MaxChanges /\ changes' = changes + 1
  /\ a \in Assets /\ parent \in Assets \cup {NoParent} /\ parent # assets[a].parent
  /\ assets' = [assets EXCEPT ![a].parent = parent]
  /\ handSet' = handSet \cup {a}
  /\ UNCHANGED <<nextAsset, registering, moved, crossed>>

(* delete_prefix: the children are left without a parent.                  *)
DeletePrefix(a) ==
  /\ changes < MaxChanges /\ changes' = changes + 1
  /\ a \in Assets
  /\ assets' = [b \in Assets \ {a} |->
       IF assets[b].parent = a THEN [assets[b] EXCEPT !.parent = NoParent] ELSE assets[b]]
  /\ UNCHANGED <<nextAsset, registering, moved, handSet, crossed>>

(* generate_prefix_assets: rows for the announced prefixes that are not    *)
(* there, spelt as they came and without a parent, with ids in their order. *)
GeneratePrefixAssets ==
  LET fresh == {i \in DOMAIN Announced : SpeltAs(Announced[i]) = {}}
      id(i) == nextAsset + Cardinality({j \in fresh : j < i}) IN
  /\ fresh # {}
  /\ nextAsset + Cardinality(fresh) + Cardinality(DOMAIN registering) <= MaxAssets + 1
  /\ assets' = [a \in Assets \cup {id(i) : i \in fresh} |->
       IF a \in Assets THEN assets[a]
       ELSE [prefix |-> Announced[CHOOSE i \in fresh : id(i) = a], parent |-> NoParent, seen |-> Assets]]
  /\ nextAsset' = nextAsset + Cardinality(fresh)
  /\ UNCHANGED <<registering, changes, moved, handSet, crossed>>

AssetsNext ==
  \/ \E c \in Registrars :
       \/ \E prefix \in Registered : BeginRegister(c, prefix)
       \/ \E prefix \in Registered, a \in Assets : BeginReaddress(c, a, prefix)
       \/ CommitPrefix(c)
  \/ \E a \in Assets :
       \/ \E parent \in Assets \cup {NoParent} : SetParent(a, parent)
       \/ DeletePrefix(a)
  \/ GeneratePrefixAssets

-----------------------------------------------------------------------------
(* PARENTS CONTAIN: unless a parent was set by hand, or the parent has got *)
(* another address since, or two calls that overlapped gave the row one, a *)
(* row lies strictly inside its parent, and none of the rows that were     *)
(* there when the parent was found lies between the two.                   *)
ParentsContain ==
  \A a \in Assets \ (handSet \cup crossed) :
    LET p == assets[a].parent IN
    p # NoParent /\ p \notin moved =>
      /\ StrictlyIn(NetOf(a), NetOf(p))
      /\ \A m \in (Assets \cap assets[a].seen) \ moved :
           ~(StrictlyIn(NetOf(a), NetOf(m)) /\ StrictlyIn(NetOf(m), NetOf(p)))
=============================================================================
