----------------------------- MODULE PrefixTree -----------------------------
(***************************************************************************)
(* Prefixes, and core/prefix_tree.py: one binary tree per address family,  *)
(* built bit by bit.  A node is named by its path from the root: the       *)
(* family, then the bits of a prefix.                                      *)
(*                                                                         *)
(* A spelling is a prefix as a caller writes it, with bits set past its    *)
(* length perhaps; ip_network(..., strict=False) clears them.  An address  *)
(* has AddressBits bits instead of 32 or 128.                              *)
(***************************************************************************)
EXTENDS Integers, Sequences, FiniteSets, SequencesExt

CONSTANTS
  AddressBits,     \* bits of an address, of either family
  Families,        \* 4 and 6
  Spellings,         \* the spellings that callers write, some of Spelt
  Data,            \* what is hung on a prefix
  MaxHung          \* bounds what the tree holds

Spelt == [family : Families, addr : 0 .. 2^AddressBits - 1, len : 0 .. AddressBits]

ASSUME PrefixAssumption ==
  AddressBits \in Nat /\ MaxHung \in Nat /\ Spellings \subseteq Spelt

Network(spelling) ==
  [spelling EXCEPT !.addr = @ - (@ % 2^(AddressBits - spelling.len))]

Canonical(spelling) == spelling = Network(spelling)

\* The addresses of a network, from the first to the last.
Broadcast(net) == net.addr + 2^(AddressBits - net.len) - 1

(* subnet_of, for networks of one family; of two, it does not hold here.   *)
SubnetOf(net, other) ==
  net.family = other.family /\ other.addr <= net.addr /\ Broadcast(net) <= Broadcast(other)

StrictlyIn(net, other) == SubnetOf(net, other) /\ net # other

\* The entries of a list at some of its places, in their order.
EntriesAt(list, places) ==
  [n \in 1 .. Cardinality(places) |->
     list[CHOOSE i \in places : Cardinality({j \in places : j < i}) = n - 1]]

\* The list without the first of its entries at these places.
WithoutFirst(list, places) == RemoveAt(list, CHOOSE i \in places : \A j \in places : i <= j)

-----------------------------------------------------------------------------
VARIABLES
  nodes,     \* the nodes: path -> the list hung on it
  treeSize,  \* _size
  hung       \* what the callers hung there and have not removed, in order

treeVars == <<nodes, treeSize, hung>>

(* _get_bit_string under the root of the family.                           *)
Path(net) ==
  <<net.family>> \o [i \in 1 .. net.len |-> (net.addr \div 2^(AddressBits - i)) % 2]

Roots == {<<family>> : family \in Families}
TreeInit ==
  /\ nodes = [root \in Roots |-> <<>>] /\ treeSize = 0 /\ hung = <<>>

InsertData(prefix, data) ==
  /\ Len(hung) < MaxHung
  /\ LET path == Path(Network(prefix))
         walked == {SubSeq(path, 1, n) : n \in 1 .. Len(path)}
         reached == [node \in DOMAIN nodes \cup walked |->
                       IF node \in DOMAIN nodes THEN nodes[node] ELSE <<>>]
     IN nodes' = [reached EXCEPT ![path] = Append(@, data)]
  /\ treeSize' = treeSize + 1
  /\ hung' = Append(hung, [prefix |-> prefix, data |-> data])

(* The nodes stay where they are, with less or nothing on them.            *)
RemoveData(prefix, data) ==
  LET net == Network(prefix)
      path == Path(net) IN
  /\ path \in DOMAIN nodes /\ \E i \in DOMAIN nodes[path] : nodes[path][i] = data
  /\ nodes' = [nodes EXCEPT ![path] = WithoutFirst(@, {i \in DOMAIN @ : @[i] = data})]
  /\ treeSize' = treeSize - 1
  /\ hung' = WithoutFirst(hung, {i \in DOMAIN hung : Network(hung[i].prefix) = net /\ hung[i].data = data})

ClearTree ==
  /\ hung # <<>>
  /\ nodes' = [root \in Roots |-> <<>>] /\ treeSize' = 0 /\ hung' = <<>>

(* lookup, and find_less_specific: what hangs on the way down, as far as   *)
(* there are nodes.                                                        *)
Lookup(prefix) ==
  LET path == Path(Network(prefix))
      met(n) == SubSeq(path, 1, n)
  IN FlattenSeq([n \in 1 .. Len(path) |->
                   IF met(n) \in DOMAIN nodes THEN nodes[met(n)] ELSE <<>>])

(* _collect_subtree                                                        *)
Collected[node \in DOMAIN nodes] ==
  LET side(bit) == LET child == Append(node, bit) IN
        IF child \in DOMAIN nodes THEN Collected[child] ELSE <<>>
  IN nodes[node] \o side(0) \o side(1)

\* Mutant of MoreSpecific: the node of the prefix itself is collected as well.
MoreSpecificOrEqual(prefix) ==
  LET path == Path(Network(prefix)) IN IF path \in DOMAIN nodes THEN Collected[path] ELSE <<>>

(* find_more_specific: the subtrees below the node, without the node.      *)
MoreSpecific(prefix) ==
  LET path == Path(Network(prefix)) IN
  IF path \notin DOMAIN nodes THEN <<>>
  ELSE SubSeq(Collected[path], Len(nodes[path]) + 1, Len(Collected[path]))

TreeNext ==
  \/ \E prefix \in Spellings, data \in Data : InsertData(prefix, data) \/ RemoveData(prefix, data)
  \/ ClearTree

-----------------------------------------------------------------------------
DataOf(entries) == [i \in DOMAIN entries |-> entries[i].data]
CountOf(list, data) == Cardinality({i \in DOMAIN list : list[i] = data})

(* TREE FAITHFUL: after any order of insertions, removals and clearings    *)
(* and whatever empty nodes they left, a query for a prefix, spelt in any  *)
(* way, returns what was hung on the prefixes around it, the widest first  *)
(* and in the order of insertion on each, and a query below it all that    *)
(* was hung strictly inside it and nothing else; the size is the number.   *)
TreeFaithful ==
  /\ treeSize = Len(hung)
  /\ \A query \in Spelt :
       LET net == Network(query)
           around(n) == EntriesAt(hung, {i \in DOMAIN hung :
                          hung[i].prefix.len = n /\ SubnetOf(net, Network(hung[i].prefix))})
           inside == EntriesAt(hung, {i \in DOMAIN hung : StrictlyIn(Network(hung[i].prefix), net)})
       IN /\ Lookup(query) =
               DataOf(FlattenSeq([n \in 1 .. AddressBits + 1 |-> around(n - 1)]))
          /\ Len(MoreSpecific(query)) = Len(inside)
          /\ \A data \in Data :
               CountOf(MoreSpecific(query), data) = CountOf(DataOf(inside), data)
=============================================================================
