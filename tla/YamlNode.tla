------------------------------ MODULE YamlNode ------------------------------
(***************************************************************************)
(* The yaml.Node tree of one document, as the parser makes it.  Node 1 is  *)
(* the document, and the content of a mapping alternates keys and values.  *)
(* An alias is a leaf, as a scalar is.                                     *)
(***************************************************************************)
EXTENDS SequencesExt

CONSTANTS Nodes, Values

ASSUME NodesAssumption ==
  /\ Nodes \subseteq Nat \ {0} /\ 1 \in Nodes
  /\ \E last \in Nodes : \A n \in Nodes : n <= last

VARIABLES kind, content, value
tree == <<kind, content, value>>

None == 0
IsCollection(n) == kind[n] \in {"map", "seq"}
Empty(n) == content[n] = <<>>

\* A node m is the key that precedes n in a mapping.
IsKeyOf(m, n) ==
  \E p \in Nodes : kind[p] = "map" /\ \E i \in DOMAIN content[p] :
    i % 2 = 1 /\ i < Len(content[p]) /\ content[p][i] = m /\ content[p][i + 1] = n
IsKey(m) == \E n \in Nodes : IsKeyOf(m, n)

TreeOK ==
  /\ kind \in [Nodes -> {"document", "map", "seq", "scalar"}]
  /\ kind[1] = "document"
  /\ content \in [Nodes -> Seq(Nodes)]
  /\ value \in [Nodes -> Values]

\* A node has at most one place, in the content of one node.
IsTree ==
  \A p, q \in Nodes : \A i \in DOMAIN content[p], j \in DOMAIN content[q] :
    content[p][i] = content[q][j] => p = q /\ i = j

\* Keys come with values, and nodes in the order of the document, which has one root.
InDocument ==
  /\ Len(content[1]) = 1
  /\ \A n \in Nodes :
       /\ kind[n] = "document" => n = 1
       /\ kind[n] = "scalar" => Empty(n)
       /\ kind[n] = "map" => Len(content[n]) % 2 = 0
       /\ IsCollection(n) => \E p \in Nodes : Contains(content[p], n)
       /\ \A i \in DOMAIN content[n] :
            n < content[n][i] /\ \A j \in 1..(i - 1) : content[n][j] < content[n][i]
=============================================================================
