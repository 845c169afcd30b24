------------------------------ MODULE MCRestyle ------------------------------
(***************************************************************************)
(* Every tree of up to MaxSize nodes, with any collections in flow style,  *)
(* comments above them, comments at the end of their lines and of those of *)
(* keys, and one "<<"; and, without comments, the trees whose root maps    *)
(* two keys to scalars or to a collection, with any keys and values.       *)
(***************************************************************************)
EXTENDS Restyle, Sops

CONSTANT MaxSize

Plain == "x"

\* The nodes 2..size in the order of the document: each has its parent before it.
Parents(size) ==
  {f \in [3..size -> 2..(size - 1)] :
     \A c \in 3..size : f[c] < c /\ \A d \in (f[c] + 1)..(c - 1) : f[d] >= f[c]}

TreeOf(f, size) ==
  content = [p \in Nodes |-> IF p = 1 THEN <<2>>
               ELSE SetToSortSeq({c \in 3..size : f[c] = p}, LAMBDA c, d : c < d)]

Kinds(n) ==
  {"scalar", "map", "seq"} \ ((IF Empty(n) THEN {} ELSE {"scalar"})
                                \cup (IF Len(content[n]) % 2 = 0 THEN {} ELSE {"map"}))

KindsOf(size) ==
  \E k \in [2..size -> {"scalar", "map", "seq"}] :
    /\ \A n \in 2..size : k[n] \in Kinds(n)
    /\ kind = [n \in Nodes |-> IF n = 1 THEN "document" ELSE IF n <= size THEN k[n] ELSE "scalar"]

\* Where a comment matters: flow collections, and keys, which receive theirs.
Rescued == {n \in flow : ~Empty(n)}
Receivers == {n \in Nodes : kind[n] = "scalar" /\ IsKey(n)}

CommentedInit ==
  \E size \in 2..MaxSize : \E f \in Parents(size) :
    /\ TreeOf(f, size) /\ KindsOf(size)
    /\ \E m \in {None} \cup {n \in 2..size : kind[n] = "scalar"} :
         /\ value = [n \in Nodes |-> IF n = m THEN "<<" ELSE Plain]
         /\ tagged = {m} \ {None}
    /\ \E fs \in SUBSET {n \in 2..size : IsCollection(n)} :
         /\ flow = fs
         /\ \A n \in 2..size : IsCollection(n) /\ Empty(n) => n \in fs
         /\ \A n \in fs : \A c \in ToSet(content[n]) : IsCollection(c) => c \in fs
    /\ \E ls \in SUBSET (Rescued \cup Receivers), hs \in SUBSET Rescued :
         /\ line = [n \in Nodes |-> IF n \in ls THEN <<<<n, "line">>>> ELSE <<>>]
         /\ head = [n \in Nodes |-> IF n \in hs THEN <<<<n, "head">>>> ELSE <<>>]

\* {3: {7: 8, 9: 10}, 5: 6}, where a sequence or a scalar may take the place of 4.
EncryptedInit ==
  /\ \E k \in {"map", "seq", "scalar"} :
       /\ kind = [n \in Nodes |-> CASE n = 1 -> "document" [] n = 2 -> "map" [] n = 4 -> k
                                   [] OTHER -> "scalar"]
       /\ content = [n \in Nodes |->
            CASE n = 1 -> <<2>> [] n = 2 -> <<3, 4, 5, 6>>
              [] n = 4 /\ k # "scalar" -> <<7, 8, 9, 10>> [] OTHER -> <<>>]
  /\ \E keys \in [{3, 5, 7, 9} -> Values \ {"<<"}], v \in {Plain, "payload"} :
       value = [n \in Nodes |-> CASE n \in DOMAIN keys -> keys[n] [] n = 8 -> v [] OTHER -> Plain]
  /\ flow = {} /\ tagged = {}
  /\ line = [n \in Nodes |-> <<>>] /\ head = line

MCInit == (CommentedInit \/ EncryptedInit) /\ Init
MCSpec == MCInit /\ [][Next]_vars

=============================================================================
