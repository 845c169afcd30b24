-------------------------------- MODULE Sops --------------------------------
(***************************************************************************)
(* IsSOPS, on the tree of one document: isSOPSDoc.  The value "payload"    *)
(* stands for any that contains ENC[AES256_GCM, and "age" for any of the   *)
(* key sources.                                                            *)
(***************************************************************************)
EXTENDS YamlNode

\* The value of the first such key of a mapping, or None.
MapValue(m, key) ==
  IF kind[m] # "map" THEN None
  ELSE LET at == {i \in 1..(Len(content[m]) \div 2) : value[content[m][2 * i - 1]] = key}
       IN  IF at = {} THEN None ELSE content[m][2 * Min(at)]

\* A defect: any value of a key sops is taken for metadata.
IsMetadataAny(meta) == meta # None
IsMetadata(meta) ==
  /\ meta # None /\ kind[meta] = "map"
  /\ MapValue(meta, "mac") # None /\ MapValue(meta, "age") # None

HasSOPSMetadata(doc) ==
  LET root == IF Len(content[doc]) = 1 THEN content[doc][1] ELSE doc
  IN  IsMetadata(MapValue(root, "sops"))

HasEncryptedValue[n \in Nodes] ==
  \/ kind[n] = "scalar" /\ value[n] = "payload"
  \/ \E c \in ToSet(content[n]) : HasEncryptedValue[c]

IsSOPS(doc) == HasSOPSMetadata(doc) \/ HasEncryptedValue[doc]

-----------------------------------------------------------------------------
InTree(n) == n = 1 \/ \E p \in Nodes : Contains(content[p], n)
KeysOf(m) == {k \in ToSet(content[m]) : IsKey(k)}
SopsKeys == {k \in UNION {KeysOf(root) : root \in ToSet(content[1])} : value[k] = "sops"}

(***************************************************************************)
(* "Detection is structural, not textual": a document is encrypted when a  *)
(* scalar of it carries a payload, or when a mapping with a MAC and a key  *)
(* source stands at the top under the key sops.  A key sops with a version *)
(* pin, or anywhere else, a MAC in some other mapping, or the words alone  *)
(* do not make one; of two keys sops the first counts.                     *)
(***************************************************************************)
SopsByStructure ==
  IsSOPS(1) <=>
    \/ \E n \in Nodes : InTree(n) /\ kind[n] = "scalar" /\ value[n] = "payload"
    \/ \E m \in Nodes : /\ kind[m] = "map" /\ {"mac", "age"} \subseteq {value[k] : k \in KeysOf(m)}
                        /\ \E k \in SopsKeys : IsKeyOf(k, m) /\ \A j \in SopsKeys : k <= j
=============================================================================
