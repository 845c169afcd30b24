------------------------------- MODULE Restyle -------------------------------
(***************************************************************************)
(* blockify on the tree of one document.  The recursion is a list of what  *)
(* is left to do: visit a node, or look at an entry (a key and its value,  *)
(* an item of a sequence, the root of a document) before its nodes are     *)
(* visited.  A comment is named after the node and the place where it was  *)
(* written; a node carries sequences of comments, which joinComments puts  *)
(* one after the other.                                                    *)
(***************************************************************************)
EXTENDS YamlNode

VARIABLES flow,         \* nodes written in flow style
          line, head,   \* the comments at the end of a node's line, and above it
          tagged,       \* nodes with an explicit !!merge tag
          todo,
          written       \* observation: the comments there were

vars == <<tree, flow, line, head, tagged, todo, written>>

Comments == Nodes \X {"line", "head"}
Carried(n) == ToSet(line[n]) \cup ToSet(head[n])

\* The list before there is anything to do: the document.
Visit(n) == [do |-> "visit", key |-> None, node |-> n]
Entry(key, n) == [do |-> "entry", key |-> key, node |-> n]
Tasks == [do : {"visit", "entry"}, key : Nodes \cup {None}, node : Nodes]

(***************************************************************************)
(* What the parser makes: the collections inside a flow collection are in  *)
(* flow style, {} and [] are; a block collection has no end of line for a  *)
(* comment, nor has the document.                                          *)
(***************************************************************************)
Init ==
  /\ TreeOK /\ IsTree /\ InDocument
  /\ flow \subseteq {n \in Nodes : IsCollection(n)}
  /\ \A n \in Nodes : IsCollection(n) =>
       /\ Empty(n) => n \in flow
       /\ n \in flow => \A c \in ToSet(content[n]) : IsCollection(c) => c \in flow
  /\ line \in [Nodes -> Seq(Comments)] /\ head \in [Nodes -> Seq(Comments)]
  /\ \A n \in Nodes :
       /\ line[n] = <<>> \/ line[n] = <<<<n, "line">>>>
       /\ head[n] = <<>> \/ head[n] = <<<<n, "head">>>>
       /\ line[n] # <<>> => kind[n] # "document" /\ (IsCollection(n) => n \in flow)
  /\ tagged \subseteq {n \in Nodes : kind[n] = "scalar" /\ value[n] = "<<"}
  /\ todo = <<Visit(1)>>
  /\ written = UNION {Carried(n) : n \in Nodes}

-----------------------------------------------------------------------------
\* A defect: {} and [] lose their style too.
RestylesAll(n) == IsCollection(n)
Restyles(n) == IsCollection(n) /\ ~Empty(n)

\* A defect: an item is taken for a key.
EntriesSwapped(n) == [i \in DOMAIN content[n] |-> Entry(content[n][i], None)]

Entries(n) ==
  IF kind[n] = "map"
    THEN [i \in 1..(Len(content[n]) \div 2) |-> Entry(content[n][2 * i - 1], content[n][2 * i])]
    ELSE [i \in DOMAIN content[n] |-> Entry(None, content[n][i])]

\* blockify, the style of a node and the loop over its content.
Blockify ==
  /\ todo # <<>> /\ Head(todo).do = "visit"
  /\ LET n == Head(todo).node IN
       /\ flow' = IF Restyles(n) THEN flow \ {n} ELSE flow
       /\ todo' = Entries(n) \o Tail(todo)
  /\ UNCHANGED <<tree, line, head, tagged, written>>

-----------------------------------------------------------------------------
UnquoteMergeKey(key) ==
  tagged' = IF key # None /\ kind[key] = "scalar" /\ value[key] = "<<"
              THEN tagged \ {key} ELSE tagged

\* A defect: the comment of the key is replaced.
JoinReplaced(existing, added) == added
JoinComments(existing, added) == existing \o added

\* A comment that would be flushed onto the next line once n is in block style.
Moves(n) == line[n] # <<>> /\ Restyles(n) /\ n \in flow

RelocateLineComment(n, key) ==
  IF ~Moves(n) THEN UNCHANGED <<line, head>>
  ELSE IF key = None
    THEN /\ head' = [head EXCEPT ![n] = JoinComments(@, line[n])]
         /\ line' = [line EXCEPT ![n] = <<>>]
    ELSE /\ line' = [line EXCEPT ![n] = <<>>, ![key] = JoinComments(@, line[n])]
         /\ UNCHANGED head

\* blockify, the body of the loop.
Relocate ==
  /\ todo # <<>> /\ Head(todo).do = "entry"
  /\ LET key == Head(todo).key  n == Head(todo).node IN
       /\ UnquoteMergeKey(key)
       /\ RelocateLineComment(n, key)
       /\ todo' = (IF key = None THEN <<>> ELSE <<Visit(key)>>) \o <<Visit(n)>> \o Tail(todo)
  /\ UNCHANGED <<tree, flow, written>>

Next == Blockify \/ Relocate

Spec == Init /\ [][Next]_vars

-----------------------------------------------------------------------------
TypeOK ==
  /\ TreeOK
  /\ flow \subseteq Nodes /\ tagged \subseteq Nodes
  /\ line \in [Nodes -> Seq(Comments)] /\ head \in [Nodes -> Seq(Comments)]
  /\ todo \in Seq(Tasks)
  /\ written \subseteq Comments

(***************************************************************************)
(* A comment stays with its entry: at every moment it is carried by the    *)
(* node it was written on or by the key of that node, and a collection     *)
(* that has gone to block style, which the encoder would flush a comment   *)
(* of onto the following entry, carries none at the end of its line.       *)
(* Keys that are collections themselves are the exception: the code looks  *)
(* for a comment to rescue on values and items only.                       *)
(***************************************************************************)
CommentsKept ==
  \A c \in written : \E n \in Nodes : c \in Carried(n) /\ (n = c[1] \/ IsKeyOf(n, c[1]))

NoneStrays ==
  \A n \in Nodes : Restyles(n) /\ n \notin flow /\ line[n] # <<>> => IsKey(n)

CommentsStayWithEntry == CommentsKept /\ NoneStrays

(***************************************************************************)
(* The house style: when blockify returns every collection is in block     *)
(* style except {} and [], which have none, and no merge key has a tag.    *)
(***************************************************************************)
HouseStyle ==
  todo = <<>> =>
    /\ flow = {n \in Nodes : IsCollection(n) /\ Empty(n)}
    /\ \A n \in tagged : ~IsKey(n)
=============================================================================
