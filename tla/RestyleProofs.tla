---------------------------- MODULE RestyleProofs ----------------------------
(***************************************************************************)
(* Comments stay with their entries, for every tree, every style it was    *)
(* written in and every placement of comments the parser can make; and     *)
(* what IsSOPS makes of any tree.                                          *)
(***************************************************************************)
EXTENDS Restyle, Sops, OrderProofs, TLAPS

\* What is left to do names keys of mappings, and visits no comment it would strand.
TaskOK(t) ==
  /\ t.do = "entry" /\ t.key # None => IsKeyOf(t.key, t.node)
  /\ t.do = "visit" /\ Restyles(t.node) /\ line[t.node] # <<>> => IsKey(t.node)

IInv ==
  /\ TypeOK /\ IsTree
  /\ CommentsKept
  /\ NoneStrays
  /\ \A i \in DOMAIN todo : TaskOK(todo[i])

-----------------------------------------------------------------------------
\* Joined comments are the comments of both.
LEMMA Joined ==
  ASSUME NEW S, NEW s \in Seq(S), NEW t \in Seq(S)
  PROVE  /\ JoinComments(s, t) \in Seq(S)
         /\ ToSet(JoinComments(s, t)) = ToSet(s) \cup ToSet(t)
BY JoinedSets DEF JoinComments

\* A value is not a key: it has its place in the mapping once.
LEMMA ValueIsNoKey ==
  ASSUME TypeOK, IsTree, NEW k \in Nodes, NEW n \in Nodes, IsKeyOf(k, n)
  PROVE  ~IsKey(n) /\ k # n
<1>1. PICK p \in Nodes : \E i \in DOMAIN content[p] :
        i % 2 = 1 /\ i < Len(content[p]) /\ content[p][i] = k /\ content[p][i + 1] = n
  BY DEF IsKeyOf
<1>2. PICK i \in DOMAIN content[p] :
        i % 2 = 1 /\ i < Len(content[p]) /\ content[p][i] = k /\ content[p][i + 1] = n
  BY <1>1
<1>3. \A q \in Nodes : content[q] \in Seq(Nodes)
  BY DEF TypeOK, TreeOK
<1>4. \A q \in Nodes : DOMAIN content[q] = 1..Len(content[q]) /\ Len(content[q]) \in Nat
  BY <1>3
<1>5. i + 1 \in DOMAIN content[p] /\ (i + 1) % 2 # 1 /\ i # i + 1
  BY <1>2, <1>4
<1>6. ASSUME NEW m \in Nodes, IsKeyOf(n, m)  PROVE FALSE
  <2>1. \E q \in Nodes : \E j \in DOMAIN content[q] : j % 2 = 1 /\ content[q][j] = n
    BY <1>6 DEF IsKeyOf
  <2>2. \A q \in Nodes : \A j \in DOMAIN content[q] : content[q][j] = n => i + 1 = j
    BY <1>2, <1>5 DEF IsTree
  <2> QED
    BY <1>5, <2>1, <2>2
<1>7. k # n
  BY <1>2, <1>5 DEF IsTree
<1> QED
  BY <1>6, <1>7 DEF IsKey

\* The tree is not touched, nor is what it says of keys.
LEMMA TreeStays ==
  ASSUME UNCHANGED tree
  PROVE  /\ IsTree' <=> IsTree
         /\ TreeOK' <=> TreeOK
         /\ InDocument' <=> InDocument
         /\ \A m, n \in Nodes : IsKeyOf(m, n)' <=> IsKeyOf(m, n)
         /\ \A m \in Nodes : IsKey(m)' <=> IsKey(m)
         /\ \A n \in Nodes : Restyles(n)' <=> Restyles(n)
BY DEF tree, IsTree, TreeOK, InDocument, IsKeyOf, IsKey, Restyles, IsCollection, Empty

-----------------------------------------------------------------------------
LEMMA InitKeeps ==
  Init => IInv
<1> SUFFICES ASSUME Init PROVE IInv
  OBVIOUS
<1>1. \A n \in Nodes : Carried(n) \subseteq Comments /\ \A c \in Carried(n) : c[1] = n
  BY DEF Init, Carried, ToSet, Comments
<1>2. TypeOK
  <2>1. flow \subseteq Nodes /\ tagged \subseteq Nodes /\ TreeOK
    BY DEF Init
  <2>2. Visit(1) \in Tasks
    BY NodesAssumption DEF Visit, Tasks
  <2>3. todo \in Seq(Tasks)
    BY <2>2 DEF Init
  <2> QED
    BY <1>1, <2>1, <2>3 DEF Init, TypeOK
<1>3. CommentsKept
  BY <1>1 DEF Init, CommentsKept
<1>4. NoneStrays
  BY DEF Init, NoneStrays, Restyles
<1>5. \A i \in DOMAIN todo : TaskOK(todo[i])
  <2>1. todo[1] = Visit(1) /\ DOMAIN todo = {1}
    BY DEF Init
  <2>2. ~Restyles(1)
    BY DEF Init, TreeOK, Restyles, IsCollection
  <2> QED
    BY <2>1, <2>2 DEF TaskOK, Visit
<1> QED
  BY <1>2, <1>3, <1>4, <1>5 DEF IInv, Init

-----------------------------------------------------------------------------
\* What is put before the rest of the list.
LEMMA Pushed ==
  ASSUME NEW S, NEW s \in Seq(S), NEW t \in Seq(S), t # <<>>
  PROVE  /\ s \o Tail(t) \in Seq(S) /\ Head(t) = t[1] /\ t[1] \in S /\ 1 \in DOMAIN t
         /\ \A i \in DOMAIN (s \o Tail(t)) :
              \/ \E j \in DOMAIN s : (s \o Tail(t))[i] = s[j]
              \/ \E j \in DOMAIN t : (s \o Tail(t))[i] = t[j]
<1>1. /\ Tail(t) \in Seq(S) /\ Len(s) \in Nat /\ Len(t) \in Nat \ {0}
      /\ DOMAIN s = 1..Len(s) /\ DOMAIN t = 1..Len(t)
      /\ Len(Tail(t)) = Len(t) - 1
      /\ \A j \in 1..(Len(t) - 1) : Tail(t)[j] = t[j + 1]
  OBVIOUS
<1>2. /\ s \o Tail(t) \in Seq(S)
      /\ DOMAIN (s \o Tail(t)) = 1..(Len(s) + (Len(t) - 1))
      /\ \A i \in 1..(Len(s) + (Len(t) - 1)) :
           (s \o Tail(t))[i] = IF i <= Len(s) THEN s[i] ELSE Tail(t)[i - Len(s)]
  BY <1>1
<1>3. ASSUME NEW i \in 1..(Len(s) + (Len(t) - 1)), ~(i <= Len(s))
      PROVE  \E j \in DOMAIN t : (s \o Tail(t))[i] = t[j]
  <2>1. i - Len(s) \in 1..(Len(t) - 1) /\ (i - Len(s)) + 1 \in 1..Len(t)
    BY <1>1, <1>3
  <2>2. (s \o Tail(t))[i] = t[(i - Len(s)) + 1]
    BY <1>1, <1>2, <1>3, <2>1
  <2> QED
    BY <1>1, <2>1, <2>2
<1>4. ASSUME NEW i \in 1..(Len(s) + (Len(t) - 1)), i <= Len(s)
      PROVE  \E j \in DOMAIN s : (s \o Tail(t))[i] = s[j]
  BY <1>1, <1>2, <1>4
<1>5. Head(t) = t[1] /\ t[1] \in S /\ 1 \in DOMAIN t
  BY <1>1
<1> QED
  BY <1>2, <1>3, <1>4, <1>5

\* The pairs of an alternating content lie within it.
LEMMA Halves ==
  ASSUME NEW k \in Nat
  PROVE  /\ k \div 2 \in Nat
         /\ \A i \in 1..(k \div 2) : /\ 2 * i - 1 \in 1..k /\ 2 * i \in 1..k
                                    /\ (2 * i - 1) % 2 = 1 /\ 2 * i - 1 < k
                                    /\ (2 * i - 1) + 1 = 2 * i
<1>1. k \div 2 \in Nat /\ 2 * (k \div 2) <= k
  OBVIOUS
<1> DEFINE h == k \div 2
<1> HIDE DEF h
<1>2. ASSUME NEW i \in 1..h
      PROVE  /\ 2 * i - 1 \in 1..k /\ 2 * i \in 1..k
             /\ 2 * i - 1 < k /\ (2 * i - 1) + 1 = 2 * i
  <2>1. h \in Nat /\ 2 * h <= k /\ i \in Nat /\ 1 <= i /\ i <= h
    BY <1>1 DEF h
  <2> QED
    BY <2>1
<1>3. \A i \in Nat \ {0} : (2 * i - 1) % 2 = 1
  OBVIOUS
<1> QED
  BY <1>1, <1>2, <1>3 DEF h

\* The entries of a node are tasks, and name keys of mappings.
LEMMA EntriesOK ==
  ASSUME TypeOK, NEW n \in Nodes
  PROVE  /\ Entries(n) \in Seq(Tasks)
         /\ \A i \in DOMAIN Entries(n) : TaskOK(Entries(n)[i])
<1> DEFINE c == content[n]
<1>1. c \in Seq(Nodes) /\ DOMAIN c = 1..Len(c) /\ Len(c) \in Nat
  BY DEF TypeOK, TreeOK
<1>2. CASE kind[n] = "map"
  <2> DEFINE L == Len(c) \div 2
  <2>1. /\ L \in Nat
        /\ \A i \in 1..L : /\ 2 * i - 1 \in DOMAIN c /\ 2 * i \in DOMAIN c
                          /\ (2 * i - 1) % 2 = 1 /\ 2 * i - 1 < Len(c)
                          /\ (2 * i - 1) + 1 = 2 * i
    BY <1>1, Halves
  <2>2. Entries(n) = [i \in 1..L |-> Entry(c[2 * i - 1], c[2 * i])]
    BY <1>2 DEF Entries
  <2> HIDE DEF L
  <2>3. ASSUME NEW i \in 1..L
        PROVE  Entry(c[2 * i - 1], c[2 * i]) \in Tasks /\ TaskOK(Entry(c[2 * i - 1], c[2 * i]))
    <3>1. c[2 * i - 1] \in Nodes /\ c[2 * i] \in Nodes
      BY <1>1, <2>1
    <3>2. IsKeyOf(c[2 * i - 1], c[2 * i])
      BY <1>2, <2>1 DEF IsKeyOf
    <3> QED
      BY <3>1, <3>2 DEF Entry, Tasks, TaskOK
  <2> DEFINE E(i) == Entry(c[2 * i - 1], c[2 * i])
  <2>4. \A i \in 1..L : E(i) \in Tasks /\ TaskOK(E(i))
    BY <2>3
  <2>5. Entries(n) = [i \in 1..L |-> E(i)]
    BY <2>2
  <2> HIDE DEF E
  <2>6. Entries(n) \in [1..L -> Tasks]
    BY <2>4, <2>5
  <2>7. Entries(n) \in Seq(Tasks)
    BY <2>1, <2>6
  <2>8. DOMAIN Entries(n) = 1..L /\ \A i \in 1..L : Entries(n)[i] = E(i)
    BY <2>5
  <2> QED
    BY <2>4, <2>7, <2>8
<1>3. CASE kind[n] # "map"
  <2>1. Entries(n) = [i \in 1..Len(c) |-> Entry(None, c[i])]
    BY <1>1, <1>3 DEF Entries
  <2>2. ASSUME NEW i \in 1..Len(c)
        PROVE  Entry(None, c[i]) \in Tasks /\ TaskOK(Entry(None, c[i]))
    BY <1>1 DEF Entry, Tasks, TaskOK
  <2> QED
    BY <1>1, <2>1, <2>2
<1> QED
  BY <1>2, <1>3

LEMMA BlockifyKeeps ==
  ASSUME IInv, Blockify
  PROVE  IInv'
<1> DEFINE n == Head(todo).node
<1>1. /\ todo \in Seq(Tasks) /\ todo # <<>> /\ Head(todo).do = "visit"
      /\ flow' = IF Restyles(n) THEN flow \ {n} ELSE flow
      /\ todo' = Entries(n) \o Tail(todo)
      /\ UNCHANGED tree /\ UNCHANGED <<line, head, tagged, written>>
  BY DEF Blockify, IInv, TypeOK
<1>2. Head(todo) = todo[1] /\ todo[1] \in Tasks /\ 1 \in DOMAIN todo
  BY <1>1, Pushed
<1>3. n \in Nodes /\ (Restyles(n) /\ line[n] # <<>> => IsKey(n))
  BY <1>1, <1>2 DEF IInv, TaskOK, Tasks
<1>4. Entries(n) \in Seq(Tasks) /\ \A i \in DOMAIN Entries(n) : TaskOK(Entries(n)[i])
  BY <1>3, EntriesOK DEF IInv
<1> HIDE DEF n
<1>5. /\ todo' \in Seq(Tasks)
      /\ \A i \in DOMAIN todo' : \/ \E j \in DOMAIN Entries(n) : todo'[i] = Entries(n)[j]
                                 \/ \E j \in DOMAIN todo : todo'[i] = todo[j]
  <2> DEFINE s == Entries(n)
  <2>1. s \in Seq(Tasks) /\ todo' = s \o Tail(todo)
    BY <1>1, <1>4
  <2> HIDE DEF s
  <2>2. /\ todo' \in Seq(Tasks)
        /\ \A i \in DOMAIN todo' : \/ \E j \in DOMAIN s : todo'[i] = s[j]
                                   \/ \E j \in DOMAIN todo : todo'[i] = todo[j]
    <3>1. s \in Seq(Tasks) /\ todo \in Seq(Tasks) /\ todo # <<>>
      BY <1>1, <2>1
    <3>2. /\ s \o Tail(todo) \in Seq(Tasks)
          /\ \A i \in DOMAIN (s \o Tail(todo)) :
               \/ \E j \in DOMAIN s : (s \o Tail(todo))[i] = s[j]
               \/ \E j \in DOMAIN todo : (s \o Tail(todo))[i] = todo[j]
      BY <3>1, Pushed
    <3> QED
      BY <2>1, <3>2
  <2> QED
    BY <2>2 DEF s
<1>6. TypeOK' /\ IsTree'
  BY <1>1, <1>5, TreeStays DEF IInv, TypeOK
<1>7. CommentsKept'
  BY <1>1, TreeStays DEF IInv, CommentsKept, Carried, Comments, TypeOK
<1>8. NoneStrays'
  BY <1>1, <1>3, TreeStays DEF IInv, NoneStrays
<1>9. \A i \in DOMAIN todo' : TaskOK(todo[i])'
  <2>1. \A t \in Tasks : TaskOK(t) => TaskOK(t)'
    BY <1>1, TreeStays DEF TaskOK, Tasks
  <2>2. \A i \in DOMAIN todo' : todo'[i] \in Tasks /\ TaskOK(todo'[i])
    BY <1>4, <1>5 DEF IInv
  <2> QED
    BY <2>1, <2>2 DEF TaskOK
<1> QED
  BY <1>6, <1>7, <1>8, <1>9 DEF IInv

-----------------------------------------------------------------------------
(***************************************************************************)
(* One relocation: no comment is lost or leaves its entry, the lines that  *)
(* get a comment are those of keys, and the node itself is safe to visit.  *)
(***************************************************************************)
LEMMA RelocationKeeps ==
  ASSUME TypeOK, IsTree, CommentsKept, NoneStrays, UNCHANGED <<tree, written>>,
         NEW n \in Nodes, NEW key \in Nodes \cup {None}, key # None => IsKeyOf(key, n),
         RelocateLineComment(n, key)
  PROVE  /\ line' \in [Nodes -> Seq(Comments)] /\ head' \in [Nodes -> Seq(Comments)]
         /\ CommentsKept'
         /\ \A m \in Nodes : line'[m] # <<>> => line[m] # <<>> \/ IsKey(m)
         /\ Restyles(n) /\ line'[n] # <<>> => IsKey(n)
<1>1. /\ line \in [Nodes -> Seq(Comments)] /\ head \in [Nodes -> Seq(Comments)]
      /\ written \subseteq Comments
  BY DEF TypeOK
<1>2. \A c \in written : \E m \in Nodes : c \in Carried(m) /\ (m = c[1] \/ IsKeyOf(m, c[1]))
  BY DEF CommentsKept
<1>3. \A c \in written : c[1] \in Nodes
  BY <1>1 DEF Comments
<1>4. \A m \in Nodes : Carried(m)' = ToSet(line'[m]) \cup ToSet(head'[m])
  BY DEF Carried, ToSet
<1>5. ASSUME \A c \in written, m \in Nodes :
               c \in Carried(m) /\ (m = c[1] \/ IsKeyOf(m, c[1])) =>
                 \E k \in Nodes : /\ c \in ToSet(line'[k]) \cup ToSet(head'[k])
                                  /\ k = c[1] \/ IsKeyOf(k, c[1])
      PROVE  CommentsKept'
  <2>1. \A c \in written : \E k \in Nodes : c \in Carried(k)' /\ (k = c[1] \/ IsKeyOf(k, c[1]))
    BY <1>2, <1>4, <1>5
  <2>2. \A c \in written : \E k \in Nodes : c \in Carried(k)' /\ (k = c[1] \/ IsKeyOf(k, c[1])')
    BY <1>3, <2>1, TreeStays
  <2> QED
    BY <2>2 DEF CommentsKept
<1>6. CASE ~Moves(n)
  <2>1. line' = line /\ head' = head
    BY <1>6 DEF RelocateLineComment
  <2>2. Restyles(n) /\ line[n] # <<>> => IsKey(n)
    BY <1>6 DEF Moves, NoneStrays
  <2> QED
    BY <1>1, <1>2, <1>4, <1>5, <2>1, <2>2 DEF Carried
<1>7. CASE Moves(n) /\ key = None
  <2>1. /\ head' = [head EXCEPT ![n] = JoinComments(head[n], line[n])]
        /\ line' = [line EXCEPT ![n] = <<>>]
    BY <1>7 DEF RelocateLineComment
  <2>2. /\ JoinComments(head[n], line[n]) \in Seq(Comments)
        /\ ToSet(JoinComments(head[n], line[n])) = ToSet(head[n]) \cup ToSet(line[n])
    BY <1>1, Joined
  <2>3. line' \in [Nodes -> Seq(Comments)] /\ head' \in [Nodes -> Seq(Comments)]
    BY <1>1, <2>1, <2>2
  <2>4. \A m \in Nodes : Carried(m) \subseteq ToSet(line'[m]) \cup ToSet(head'[m])
    BY <1>1, <2>1, <2>2 DEF Carried
  <2>5. \A m \in Nodes : line'[m] # <<>> => line[m] # <<>> /\ m # n
    BY <1>1, <2>1
  <2> QED
    BY <1>5, <2>3, <2>4, <2>5
<1>8. CASE Moves(n) /\ key # None
  <2>1. key \in Nodes /\ IsKeyOf(key, n) /\ ~IsKey(n) /\ key # n
    BY <1>8, ValueIsNoKey
  <2>2. /\ line' = [line EXCEPT ![n] = <<>>, ![key] = JoinComments(line[key], line[n])]
        /\ head' = head
    BY <1>8, <2>1 DEF RelocateLineComment
  <2>3. /\ JoinComments(line[key], line[n]) \in Seq(Comments)
        /\ ToSet(JoinComments(line[key], line[n])) = ToSet(line[key]) \cup ToSet(line[n])
    BY <1>1, <2>1, Joined
  <2>4. line' \in [Nodes -> Seq(Comments)] /\ head' \in [Nodes -> Seq(Comments)]
    <3>1. <<>> \in Seq(Comments)
      OBVIOUS
    <3>2. [line EXCEPT ![n] = <<>>] \in [Nodes -> Seq(Comments)]
      BY <1>1, <3>1
    <3> QED
      BY <1>1, <2>1, <2>2, <2>3, <3>2
  <2>5. /\ line'[n] = <<>> /\ ToSet(line'[key]) = ToSet(line[key]) \cup ToSet(line[n])
        /\ \A m \in Nodes \ {n, key} : line'[m] = line[m]
    BY <1>1, <2>1, <2>2, <2>3
  <2>6. IsKey(key)
    BY <2>1 DEF IsKey
  <2>7. ASSUME NEW c \in written, NEW m \in Nodes,
               c \in Carried(m), m = c[1] \/ IsKeyOf(m, c[1])
        PROVE  \E k \in Nodes : /\ c \in ToSet(line'[k]) \cup ToSet(head'[k])
                                /\ k = c[1] \/ IsKeyOf(k, c[1])
    <3>1. CASE m = n /\ c \in ToSet(line[n])
      <4>1. c[1] = n
        BY <1>3, <2>1, <2>7, <3>1 DEF IsKey
      <4> QED
        BY <2>1, <2>5, <3>1, <4>1
    <3>2. CASE m # n \/ c \notin ToSet(line[n])
      BY <2>2, <2>5, <2>7, <3>2 DEF Carried
    <3> QED
      BY <3>1, <3>2
  <2> QED
    BY <1>5, <2>4, <2>5, <2>6, <2>7
<1> QED
  BY <1>6, <1>7, <1>8

\* Two tasks, one after the other.
LEMMA Pair ==
  ASSUME NEW S, NEW a \in S, NEW b \in S
  PROVE  /\ <<a>> \o <<b>> \in Seq(S)
         /\ \A i \in DOMAIN (<<a>> \o <<b>>) : (<<a>> \o <<b>>)[i] \in {a, b}
<1>1. /\ <<a>> \in Seq({a, b}) /\ <<b>> \in Seq({a, b})
      /\ <<a>> \in Seq(S) /\ <<b>> \in Seq(S)
  OBVIOUS
<1>2. <<a>> \o <<b>> \in Seq({a, b}) /\ <<a>> \o <<b>> \in Seq(S)
  BY <1>1
<1> QED
  BY <1>2

LEMMA RelocateKeeps ==
  ASSUME IInv, Relocate
  PROVE  IInv'
<1>1. PICK n, key : n = Head(todo).node /\ key = Head(todo).key
  OBVIOUS
<1> DEFINE s == (IF key = None THEN <<>> ELSE <<Visit(key)>>) \o <<Visit(n)>>
<1>2. /\ todo \in Seq(Tasks) /\ todo # <<>> /\ Head(todo).do = "entry"
      /\ UnquoteMergeKey(key) /\ RelocateLineComment(n, key)
      /\ todo' = s \o Tail(todo)
      /\ UNCHANGED tree /\ UNCHANGED <<flow, written>>
  <2>1. todo' = (IF key = None THEN <<>> ELSE <<Visit(key)>>) \o <<Visit(n)>> \o Tail(todo)
    BY <1>1 DEF Relocate
  <2> QED
    BY <1>1, <2>1 DEF Relocate, IInv, TypeOK
<1>3. Head(todo) = todo[1] /\ todo[1] \in Tasks /\ 1 \in DOMAIN todo
  BY <1>2, Pushed
<1>4. n \in Nodes /\ key \in Nodes \cup {None} /\ (key # None => IsKeyOf(key, n))
  BY <1>1, <1>2, <1>3 DEF IInv, TaskOK, Tasks
<1>5. key # None => IsKey(key)
  BY <1>4 DEF IsKey
<1>6. /\ s \in Seq(Tasks)
      /\ \A i \in DOMAIN s : s[i] = Visit(n) \/ (key # None /\ s[i] = Visit(key))
  <2>1. Visit(n) \in Tasks /\ (key # None => Visit(key) \in Tasks)
    BY <1>4 DEF Visit, Tasks
  <2>2. CASE key = None
    <3>1. s = <<Visit(n)>>
      BY <2>2
    <3> QED
      BY <2>1, <3>1
  <2>3. CASE key # None
    <3>1. s = <<Visit(key)>> \o <<Visit(n)>>
      BY <2>3
    <3>2. s \in Seq(Tasks) /\ \A i \in DOMAIN s : s[i] \in {Visit(key), Visit(n)}
      BY <2>1, <2>3, <3>1, Pair
    <3> QED
      BY <2>3, <3>2
  <2> QED
    BY <2>2, <2>3
<1> HIDE DEF s
<1>7. /\ line' \in [Nodes -> Seq(Comments)] /\ head' \in [Nodes -> Seq(Comments)]
      /\ CommentsKept'
      /\ \A m \in Nodes : line'[m] # <<>> => line[m] # <<>> \/ IsKey(m)
      /\ Restyles(n) /\ line'[n] # <<>> => IsKey(n)
  BY <1>2, <1>4, RelocationKeeps DEF IInv
<1>8. /\ s \o Tail(todo) \in Seq(Tasks)
      /\ \A i \in DOMAIN (s \o Tail(todo)) :
           \/ \E j \in DOMAIN s : (s \o Tail(todo))[i] = s[j]
           \/ \E j \in DOMAIN todo : (s \o Tail(todo))[i] = todo[j]
  <2>1. s \in Seq(Tasks) /\ todo \in Seq(Tasks) /\ todo # <<>>
    BY <1>2, <1>6
  <2> QED
    BY <2>1, Pushed
<1>9. TypeOK' /\ IsTree'
  <2>1. tagged' \subseteq tagged
    BY <1>2 DEF UnquoteMergeKey
  <2> QED
    BY <1>2, <1>7, <1>8, <2>1, TreeStays DEF IInv, TypeOK
<1>10. NoneStrays'
  BY <1>2, <1>7, TreeStays DEF IInv, NoneStrays
<1>11. \A i \in DOMAIN todo' : TaskOK(todo[i])'
  <2>1. \A t \in Tasks : TaskOK(t) => TaskOK(t)'
    BY <1>2, <1>7, TreeStays DEF TaskOK, Tasks
  <2>2. TaskOK(Visit(n))' /\ (key # None => TaskOK(Visit(key))')
    BY <1>2, <1>4, <1>5, <1>7, TreeStays DEF TaskOK, Visit
  <2>3. \A i \in DOMAIN todo' :
          \/ todo'[i] \in Tasks /\ TaskOK(todo'[i])
          \/ todo'[i] = Visit(n) \/ (key # None /\ todo'[i] = Visit(key))
    BY <1>2, <1>6, <1>8 DEF IInv
  <2> QED
    BY <2>1, <2>2, <2>3 DEF TaskOK, Visit
<1> QED
  BY <1>7, <1>9, <1>10, <1>11 DEF IInv

-----------------------------------------------------------------------------
LEMMA Invariance ==
  Spec => []IInv
<1>1. IInv /\ UNCHANGED vars => IInv'
  <2> SUFFICES ASSUME IInv, UNCHANGED vars PROVE IInv'
    OBVIOUS
  <2> USE TreeStays DEF vars
  <2>1. TypeOK' /\ IsTree'
    BY DEF IInv, TypeOK
  <2>2. CommentsKept'
    BY DEF IInv, CommentsKept, Carried, Comments, TypeOK
  <2>3. NoneStrays'
    BY DEF IInv, NoneStrays
  <2>4. \A i \in DOMAIN todo' : TaskOK(todo[i])'
    <3>1. \A i \in DOMAIN todo : todo[i] \in Tasks
      BY DEF IInv, TypeOK
    <3> QED
      BY <3>1 DEF IInv, TaskOK, Tasks
  <2> QED
    BY <2>1, <2>2, <2>3, <2>4 DEF IInv
<1> QED
  BY <1>1, InitKeeps, BlockifyKeeps, RelocateKeeps, PTL DEF Spec, Next

(***************************************************************************)
(* The tree, its styles and comments, and what is left to do keep their    *)
(* types.                                                                  *)
(***************************************************************************)
THEOREM TypeCorrect ==
  Spec => []TypeOK
<1>1. IInv => TypeOK
  BY DEF IInv
<1> QED
  BY <1>1, Invariance, PTL

(***************************************************************************)
(* No comment is lost, none leaves its entry, and none is left where the   *)
(* encoder would flush it onto the next one.                               *)
(***************************************************************************)
THEOREM CommentsStay ==
  Spec => []CommentsStayWithEntry
<1>1. IInv => CommentsStayWithEntry
  BY DEF IInv, CommentsStayWithEntry
<1> QED
  BY <1>1, Invariance, PTL
-----------------------------------------------------------------------------
(***************************************************************************)
(* The house style.  Left is what the list names, keys that are looked at  *)
(* already being visited on their own; Below(T) what a recursive pass over *)
(* T gets to: every set that has T and the content of what it has.         *)
(***************************************************************************)
Left ==
  {n \in Nodes : \E i \in DOMAIN todo :
     n = todo[i].node \/ (todo[i].do = "entry" /\ n = todo[i].key)}

Closed(X) == \A p \in X : ToSet(content[p]) \subseteq X

Below(T) == {n \in Nodes : \A X \in SUBSET Nodes : T \subseteq X /\ Closed(X) => n \in X}

\* What is still in flow style is below what is left to do.
StylesAhead ==
  /\ flow \subseteq {n \in Nodes : IsCollection(n)}
  /\ \A n \in Nodes : IsCollection(n) /\ Empty(n) => n \in flow
  /\ \A n \in flow : Restyles(n) => n \in Below(Left)

\* The place i of p is that of a key.
KeyAt(p, i) == kind[p] = "map" /\ i \in DOMAIN content[p] /\ i % 2 = 1 /\ i < Len(content[p])

\* A merge key with a tag is in an entry that is left, or its mapping is below one.
TagsAhead ==
  /\ \A n \in tagged : kind[n] = "scalar" /\ value[n] = "<<"
  /\ \A p \in Nodes : \A i \in DOMAIN content[p] :
       KeyAt(p, i) /\ content[p][i] \in tagged =>
         \/ \E j \in DOMAIN todo : todo[j].do = "entry" /\ todo[j].key = content[p][i]
         \/ p \in Below(Left)

HInv == TypeOK /\ InDocument /\ StylesAhead /\ TagsAhead

\* A node that has something in it comes before it, and is no scalar.
LEMMA ParentIs ==
  ASSUME TreeOK, InDocument, NEW p \in Nodes, NEW n \in Nodes, Contains(content[p], n)
  PROVE  p < n /\ (p = 1 \/ IsCollection(p)) /\ n \in ToSet(content[p])
<1>1. content[p] \in Seq(Nodes) /\ DOMAIN content[p] = 1..Len(content[p])
  BY DEF TreeOK
<1>2. PICK i \in DOMAIN content[p] : content[p][i] = n
  BY <1>1 DEF Contains
<1>3. ~Empty(p)
  BY <1>1, <1>2 DEF Empty
<1>4. p < n
  BY <1>2 DEF InDocument
<1>5. kind[p] # "scalar" /\ (kind[p] = "document" => p = 1)
  BY <1>3 DEF InDocument
<1>6. p = 1 \/ IsCollection(p)
  BY <1>5 DEF TreeOK, IsCollection
<1> QED
  BY <1>2, <1>4, <1>6 DEF ToSet

\* Everything that can be restyled is below the root.
LEMMA RootHasAll ==
  ASSUME TreeOK, InDocument, NEW n \in Nodes, IsCollection(n)
  PROVE  n \in Below({1})
<1> SUFFICES ASSUME NEW X \in SUBSET Nodes, 1 \in X, Closed(X)
             PROVE  n \in X
  BY DEF Below
<1> DEFINE Missed == {m \in Nodes : IsCollection(m) /\ m \notin X}
<1>1. SUFFICES ASSUME Missed # {} PROVE FALSE
  OBVIOUS
<1>2. PICK m \in Missed : \A k \in Missed : m <= k
  <2>1. Missed \in SUBSET Nat
    BY NodesAssumption
  <2> HIDE DEF Missed
  <2> QED
    BY <1>1, <2>1, Least
<1>3. PICK p \in Nodes : p < m /\ Contains(content[p], m) /\ (p = 1 \/ IsCollection(p))
  BY <1>2, ParentIs DEF InDocument
<1>4. p \in X
  <2>1. p \notin Missed
    <3>1. m \in Nat /\ p \in Nat
      BY <1>2, NodesAssumption
    <3> HIDE DEF Missed
    <3> QED
      BY <1>2, <1>3, <3>1
  <2> QED
    BY <1>3, <2>1
<1>5. m \in ToSet(content[p])
  BY <1>3 DEF Contains, ToSet
<1> QED
  BY <1>2, <1>4, <1>5 DEF Closed

\* A visit of n puts what is in n in its place.
LEMMA VisitPasses ==
  ASSUME NEW S \in SUBSET Nodes, NEW T \in SUBSET Nodes, NEW n \in Nodes,
         S \subseteq T \cup {n}, ToSet(content[n]) \subseteq T
  PROVE  \A m \in Below(S) : m \in Below(T) \/ m = n
<1> SUFFICES ASSUME NEW m \in Below(S), m # n,
                    NEW X \in SUBSET Nodes, T \subseteq X, Closed(X)
             PROVE  m \in X
  BY DEF Below
<1>1. X \cup {n} \in SUBSET Nodes /\ S \subseteq X \cup {n} /\ Closed(X \cup {n})
  BY DEF Closed
<1> QED
  BY <1>1 DEF Below

LEMMA NothingBelowNothing ==
  Below({}) = {}
<1>1. {} \in SUBSET Nodes /\ {} \subseteq {} /\ Closed({})
  BY DEF Closed
<1> QED
  BY <1>1 DEF Below

\* What is put before the rest of the list, and the rest, are in it.
Has(s, e) == \E i \in DOMAIN s : s[i] = e

LEMMA Passed ==
  ASSUME NEW S, NEW s \in Seq(S), NEW t \in Seq(S), t # <<>>
  PROVE  /\ \A j \in DOMAIN s : Has(s \o Tail(t), s[j])
         /\ \A j \in DOMAIN t : j # 1 => Has(s \o Tail(t), t[j])
<1>1. /\ Tail(t) \in Seq(S) /\ Len(s) \in Nat /\ Len(t) \in Nat \ {0}
      /\ DOMAIN s = 1..Len(s) /\ DOMAIN t = 1..Len(t)
      /\ Len(Tail(t)) = Len(t) - 1
      /\ \A j \in 1..(Len(t) - 1) : Tail(t)[j] = t[j + 1]
  OBVIOUS
<1>2. /\ DOMAIN (s \o Tail(t)) = 1..(Len(s) + (Len(t) - 1))
      /\ \A i \in 1..(Len(s) + (Len(t) - 1)) :
           (s \o Tail(t))[i] = IF i <= Len(s) THEN s[i] ELSE Tail(t)[i - Len(s)]
  BY <1>1
<1>3. ASSUME NEW j \in DOMAIN s
      PROVE  Has(s \o Tail(t), s[j])
  <2>1. j \in 1..(Len(s) + (Len(t) - 1)) /\ j <= Len(s)
    BY <1>1
  <2> QED
    BY <1>2, <2>1 DEF Has
<1>4. ASSUME NEW j \in DOMAIN t, j # 1
      PROVE  Has(s \o Tail(t), t[j])
  <2>1. /\ Len(s) + (j - 1) \in 1..(Len(s) + (Len(t) - 1))
        /\ ~(Len(s) + (j - 1) <= Len(s))
        /\ (Len(s) + (j - 1)) - Len(s) = j - 1
        /\ j - 1 \in 1..(Len(t) - 1) /\ (j - 1) + 1 = j
    BY <1>1, <1>4
  <2>2. (s \o Tail(t))[Len(s) + (j - 1)] = t[j]
    BY <1>1, <1>2, <2>1
  <2> QED
    BY <1>2, <2>1, <2>2 DEF Has
<1> QED
  BY <1>3, <1>4

\* The places of an alternating content, in pairs.
LEMMA OddAndEven ==
  ASSUME NEW k \in Nat, k % 2 = 0
  PROVE  /\ \A h \in 1..k : h % 2 = 1 => \E i \in 1..(k \div 2) : h = 2 * i - 1
         /\ \A h \in 1..k : h % 2 # 1 => \E i \in 1..(k \div 2) : h = 2 * i
<1>1. PICK l \in Nat : l = k \div 2 /\ k = 2 * l
  OBVIOUS
<1>2. ASSUME NEW h \in 1..k, h % 2 = 1  PROVE \E i \in 1..l : h = 2 * i - 1
  <2>1. PICK i \in Int : i = (h + 1) \div 2 /\ h = 2 * i - 1
    BY <1>2
  <2> QED
    BY <1>1, <2>1
<1>3. ASSUME NEW h \in 1..k, h % 2 # 1  PROVE \E i \in 1..l : h = 2 * i
  <2>1. PICK i \in Int : i = h \div 2 /\ h = 2 * i
    BY <1>3
  <2> QED
    BY <1>1, <2>1
<1> QED
  BY <1>1, <1>2, <1>3

\* Everything in a node is in an entry of it, and its keys as keys.
LEMMA EntriesHaveAll ==
  ASSUME TypeOK, InDocument, NEW n \in Nodes, NEW j \in DOMAIN content[n]
  PROVE  \E i \in DOMAIN Entries(n) :
           /\ Entries(n)[i].do = "entry"
           /\ content[n][j] \in {Entries(n)[i].key, Entries(n)[i].node}
           /\ KeyAt(n, j) => Entries(n)[i].key = content[n][j]
<1> DEFINE c == content[n]
<1>1. c \in Seq(Nodes) /\ DOMAIN c = 1..Len(c) /\ Len(c) \in Nat
  BY DEF TypeOK, TreeOK
<1>2. CASE kind[n] = "map"
  <2> DEFINE L == Len(c) \div 2
             E(i) == Entry(c[2 * i - 1], c[2 * i])
  <2>1. Entries(n) = [i \in 1..L |-> E(i)]
    BY <1>2 DEF Entries
  <2>2. Len(c) % 2 = 0
    BY <1>2 DEF InDocument
  <2>3. /\ \A h \in 1..Len(c) : h % 2 = 1 => \E i \in 1..L : h = 2 * i - 1
        /\ \A h \in 1..Len(c) : h % 2 # 1 => \E i \in 1..L : h = 2 * i
    BY <1>1, <2>2, OddAndEven
  <2> HIDE DEF L
  <2>4. CASE j % 2 = 1
    <3>1. PICK i \in 1..L : j = 2 * i - 1
      BY <1>1, <2>3, <2>4
    <3>3. Entries(n)[i] = E(i) /\ i \in DOMAIN Entries(n)
      BY <2>1
    <3>4. E(i).do = "entry" /\ E(i).key = c[j]
      BY <3>1 DEF Entry
    <3> QED
      BY <3>3, <3>4
  <2>5. CASE j % 2 # 1
    <3>1. PICK i \in 1..L : j = 2 * i
      BY <1>1, <2>3, <2>5
    <3>3. Entries(n)[i] = E(i) /\ i \in DOMAIN Entries(n)
      BY <2>1
    <3>4. E(i).do = "entry" /\ E(i).node = c[j] /\ ~KeyAt(n, j)
      BY <2>5, <3>1 DEF Entry, KeyAt
    <3> QED
      BY <3>3, <3>4
  <2> QED
    BY <2>4, <2>5
<1>3. CASE kind[n] # "map"
  <2>1. Entries(n) = [i \in DOMAIN c |-> Entry(None, c[i])]
    BY <1>3 DEF Entries
  <2>2. Entries(n)[j] = Entry(None, c[j]) /\ j \in DOMAIN Entries(n) /\ ~KeyAt(n, j)
    BY <1>3, <2>1 DEF KeyAt
  <2> QED
    BY <2>2 DEF Entry
<1> QED
  BY <1>2, <1>3

LEMMA BelowStays ==
  ASSUME UNCHANGED tree
  PROVE  Below(Left)' = Below(Left')
BY DEF Below, Closed, tree, ToSet

-----------------------------------------------------------------------------
LEMMA InitHInv ==
  Init => HInv
<1> SUFFICES ASSUME Init PROVE HInv
  OBVIOUS
<1>1. TypeOK /\ TreeOK /\ InDocument
  BY InitKeeps DEF Init, IInv
<1>2. Left = {1}
  <2>1. todo = <<Visit(1)>> /\ DOMAIN todo = {1} /\ todo[1] = Visit(1)
    BY DEF Init
  <2> QED
    BY <2>1, NodesAssumption DEF Left, Visit
<1>3. \A n \in Nodes : IsCollection(n) => n \in Below(Left)
  BY <1>1, <1>2, RootHasAll
<1>4. StylesAhead
  BY <1>3 DEF StylesAhead, Init, Restyles
<1>5. TagsAhead
  <2>1. \A p \in Nodes : kind[p] = "map" => p \in Below(Left)
    BY <1>3 DEF IsCollection
  <2> QED
    BY <2>1 DEF TagsAhead, KeyAt, Init
<1> QED
  BY <1>1, <1>4, <1>5 DEF HInv

LEMMA BlockifyHInv ==
  ASSUME HInv, IInv, Blockify
  PROVE  HInv'
<1> DEFINE n == Head(todo).node
           s == Entries(n)
<1>1. /\ todo \in Seq(Tasks) /\ todo # <<>> /\ Head(todo).do = "visit"
      /\ flow' = IF Restyles(n) THEN flow \ {n} ELSE flow
      /\ todo' = s \o Tail(todo)
      /\ UNCHANGED tree /\ UNCHANGED <<line, head, tagged, written>>
  BY DEF Blockify, HInv, TypeOK
<1>2. Head(todo) = todo[1] /\ todo[1] \in Tasks /\ 1 \in DOMAIN todo
  BY <1>1, Pushed
<1>3. n \in Nodes
  BY <1>2 DEF Tasks
<1>4. s \in Seq(Tasks)
  BY <1>3, EntriesOK DEF HInv
<1>5. /\ \A j \in DOMAIN s : \E i \in DOMAIN todo' : todo'[i] = s[j]
      /\ \A j \in DOMAIN todo : j # 1 => \E i \in DOMAIN todo' : todo'[i] = todo[j]
  <2> HIDE DEF s, n
  <2>1. s \in Seq(Tasks) /\ todo \in Seq(Tasks) /\ todo # <<>>
    BY <1>1, <1>4
  <2>2. /\ \A j \in DOMAIN s : Has(s \o Tail(todo), s[j])
        /\ \A j \in DOMAIN todo : j # 1 => Has(s \o Tail(todo), todo[j])
    BY <2>1, Passed
  <2> QED
    BY <1>1, <2>2 DEF Has
<1>6. \A j \in DOMAIN content[n] : \E i \in DOMAIN s :
        /\ s[i].do = "entry" /\ content[n][j] \in {s[i].key, s[i].node}
        /\ KeyAt(n, j) => s[i].key = content[n][j]
  BY <1>3, EntriesHaveAll DEF HInv
<1>7. todo[1].node = n /\ todo[1].do = "visit"
  BY <1>1, <1>2
<1>8. content[n] \in Seq(Nodes) /\ \A j \in DOMAIN content[n] : content[n][j] \in Nodes
  BY <1>3 DEF HInv, TypeOK, TreeOK
<1> HIDE DEF n, s
<1>9. Left \subseteq Left' \cup {n}
  <2> SUFFICES ASSUME NEW m \in Left, m # n PROVE m \in Left'
    OBVIOUS
  <2>1. m \in Nodes /\ \E j \in DOMAIN todo :
          m = todo[j].node \/ (todo[j].do = "entry" /\ m = todo[j].key)
    BY DEF Left
  <2>2. PICK j \in DOMAIN todo :
          m = todo[j].node \/ (todo[j].do = "entry" /\ m = todo[j].key)
    BY <2>1
  <2>3. j # 1
    BY <1>7, <2>2
  <2>4. PICK i \in DOMAIN todo' : todo'[i] = todo[j]
    BY <1>5, <2>3
  <2> QED
    BY <2>1, <2>2, <2>4 DEF Left
<1>10. ToSet(content[n]) \subseteq Left'
  <2> SUFFICES ASSUME NEW m \in ToSet(content[n]) PROVE m \in Left'
    OBVIOUS
  <2>1. PICK j \in DOMAIN content[n] : content[n][j] = m
    BY DEF ToSet
  <2>2. PICK i \in DOMAIN s : s[i].do = "entry" /\ m \in {s[i].key, s[i].node}
    BY <1>6, <2>1
  <2>3. PICK h \in DOMAIN todo' : todo'[h] = s[i]
    BY <1>5
  <2>4. m \in Nodes
    BY <1>8, <2>1
  <2> QED
    BY <2>2, <2>3, <2>4 DEF Left
<1>11. \A m \in Below(Left) : m \in Below(Left)' \/ m = n
  <2>1. Left \in SUBSET Nodes /\ Left' \in SUBSET Nodes
    BY DEF Left
  <2>2. \A m \in Below(Left) : m \in Below(Left') \/ m = n
    BY <1>3, <1>9, <1>10, <2>1, VisitPasses
  <2> QED
    BY <1>1, <2>2, BelowStays
<1>12. StylesAhead'
  BY <1>1, <1>11 DEF HInv, StylesAhead, TypeOK, tree, Restyles, IsCollection, Empty
<1>13. TagsAhead'
  <2>1. \A m \in tagged' : kind'[m] = "scalar" /\ value'[m] = "<<"
    BY <1>1 DEF HInv, TagsAhead, tree
  <2>2. ASSUME NEW p \in Nodes, NEW j \in DOMAIN content[p], KeyAt(p, j), content[p][j] \in tagged
        PROVE  \/ \E i \in DOMAIN todo' : todo'[i].do = "entry" /\ todo'[i].key = content[p][j]
               \/ p \in Below(Left)'
    <3>1. CASE p = n
      <4>1. PICK i \in DOMAIN s : s[i].do = "entry" /\ s[i].key = content[p][j]
        BY <1>6, <2>2, <3>1
      <4>2. PICK h \in DOMAIN todo' : todo'[h] = s[i]
        BY <1>5
      <4> QED
        BY <4>1, <4>2
    <3>2. CASE p # n /\ p \in Below(Left)
      BY <1>11, <3>2
    <3>3. CASE \E i \in DOMAIN todo : todo[i].do = "entry" /\ todo[i].key = content[p][j]
      <4>1. PICK i \in DOMAIN todo : todo[i].do = "entry" /\ todo[i].key = content[p][j]
        BY <3>3
      <4>2. i # 1
        BY <1>7, <4>1
      <4>3. PICK h \in DOMAIN todo' : todo'[h] = todo[i]
        BY <1>5, <4>2
      <4> QED
        BY <4>1, <4>3
    <3> QED
      BY <2>2, <3>1, <3>2, <3>3 DEF HInv, TagsAhead
  <2>3. \A p \in Nodes : \A j : KeyAt(p, j)' <=> KeyAt(p, j)
    BY <1>1 DEF KeyAt, tree
  <2>4. content' = content /\ tagged' = tagged
    BY <1>1 DEF tree
  <2> QED
    BY <2>1, <2>2, <2>3, <2>4 DEF TagsAhead
<1>14. TypeOK' /\ InDocument'
  BY <1>1, BlockifyKeeps, TreeStays DEF IInv, HInv
<1> QED
  BY <1>12, <1>13, <1>14 DEF HInv

\* Both tasks of a pair are in it.
LEMMA PairHas ==
  ASSUME NEW a, NEW b
  PROVE  Has(<<a>> \o <<b>>, a) /\ Has(<<a>> \o <<b>>, b)
<1>1. /\ DOMAIN (<<a>> \o <<b>>) = 1..2
      /\ (<<a>> \o <<b>>)[1] = a /\ (<<a>> \o <<b>>)[2] = b
  OBVIOUS
<1> DEFINE s == <<a>> \o <<b>>
<1>2. 1 \in DOMAIN s /\ s[1] = a /\ 2 \in DOMAIN s /\ s[2] = b
  BY <1>1
<1> HIDE DEF s
<1>3. Has(s, a) /\ Has(s, b)
  BY <1>2 DEF Has
<1> QED
  BY <1>3 DEF s

LEMMA RelocateHInv ==
  ASSUME HInv, IInv, Relocate
  PROVE  HInv'
<1>1. PICK n, key : n = Head(todo).node /\ key = Head(todo).key
  OBVIOUS
<1> DEFINE s == (IF key = None THEN <<>> ELSE <<Visit(key)>>) \o <<Visit(n)>>
<1>2. /\ todo \in Seq(Tasks) /\ todo # <<>> /\ Head(todo).do = "entry"
      /\ UnquoteMergeKey(key)
      /\ todo' = s \o Tail(todo)
      /\ UNCHANGED tree /\ UNCHANGED flow
  <2>1. todo' = (IF key = None THEN <<>> ELSE <<Visit(key)>>) \o <<Visit(n)>> \o Tail(todo)
    BY <1>1 DEF Relocate
  <2> QED
    BY <1>1, <2>1 DEF Relocate, HInv, TypeOK
<1>3. Head(todo) = todo[1] /\ todo[1] \in Tasks /\ 1 \in DOMAIN todo
  BY <1>2, Pushed
<1>4. n \in Nodes /\ key \in Nodes \cup {None}
  BY <1>1, <1>3 DEF Tasks
<1>5. s \in Seq(Tasks) /\ Has(s, Visit(n)) /\ (key # None => Has(s, Visit(key)))
  <2>1. Visit(n) \in Tasks /\ (key # None => Visit(key) \in Tasks)
    BY <1>4 DEF Visit, Tasks
  <2>2. CASE key = None
    <3>1. s = <<Visit(n)>>
      BY <2>2
    <3> QED
      BY <2>1, <2>2, <3>1 DEF Has
  <2>3. CASE key # None
    <3>1. s = <<Visit(key)>> \o <<Visit(n)>>
      BY <2>3
    <3> QED
      BY <2>1, <2>3, <3>1, Pair, PairHas
  <2> QED
    BY <2>2, <2>3
<1> HIDE DEF s
<1>6. /\ \A j \in DOMAIN s : Has(todo', s[j])
      /\ \A j \in DOMAIN todo : j # 1 => Has(todo', todo[j])
  <2>1. s \in Seq(Tasks) /\ todo \in Seq(Tasks) /\ todo # <<>>
    BY <1>2, <1>5
  <2>2. /\ \A j \in DOMAIN s : Has(s \o Tail(todo), s[j])
        /\ \A j \in DOMAIN todo : j # 1 => Has(s \o Tail(todo), todo[j])
    BY <2>1, Passed
  <2> QED
    BY <1>2, <2>2
<1>7. Left \subseteq Left'
  <2> SUFFICES ASSUME NEW m \in Left PROVE m \in Left'
    OBVIOUS
  <2>1. m \in Nodes /\ m # None
    BY NodesAssumption DEF Left, None
  <2>2. PICK j \in DOMAIN todo :
          m = todo[j].node \/ (todo[j].do = "entry" /\ m = todo[j].key)
    BY DEF Left
  <2>3. CASE j = 1
    <3>1. m = n \/ m = key
      BY <1>1, <1>3, <2>2, <2>3
    <3>2. Has(s, Visit(m))
      BY <1>5, <2>1, <3>1
    <3>3. Has(todo', Visit(m))
      BY <1>6, <3>2 DEF Has
    <3> QED
      BY <2>1, <3>3 DEF Has, Left, Visit
  <2>4. CASE j # 1
    <3>1. Has(todo', todo[j])
      BY <1>6, <2>4
    <3> QED
      BY <2>1, <2>2, <3>1 DEF Has, Left
  <2> QED
    BY <2>3, <2>4
<1>8. Below(Left) \subseteq Below(Left)'
  <2>1. Below(Left) \subseteq Below(Left')
    BY <1>7 DEF Below
  <2> QED
    BY <1>2, <2>1, BelowStays
<1>9. StylesAhead'
  BY <1>2, <1>8 DEF HInv, StylesAhead, TypeOK, tree, Restyles, IsCollection, Empty
<1>10. TagsAhead'
  <2>1. /\ \A m \in tagged' : kind'[m] = "scalar" /\ value'[m] = "<<"
        /\ tagged' \subseteq tagged
    BY <1>2 DEF HInv, TagsAhead, tree, UnquoteMergeKey
  <2>2. ASSUME NEW p \in Nodes, NEW j \in DOMAIN content[p], KeyAt(p, j), content[p][j] \in tagged'
        PROVE  \/ \E i \in DOMAIN todo' : todo'[i].do = "entry" /\ todo'[i].key = content[p][j]
               \/ p \in Below(Left)'
    <3>1. \/ \E i \in DOMAIN todo : todo[i].do = "entry" /\ todo[i].key = content[p][j]
          \/ p \in Below(Left)
      BY <2>1, <2>2 DEF HInv, TagsAhead
    <3>2. CASE \E i \in DOMAIN todo : todo[i].do = "entry" /\ todo[i].key = content[p][j]
      <4>1. PICK i \in DOMAIN todo : todo[i].do = "entry" /\ todo[i].key = content[p][j]
        BY <3>2
      <4>2. i # 1
        <5> SUFFICES ASSUME i = 1 PROVE FALSE
          OBVIOUS
        <5>1. key = content[p][j]
          BY <1>1, <1>3, <4>1
        <5>2. key \in Nodes /\ key # None
          BY <2>1, <2>2, <5>1, NodesAssumption DEF HInv, TypeOK, None
        <5>3. kind[key] = "scalar" /\ value[key] = "<<"
          BY <2>1, <2>2, <5>1 DEF HInv, TagsAhead
        <5> QED
          BY <1>2, <2>2, <5>1, <5>2, <5>3 DEF UnquoteMergeKey
      <4>3. Has(todo', todo[i])
        BY <1>6, <4>2
      <4> QED
        BY <4>1, <4>3 DEF Has
    <3> QED
      BY <1>8, <3>1, <3>2
  <2>3. \A p \in Nodes : \A j : KeyAt(p, j)' <=> KeyAt(p, j)
    BY <1>2 DEF KeyAt, tree
  <2>4. content' = content
    BY <1>2 DEF tree
  <2> QED
    BY <2>1, <2>2, <2>3, <2>4 DEF TagsAhead
<1>11. TypeOK' /\ InDocument'
  BY <1>2, RelocateKeeps, TreeStays DEF IInv, HInv
<1> QED
  BY <1>9, <1>10, <1>11 DEF HInv

LEMMA StyleInvariance ==
  Spec => []HInv
<1>1. HInv /\ UNCHANGED vars => HInv'
  <2> SUFFICES ASSUME HInv, UNCHANGED vars PROVE HInv'
    OBVIOUS
  <2>1. Below(Left)' = Below(Left)
    BY DEF vars, tree, Below, Closed, Left, ToSet
  <2>2. TypeOK' /\ InDocument'
    BY TreeStays DEF HInv, vars, TypeOK
  <2>3. StylesAhead'
    BY <2>1 DEF HInv, StylesAhead, TypeOK, vars, tree, Restyles, IsCollection, Empty
  <2>4. TagsAhead'
    BY <2>1 DEF HInv, TagsAhead, vars, tree, KeyAt
  <2> QED
    BY <2>2, <2>3, <2>4 DEF HInv
<1> QED
  BY <1>1, Invariance, InitHInv, BlockifyHInv, RelocateHInv, PTL DEF Spec, Next

(***************************************************************************)
(* When blockify returns, every collection that has content is in block    *)
(* style and every merge key is a plain <<, whatever the document was.     *)
(***************************************************************************)
THEOREM HouseStyleReached ==
  Spec => []HouseStyle
<1>1. HInv => HouseStyle
  <2> SUFFICES ASSUME HInv, todo = <<>>
               PROVE  /\ flow = {n \in Nodes : IsCollection(n) /\ Empty(n)}
                      /\ \A n \in tagged : ~IsKey(n)
    BY DEF HouseStyle
  <2>1. Left = {} /\ Below(Left) = {} /\ DOMAIN todo = {}
    BY NothingBelowNothing DEF Left
  <2>2. flow = {n \in Nodes : IsCollection(n) /\ Empty(n)}
    BY <2>1 DEF HInv, StylesAhead, Restyles
  <2>3. ASSUME NEW n \in tagged, IsKey(n)  PROVE FALSE
    <3>1. PICK p \in Nodes : kind[p] = "map" /\ \E i \in DOMAIN content[p] :
            i % 2 = 1 /\ i < Len(content[p]) /\ content[p][i] = n
      BY <2>3 DEF IsKey, IsKeyOf
    <3> QED
      BY <2>1, <3>1 DEF HInv, TagsAhead, KeyAt
  <2> QED
    BY <2>2, <2>3
<1> QED
  BY <1>1, StyleInvariance, PTL

-----------------------------------------------------------------------------
(***************************************************************************)
(* Sops.  Leads(n) says that a payload is below n, which is what the       *)
(* recursion of hasEncryptedValue comes to.                                *)
(***************************************************************************)
Payload(n) == kind[n] = "scalar" /\ value[n] = "payload"
Leads(n) == \E c \in Below({n}) : Payload(c)

\* Nodes are numbered up to a last one, so some have a greatest.
LEMMA Greatest ==
  ASSUME NEW T \in SUBSET Nodes, T # {}
  PROVE  \E x \in T : \A y \in T : y <= x
<1>1. PICK last \in Nodes : \A n \in Nodes : n <= last
  BY NodesAssumption
<1>2. \A n \in Nodes : n \in Nat /\ last - n \in Nat
  BY <1>1, NodesAssumption
<1> DEFINE D == {last - n : n \in T}
<1>3. D \in SUBSET Nat /\ D # {}
  BY <1>2
<1>4. PICK e \in D : \A f \in D : e <= f
  <2> HIDE DEF D
  <2> QED
    BY <1>3, Least
<1>5. PICK x \in T : e = last - x
  BY <1>4
<1>6. ASSUME NEW y \in T  PROVE y <= x
  <2>1. last - x <= last - y
    BY <1>4, <1>5
  <2> QED
    BY <1>2, <2>1
<1> QED
  BY <1>6

\* Below a node is the node and what is below the nodes in it.
LEMMA BelowIs ==
  ASSUME TreeOK, NEW n \in Nodes, NEW m \in Nodes
  PROVE  m \in Below({n}) <=> m = n \/ \E c \in ToSet(content[n]) : m \in Below({c})
<1>0. \A p \in Nodes : ToSet(content[p]) \subseteq Nodes
  BY DEF TreeOK, ToSet
<1>1. ASSUME m \in Below({n}), m # n  PROVE \E c \in ToSet(content[n]) : m \in Below({c})
  <2> DEFINE T == ToSet(content[n])
             X == {x \in Nodes : \E c \in T : x \in Below({c})}
  <2>1. T \subseteq X
    BY <1>0 DEF Below
  <2>2. Closed(X)
    <3> SUFFICES ASSUME NEW p \in X, NEW q \in ToSet(content[p]) PROVE q \in X
      BY DEF Closed
    <3>1. PICK c \in T : p \in Below({c})
      OBVIOUS
    <3>2. p \in Nodes /\ q \in Nodes
      BY <1>0, <3>1 DEF Below
    <3>3. q \in Below({c})
      BY <3>1, <3>2 DEF Below, Closed
    <3> QED
      BY <3>2, <3>3
  <2> HIDE DEF X
  <2>3. m \in X
    <3>1. X \in SUBSET Nodes
      BY DEF X
    <3>2. {n} \subseteq X \cup {n} /\ X \cup {n} \in SUBSET Nodes /\ Closed(X \cup {n})
      BY <2>1, <2>2, <3>1 DEF Closed
    <3> QED
      BY <1>1, <3>2 DEF Below
  <2> QED
    BY <2>3 DEF X
<1>2. n \in Below({n})
  BY DEF Below
<1>3. ASSUME NEW c \in ToSet(content[n]), m \in Below({c})  PROVE m \in Below({n})
  <2> SUFFICES ASSUME NEW X \in SUBSET Nodes, n \in X, Closed(X) PROVE m \in X
    BY DEF Below
  <2>1. c \in X
    BY DEF Closed
  <2> QED
    BY <1>3, <2>1 DEF Below
<1> QED
  BY <1>1, <1>2, <1>3

\* A node leads to a payload if it is one or a node in it leads to one.
LEMMA LeadsIs ==
  ASSUME TreeOK, NEW n \in Nodes
  PROVE  Leads(n) <=> Payload(n) \/ \E c \in ToSet(content[n]) : Leads(c)
<1>1. \A c : Below({c}) \subseteq Nodes
  BY DEF Below
<1> QED
  BY <1>1, BelowIs DEF Leads

\* The recursion has a value, and it is that.
LEMMA EncryptedIs ==
  ASSUME TreeOK, InDocument, NEW n \in Nodes
  PROVE  HasEncryptedValue[n] <=> Leads(n)
<1> DEFINE F(has) == [p \in Nodes |-> Payload(p) \/ \E c \in ToSet(content[p]) : has[c]]
           leads == [p \in Nodes |-> Leads(p)]
           has == CHOOSE h : h = F(h)
<1>0. \A p \in Nodes : ToSet(content[p]) \subseteq Nodes
  BY DEF TreeOK, ToSet
<1>1. leads = F(leads)
  <2>1. \A p \in Nodes : Leads(p) <=> Payload(p) \/ \E c \in ToSet(content[p]) : leads[c]
    BY <1>0, LeadsIs
  <2>2. \A p \in Nodes : Leads(p) = (Payload(p) \/ \E c \in ToSet(content[p]) : leads[c])
    BY <2>1 DEF Leads, Payload
  <2> HIDE DEF leads
  <2>3. leads = [p \in Nodes |-> Leads(p)]
    BY DEF leads
  <2> QED
    BY <2>2, <2>3
<1>2. has = F(has)
  BY <1>1
<1>3. HasEncryptedValue = has
  BY DEF HasEncryptedValue, Payload
<1> HIDE DEF has
<1>4. \A p \in Nodes : has[p] <=> Payload(p) \/ \E c \in ToSet(content[p]) : has[c]
  BY <1>2
<1> DEFINE Bad == {p \in Nodes : ~(has[p] <=> Leads(p))}
<1>5. ASSUME Bad # {}  PROVE FALSE
  <2>1. PICK p \in Bad : \A q \in Bad : q <= p
    <3> HIDE DEF Bad
    <3>1. Bad \in SUBSET Nodes
      BY DEF Bad
    <3> QED
      BY <1>5, <3>1, Greatest
  <2>2. ASSUME NEW c \in ToSet(content[p])  PROVE has[c] <=> Leads(c)
    <3>0. PICK i \in DOMAIN content[p] : content[p][i] = c
      <4>1. DOMAIN content[p] = 1..Len(content[p])
        BY DEF TreeOK
      <4> QED
        BY <4>1 DEF ToSet
    <3>1. c \in Nodes /\ c \in Nat /\ p \in Nat /\ p < c
      <4>1. p < c
        BY <3>0 DEF InDocument
      <4> QED
        BY <1>0, <4>1, NodesAssumption
    <3>2. c \notin Bad
      <4> HIDE DEF Bad
      <4> QED
        BY <2>1, <3>1
    <3> QED
      BY <3>1, <3>2
  <2>3. Leads(p) <=> Payload(p) \/ \E c \in ToSet(content[p]) : Leads(c)
    BY LeadsIs
  <2> QED
    BY <1>4, <2>1, <2>2, <2>3
<1> QED
  BY <1>3, <1>5

\* Below the root is the whole document.
LEMMA RootHasTree ==
  ASSUME TreeOK, InDocument, NEW n \in Nodes
  PROVE  n \in Below({1}) <=> InTree(n)
<1>1. ASSUME n \in Below({1})  PROVE InTree(n)
  <2> DEFINE X == {x \in Nodes : InTree(x)}
  <2>1. X \in SUBSET Nodes /\ {1} \subseteq X
    BY NodesAssumption DEF InTree
  <2>2. ASSUME NEW p \in X, NEW q \in ToSet(content[p])  PROVE q \in X
    <3>1. content[p] \in Seq(Nodes) /\ DOMAIN content[p] = 1..Len(content[p])
      BY DEF TreeOK
    <3>2. q \in Nodes /\ Contains(content[p], q)
      BY <3>1 DEF ToSet, Contains
    <3> QED
      BY <3>2 DEF InTree
  <2>3. Closed(X)
    BY <2>2 DEF Closed
  <2> HIDE DEF X
  <2>4. n \in X
    BY <1>1, <2>1, <2>3 DEF Below
  <2> QED
    BY <2>4 DEF X
<1>2. ASSUME InTree(n)  PROVE n \in Below({1})
  <2>1. CASE n = 1
    BY <2>1 DEF Below
  <2>2. ASSUME NEW p \in Nodes, Contains(content[p], n)  PROVE n \in Below({1})
    <3>1. (p = 1 \/ IsCollection(p)) /\ n \in ToSet(content[p])
      BY <2>2, ParentIs
    <3>2. p \in Below({1})
      <4>1. CASE p = 1
        BY <4>1 DEF Below
      <4>2. CASE IsCollection(p)
        BY <4>2, RootHasAll
      <4> QED
        BY <3>1, <4>1, <4>2
    <3> QED
      BY <3>1, <3>2 DEF Below, Closed
  <2> QED
    BY <1>2, <2>1, <2>2 DEF InTree
<1> QED
  BY <1>1, <1>2
\* A node has at most one key, and a key at most one value.
LEMMA OneValue ==
  ASSUME TreeOK, IsTree, NEW m \in Nodes, kind[m] = "map", NEW i \in DOMAIN content[m],
         i % 2 = 1, i < Len(content[m])
  PROVE  \A n \in Nodes : IsKeyOf(content[m][i], n) <=> n = content[m][i + 1]
<1>1. ASSUME NEW n \in Nodes, IsKeyOf(content[m][i], n)  PROVE n = content[m][i + 1]
  <2>1. PICK p \in Nodes : \E h \in DOMAIN content[p] :
          content[p][h] = content[m][i] /\ content[p][h + 1] = n
    BY <1>1 DEF IsKeyOf
  <2>2. PICK h \in DOMAIN content[p] :
          content[p][h] = content[m][i] /\ content[p][h + 1] = n
    BY <2>1
  <2> QED
    BY <2>2 DEF IsTree
<1> QED
  BY <1>1 DEF IsKeyOf

\* The keys in a mapping are the nodes at its odd places, and no other node has keys in it.
LEMMA KeysAre ==
  ASSUME TreeOK, IsTree, InDocument, NEW m \in Nodes
  PROVE  /\ kind[m] # "map" => KeysOf(m) = {}
         /\ kind[m] = "map" =>
              KeysOf(m) = {content[m][2 * i - 1] : i \in 1..(Len(content[m]) \div 2)}
<1>0. DOMAIN content[m] = 1..Len(content[m]) /\ Len(content[m]) \in Nat
  BY DEF TreeOK
<1>1. ASSUME NEW k \in KeysOf(m)
      PROVE  kind[m] = "map" /\ \E h \in DOMAIN content[m] : h % 2 = 1 /\ content[m][h] = k
  <2>1. PICK p \in Nodes : \E h \in DOMAIN content[p] :
          kind[p] = "map" /\ h % 2 = 1 /\ content[p][h] = k
    BY DEF KeysOf, IsKey, IsKeyOf
  <2>2. PICK j \in DOMAIN content[m] : content[m][j] = k
    BY <1>0 DEF KeysOf, ToSet
  <2> QED
    BY <2>1, <2>2 DEF IsTree
<1>2. ASSUME kind[m] = "map"
      PROVE  KeysOf(m) = {content[m][2 * i - 1] : i \in 1..(Len(content[m]) \div 2)}
  <2> DEFINE half == Len(content[m]) \div 2
  <2>1. Len(content[m]) % 2 = 0
    BY <1>2 DEF InDocument
  <2>2. ASSUME NEW k \in KeysOf(m)  PROVE \E i \in 1..half : k = content[m][2 * i - 1]
    <3>1. PICK h \in DOMAIN content[m] : h % 2 = 1 /\ content[m][h] = k
      BY <1>1
    <3>2. \E i \in 1..half : h = 2 * i - 1
      BY <1>0, <2>1, <3>1, OddAndEven
    <3> QED
      BY <3>1, <3>2
  <2>3. ASSUME NEW i \in 1..half  PROVE content[m][2 * i - 1] \in KeysOf(m)
    <3>1. /\ 2 * i - 1 \in DOMAIN content[m] /\ (2 * i - 1) % 2 = 1
          /\ 2 * i - 1 < Len(content[m]) /\ (2 * i - 1) + 1 = 2 * i
          /\ 2 * i \in DOMAIN content[m]
      BY <1>0, Halves
    <3> DEFINE h == 2 * i - 1
    <3> HIDE DEF h
    <3>2. h \in DOMAIN content[m] /\ h % 2 = 1 /\ h < Len(content[m])
          /\ h + 1 \in DOMAIN content[m]
      BY <3>1 DEF h
    <3>3. content[m][h + 1] \in Nodes
      BY <3>2 DEF TreeOK
    <3>4. IsKey(content[m][h])
      BY <1>2, <3>2, <3>3 DEF IsKey, IsKeyOf
    <3>5. content[m][h] \in KeysOf(m)
      BY <1>0, <3>2, <3>4 DEF KeysOf, ToSet
    <3> QED
      BY <3>5 DEF h
  <2> QED
    BY <2>2, <2>3
<1> QED
  BY <1>1, <1>2

\* The value found under a key is that of the first key with that name.
LEMMA MapValueIs ==
  ASSUME TreeOK, IsTree, InDocument, NEW m \in Nodes, NEW name
  PROVE  LET named == {k \in KeysOf(m) : value[k] = name}
         IN  /\ named = {} => MapValue(m, name) = None
             /\ named # {} => /\ MapValue(m, name) \in Nodes
                              /\ \E k \in named : /\ IsKeyOf(k, MapValue(m, name))
                                                  /\ \A j \in named : k <= j
<1> DEFINE named == {k \in KeysOf(m) : value[k] = name}
           half == Len(content[m]) \div 2
           at == {i \in 1..half : value[content[m][2 * i - 1]] = name}
<1>1. CASE kind[m] # "map"
  BY <1>1, KeysAre DEF MapValue
<1>2. CASE kind[m] = "map"
  <2>0. DOMAIN content[m] = 1..Len(content[m]) /\ Len(content[m]) \in Nat
    BY DEF TreeOK
  <2>a. \A x \in DOMAIN content[m] : content[m][x] \in Nodes /\ content[m][x] \in Nat
    <3>1. \A x \in DOMAIN content[m] : content[m][x] \in Nodes
      BY DEF TreeOK
    <3>2. Nodes \subseteq Nat
      BY NodesAssumption
    <3> QED
      BY <3>1, <3>2
  <2>1. KeysOf(m) = {content[m][2 * i - 1] : i \in 1..half}
    BY <1>2, KeysAre
  <2>2. named = {content[m][2 * i - 1] : i \in at}
    BY <2>1
  <2>3. MapValue(m, name) = IF at = {} THEN None ELSE content[m][2 * Min(at)]
    BY <1>2 DEF MapValue
  <2>4. half \in Nat
    BY <2>0, Halves
  <2>5. ASSUME named = {}  PROVE MapValue(m, name) = None
    BY <2>2, <2>3, <2>5
  <2>6. ASSUME named # {}
        PROVE  /\ MapValue(m, name) \in Nodes
               /\ \E k \in named : /\ IsKeyOf(k, MapValue(m, name))
                                   /\ \A j \in named : k <= j
    <3>1. at # {} /\ at \in SUBSET Nat
      <4>1. at # {}
        BY <2>2, <2>6
      <4>2. ASSUME NEW j \in at  PROVE j \in Nat
        <5>1. j \in 1..half
          OBVIOUS
        <5> HIDE DEF half, at
        <5> QED
          BY <2>4, <5>1
      <4> HIDE DEF at
      <4> QED
        BY <4>1, <4>2
    <3> DEFINE i == Min(at)
    <3>2. i \in at /\ \A j \in at : i <= j
      <4>1. \E x \in at : \A y \in at : x <= y
        <5> HIDE DEF at
        <5> QED
          BY <3>1, Least
      <4> HIDE DEF at
      <4> QED
        BY <4>1 DEF Min
    <3>3. i \in 1..half
      BY <3>2
    <3>4. MapValue(m, name) = content[m][2 * i]
      BY <2>3, <3>1
    <3> HIDE DEF i
    <3> DEFINE h == 2 * i - 1
    <3>5. /\ h \in DOMAIN content[m] /\ h % 2 = 1 /\ h < Len(content[m])
          /\ h + 1 = 2 * i /\ 2 * i \in DOMAIN content[m]
      BY <2>0, <3>3, Halves
    <3>6. MapValue(m, name) \in Nodes
      BY <2>a, <3>4, <3>5
    <3>7. IsKeyOf(content[m][h], MapValue(m, name))
      <4>1. content[m][h + 1] = MapValue(m, name)
        BY <3>4, <3>5
      <4> HIDE DEF h
      <4> QED
        BY <1>2, <3>5, <3>6, <4>1, OneValue
    <3>8. content[m][h] \in named
      BY <2>2, <3>2
    <3>9. ASSUME NEW k \in named  PROVE content[m][h] <= k
      <4>1. PICK j \in at : k = content[m][2 * j - 1]
        BY <2>2
      <4>2. j \in 1..half /\ i <= j
        BY <3>2, <4>1
      <4>3. 2 * j - 1 \in DOMAIN content[m]
        BY <2>0, <4>2, Halves
      <4>4. CASE i = j
        <5>1. k \in Nat
          BY <2>a, <4>1, <4>3
        <5> QED
          BY <4>1, <4>4, <5>1
      <4>5. CASE i # j
        <5>1. h \in 1..((2 * j - 1) - 1)
          BY <2>4, <3>3, <4>2, <4>5
        <5> DEFINE g == 2 * j - 1
        <5> HIDE DEF g, h
        <5>2. h \in 1..(g - 1) /\ g \in DOMAIN content[m]
          BY <4>3, <5>1 DEF g
        <5>3. content[m][h] < content[m][g]
          BY <5>2 DEF InDocument
        <5>4. content[m][h] \in Nat /\ content[m][g] \in Nat
          BY <2>a, <3>5, <5>2
        <5> QED
          BY <4>1, <5>3, <5>4 DEF g
      <4> QED
        BY <4>4, <4>5
    <3> QED
      BY <3>6, <3>7, <3>8, <3>9
  <2> QED
    BY <2>5, <2>6
<1> QED
  BY <1>1, <1>2

\* Metadata are a mapping with a MAC and a key source.
LEMMA MetadataIs ==
  ASSUME TreeOK, IsTree, InDocument, NEW m \in Nodes
  PROVE  IsMetadata(m) <=>
           kind[m] = "map" /\ {"mac", "age"} \subseteq {value[k] : k \in KeysOf(m)}
<1>1. \A n \in Nodes : n # None
  BY NodesAssumption DEF None
<1>2. ASSUME NEW name
      PROVE  MapValue(m, name) # None <=> \E k \in KeysOf(m) : value[k] = name
  <2> DEFINE named == {k \in KeysOf(m) : value[k] = name}
  <2>1. named = {} => MapValue(m, name) = None
    BY MapValueIs
  <2>2. named # {} => MapValue(m, name) \in Nodes
    BY MapValueIs
  <2> QED
    BY <1>1, <2>1, <2>2
<1> QED
  BY <1>1, <1>2 DEF IsMetadata

\* The metadata of a document are under the first of the keys sops of its root.
LEMMA TopIs ==
  ASSUME TreeOK, IsTree, InDocument
  PROVE  HasSOPSMetadata(1) <=>
           \E m \in Nodes : /\ IsMetadata(m)
                            /\ \E k \in SopsKeys : IsKeyOf(k, m) /\ \A j \in SopsKeys : k <= j
<1> DEFINE root == content[1][1]
           meta == MapValue(root, "sops")
<1>1. /\ Len(content[1]) = 1 /\ DOMAIN content[1] = 1..1 /\ content[1] \in Seq(Nodes)
      /\ root \in Nodes
  BY NodesAssumption DEF InDocument, TreeOK
<1>2. HasSOPSMetadata(1) <=> IsMetadata(meta)
  BY <1>1 DEF HasSOPSMetadata
<1>3. SopsKeys = {k \in KeysOf(root) : value[k] = "sops"}
  <2>1. ToSet(content[1]) = {root}
    BY <1>1 DEF ToSet
  <2> QED
    BY <2>1 DEF SopsKeys
<1> HIDE DEF root
<1>4. SopsKeys = {} => meta = None
  BY <1>1, <1>3, MapValueIs
<1>5. SopsKeys # {} => /\ meta \in Nodes
                       /\ \E k \in SopsKeys : IsKeyOf(k, meta) /\ \A j \in SopsKeys : k <= j
  BY <1>1, <1>3, MapValueIs
<1> HIDE DEF meta
<1>6. ASSUME IsMetadata(meta)
      PROVE  \E m \in Nodes : /\ IsMetadata(m)
                              /\ \E k \in SopsKeys : IsKeyOf(k, m) /\ \A j \in SopsKeys : k <= j
  <2>1. meta # None
    BY <1>6 DEF IsMetadata
  <2> QED
    BY <1>4, <1>5, <1>6, <2>1
<1>7. ASSUME NEW m \in Nodes, IsMetadata(m), NEW k \in SopsKeys, IsKeyOf(k, m),
             \A j \in SopsKeys : k <= j
      PROVE  IsMetadata(meta)
  <2>1. PICK l \in SopsKeys : IsKeyOf(l, meta) /\ \A j \in SopsKeys : l <= j
    BY <1>5
  <2>2. \A j \in SopsKeys : j \in Nat
    <3>1. ToSet(content[root]) \subseteq Nodes
      BY <1>1 DEF TreeOK, ToSet
    <3> QED
      BY <1>3, <3>1, NodesAssumption DEF KeysOf
  <2>3. k = l
    BY <1>7, <2>1, <2>2
  <2>4. PICK p \in Nodes : kind[p] = "map" /\ \E i \in DOMAIN content[p] :
          i % 2 = 1 /\ i < Len(content[p]) /\ content[p][i] = k
    BY <1>7 DEF IsKeyOf
  <2>5. meta = m
    BY <1>5, <1>7, <2>1, <2>3, <2>4, OneValue
  <2> QED
    BY <1>7, <2>5
<1> QED
  BY <1>2, <1>6, <1>7

(***************************************************************************)
(* A document is taken for encrypted exactly when it carries a payload or, *)
(* under the first key sops at the top, a mapping with a MAC and a key     *)
(* source: for every tree, before blockify, within it and after.           *)
(***************************************************************************)
THEOREM SopsDetected ==
  Spec => []SopsByStructure
<1>1. IInv /\ HInv => SopsByStructure
  <2> SUFFICES ASSUME IInv, HInv PROVE SopsByStructure
    OBVIOUS
  <2>1. TreeOK /\ IsTree /\ InDocument
    BY DEF IInv, HInv, TypeOK
  <2>2. HasEncryptedValue[1] <=> \E n \in Nodes : InTree(n) /\ Payload(n)
    <3>1. \A n : n \in Below({1}) => n \in Nodes
      BY DEF Below
    <3> QED
      BY <2>1, <3>1, NodesAssumption, EncryptedIs, RootHasTree DEF Leads
  <2>3. HasSOPSMetadata(1) <=>
          \E m \in Nodes : /\ kind[m] = "map"
                           /\ {"mac", "age"} \subseteq {value[k] : k \in KeysOf(m)}
                           /\ \E k \in SopsKeys : IsKeyOf(k, m) /\ \A j \in SopsKeys : k <= j
    BY <2>1, TopIs, MetadataIs
  <2> QED
    BY <2>2, <2>3 DEF SopsByStructure, IsSOPS, Payload
<1> QED
  BY <1>1, Invariance, StyleInvariance, PTL
=============================================================================
