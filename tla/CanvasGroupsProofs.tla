------------------------- MODULE CanvasGroupsProofs -------------------------
(***************************************************************************)
(* Theorems of CanvasGroups for every number of nodes, pictures, results   *)
(* and operations.                                                         *)
(***************************************************************************)
EXTENDS CanvasGroups, FiniteSetTheorems, SequenceTheorems, WellFoundedInduction, TLAPS

(* A node that keeps no file but its picture's. *)
Sound == {n \in Node : n.file \in {NoPic, n.pic}}
(* The nodes of a canvas. *)
Canvas(f) == DOMAIN f \subseteq Ids /\ f \in [DOMAIN f -> Sound]

Slips == {"parted", "picked", "redrawn", "plucked"}

-----------------------------------------------------------------------------
(* Nodes *)

(* A set of ids has a first. *)
LEMMA FirstIn ==
  ASSUME NEW S \in SUBSET Nat, S # {}
  PROVE  First(S) \in S
<1> DEFINE R == {ss \in Nat \X Nat : ss[1] < ss[2]}
<1>1. IsWellFoundedOn(R, Nat)
  BY NatLessThanWellFounded DEF OpToRel
<1>2. PICK x \in S : \A y \in S : <<y, x>> \notin R
  <2> HIDE DEF R
  <2> QED BY <1>1, WFMin
<1>3. \A y \in S : ~(y < x)
  <2> SUFFICES ASSUME NEW y \in S, y < x PROVE <<y, x>> \in R
    BY <1>2
  <2>1. <<y, x>> \in Nat \X Nat
    OBVIOUS
  <2> QED BY <2>1
<1>4. \A y \in S : y \in Nat /\ x \in Nat
  OBVIOUS
<1>5. \A y \in S : x <= y
  BY <1>3, <1>4
<1> QED BY <1>5 DEF First

LEMMA IdsAreNaturals == Ids \subseteq Nat /\ None \notin Ids
BY GivenAssumption DEF Ids, None

LEMMA BlankIsSound ==
  ASSUME NEW k \in Kinds
  PROVE  /\ Blank(k) \in Sound
         /\ Blank(k).kids = {} /\ Blank(k).root = None /\ Blank(k).kind = k
BY IdsAreNaturals DEF Blank, Sound, Node, Kinds, Pictures, None

LEMMA PictureIsSound ==
  ASSUME NEW p \in Pics
  PROVE  /\ Picture(p) \in Sound
         /\ Picture(p).kids = {} /\ Picture(p).root = None /\ ~Picture(p).rooted
BY IdsAreNaturals DEF Picture, Blank, Sound, Node, Kinds, Pictures, None

LEMMA AddedNodes ==
  ASSUME NEW f, NEW g, Canvas(f), Canvas(g)
  PROVE  /\ Canvas(Added(f, g)) /\ DOMAIN Added(f, g) = DOMAIN f \cup DOMAIN g
         /\ \A i \in DOMAIN g : Added(f, g)[i] = g[i]
         /\ \A i \in DOMAIN f \ DOMAIN g : Added(f, g)[i] = f[i]
BY DEF Added, Canvas

(* A change of a node that may be gone. *)
LEMMA AtNodes ==
  ASSUME NEW i, NEW node, Canvas(nodes), i \in DOMAIN nodes => node \in Sound
  PROVE  /\ Canvas(At(i, node)) /\ DOMAIN At(i, node) = DOMAIN nodes
         /\ \A k \in DOMAIN nodes : At(i, node)[k] = IF k = i THEN node ELSE nodes[k]
BY DEF At, Canvas

(* The main image left to a group without some of its images. *)
LEMMA BereftIsSound ==
  ASSUME NEW f, Canvas(f), NEW i \in DOMAIN f, NEW gone
  PROVE  /\ Bereft(f, i, gone) \in Sound
         /\ Bereft(f, i, gone).kids = f[i].kids \ gone
         /\ Bereft(f, i, gone).root = f[i].root /\ Bereft(f, i, gone).rooted = f[i].rooted
<1> DEFINE rest == f[i].kids \ gone
           main == IF f[i].main \in rest THEN f[i].main ELSE IF rest = {} THEN None ELSE First(rest)
           it == IF main \in DOMAIN f \ gone THEN f[main] ELSE f[i]
           pic == IF it.pic # NoPic THEN it.pic ELSE f[i].pic
<1>1. f[i] \in Node /\ f[i].kids \in SUBSET Ids
  BY DEF Canvas, Sound, Node
<1>2. main \in Ids \cup {None}
  <2>1. rest \in SUBSET Nat /\ rest \subseteq Ids
    BY <1>1, IdsAreNaturals
  <2>2. rest # {} => First(rest) \in rest
    BY <2>1, FirstIn
  <2> QED BY <2>1, <2>2
<1>3. it \in Sound
  BY DEF Canvas
<1>4. pic \in Pictures /\ it.file \in Pictures /\ it.file \in {NoPic, pic}
  BY <1>1, <1>3 DEF Sound, Node
<1>5. Bereft(f, i, gone) = [f[i] EXCEPT !.kids = rest, !.main = main, !.pic = pic, !.file = it.file]
  BY <1>1 DEF Bereft, Node
<1>6. rest \in SUBSET Ids
  BY <1>1
<1> HIDE DEF rest, main, it, pic
<1>7. Bereft(f, i, gone) \in Node
  BY <1>1, <1>2, <1>4, <1>5, <1>6 DEF Node
<1>8. /\ Bereft(f, i, gone).file = it.file /\ Bereft(f, i, gone).pic = pic
      /\ Bereft(f, i, gone).kids = rest
      /\ Bereft(f, i, gone).root = f[i].root /\ Bereft(f, i, gone).rooted = f[i].rooted
  BY <1>1, <1>5 DEF Node
<1> QED BY <1>4, <1>7, <1>8 DEF Sound, rest

LEMMA MovedNodes ==
  ASSUME NEW f, Canvas(f), NEW S \in SUBSET Ids, NEW target \in Ids \cup {None}
  PROVE  /\ Canvas(Moved(f, S, target)) /\ DOMAIN Moved(f, S, target) = DOMAIN f
         /\ \A i \in DOMAIN f :
              LET n == Moved(f, S, target)[i]
              IN /\ n.root = IF i \in S THEN target ELSE f[i].root
                 /\ n.kids = IF i \in S THEN f[i].kids
                             ELSE IF i = target THEN f[i].kids \cup S ELSE f[i].kids \ S
                 /\ f[i].rooted \/ f[i].kids = {} => n.rooted \/ n.kids = {}
<1> DEFINE n(i) == Moved(f, S, target)[i]
<1>1. DOMAIN Moved(f, S, target) = DOMAIN f
  BY DEF Moved
<1>2. ASSUME NEW i \in DOMAIN f
      PROVE  /\ n(i) \in Sound
             /\ n(i).root = IF i \in S THEN target ELSE f[i].root
             /\ n(i).kids = IF i \in S THEN f[i].kids
                            ELSE IF i = target THEN f[i].kids \cup S ELSE f[i].kids \ S
             /\ f[i].rooted \/ f[i].kids = {} => n(i).rooted \/ n(i).kids = {}
  <2>1. f[i] \in Node /\ f[i].file \in {NoPic, f[i].pic} /\ f[i].kids \subseteq Ids
    BY DEF Canvas, Sound, Node
  <2>2. CASE i \in S
    <3>1. n(i) = [f[i] EXCEPT !.root = target]
      BY <2>2 DEF Moved
    <3> QED BY <2>1, <2>2, <3>1 DEF Sound, Node
  <2>3. CASE i \notin S /\ i = target
    <3>1. n(i) = [f[i] EXCEPT !.rooted = TRUE, !.open = FALSE, !.kids = f[i].kids \cup S]
      BY <2>1, <2>3 DEF Moved, Node
    <3>2. f[i].kids \cup S \in SUBSET Ids
      BY <2>1
    <3>3. n(i) \in Node /\ n(i).file = f[i].file /\ n(i).pic = f[i].pic
      BY <2>1, <3>1, <3>2 DEF Node
    <3>4. n(i).kids = f[i].kids \cup S /\ n(i).root = f[i].root /\ n(i).rooted
      BY <2>1, <3>1 DEF Node
    <3> HIDE DEF n
    <3> QED BY <2>1, <2>3, <3>3, <3>4 DEF Sound
  <2>4. CASE i \notin S /\ i # target /\ f[i].kids \cap S = {}
    <3>1. n(i) = f[i] /\ f[i].kids \ S = f[i].kids
      BY <2>4 DEF Moved
    <3> QED BY <2>1, <2>4, <3>1 DEF Sound
  <2>5. CASE i \notin S /\ i # target /\ f[i].kids \cap S # {} /\ f[i].kind = "custom"
    <3>1. n(i) = [f[i] EXCEPT !.kids = f[i].kids \ S]
      BY <2>1, <2>5 DEF Moved, Node
    <3> QED BY <2>1, <2>5, <3>1 DEF Sound, Node
  <2>6. CASE i \notin S /\ i # target /\ f[i].kids \cap S # {} /\ f[i].kind # "custom"
    <3> DEFINE rest == f[i].kids \ S
               first == IF f[i].main \in rest THEN f[i].main
                        ELSE IF rest = {} THEN None ELSE First(rest)
               main == IF first \in DOMAIN f THEN first ELSE None
               it == IF main = None THEN Blank("image") ELSE f[main]
    <3>1. main \in Ids \cup {None} /\ (main # None => main \in DOMAIN f)
      BY DEF Canvas
    <3>2. it \in Sound
      <4>1. Blank("image") \in Sound
        BY BlankIsSound DEF Kinds
      <4> HIDE DEF main
      <4> QED BY <3>1, <4>1 DEF Canvas
    <3>3. n(i) = [f[i] EXCEPT !.rooted = (rest # {}), !.kids = rest, !.main = main,
                              !.pic = it.pic, !.file = it.file]
      BY <2>1, <2>6 DEF Moved, Node
    <3>4. it.pic \in Pictures /\ it.file \in Pictures /\ it.file \in {NoPic, it.pic}
      BY <3>2 DEF Sound, Node
    <3>5. rest \in SUBSET Ids /\ (rest # {}) \in BOOLEAN /\ (rest = {} \/ rest # {})
      BY <2>1
    <3> HIDE DEF rest, main, it
    <3>6. n(i) \in Node
      BY <2>1, <3>1, <3>3, <3>4, <3>5 DEF Node
    <3>7. /\ n(i).file = it.file /\ n(i).pic = it.pic /\ n(i).kids = rest
          /\ n(i).root = f[i].root /\ n(i).rooted = (rest # {})
      BY <2>1, <3>3 DEF Node
    <3>8. n(i) \in Sound
      BY <3>4, <3>6, <3>7 DEF Sound
    <3>9. n(i).rooted \/ n(i).kids = {}
      BY <3>5, <3>7
    <3> QED BY <2>6, <3>7, <3>8, <3>9 DEF rest
  <2> QED BY <2>2, <2>3, <2>4, <2>5, <2>6
<1>3. Moved(f, S, target) \in [DOMAIN f -> Sound]
  BY <1>2 DEF Moved
<1> QED BY <1>1, <1>2, <1>3 DEF Canvas

-----------------------------------------------------------------------------
(* Groups of the nodes f, of which the ids up to m are made                *)

(* Ids are not used again: what is listed or named was made. *)
Grouped(f, m) ==
  /\ DOMAIN f \subseteq 1..m
  /\ \A i \in DOMAIN f : /\ f[i].kids \subseteq 1..m /\ f[i].root \in 0..m
                         /\ i \notin f[i].kids
                         /\ f[i].rooted \/ f[i].kids = {}
  /\ \A r, q \in DOMAIN f : r # q => f[r].kids \cap f[q].kids = {}
Agree(f) == \A i, r \in DOMAIN f : f[i].root = r <=> i \in f[r].kids

(* Nodes that are new, alone, or as they were. *)
LEMMA QuietGroups ==
  ASSUME NEW f, NEW g, NEW m \in Nat, NEW k \in Nat, m <= k, Grouped(f, m),
         \A i \in DOMAIN g :
           \/ /\ i \in DOMAIN f
              /\ g[i].kids = f[i].kids /\ g[i].root = f[i].root /\ g[i].rooted = f[i].rooted
           \/ i \in (m + 1)..k /\ g[i].kids = {} /\ g[i].root = None
  PROVE  Grouped(g, k) /\ (Agree(f) => Agree(g))
<1>1. \A i \in DOMAIN g : /\ i \in 1..k /\ g[i].kids \subseteq 1..m /\ g[i].root \in 0..m
                          /\ i \notin g[i].kids /\ (g[i].rooted \/ g[i].kids = {})
                          /\ g[i].kids # {} => i \in DOMAIN f /\ g[i].kids = f[i].kids
                          /\ g[i].root # None => i \in DOMAIN f /\ g[i].root = f[i].root
                          /\ i \notin DOMAIN f => i > m
  BY DEF Grouped, None
<1>2. Grouped(g, k)
  <2>1. \A r, q \in DOMAIN g : r # q => g[r].kids \cap g[q].kids = {}
    BY <1>1 DEF Grouped
  <2>2. 1..m \subseteq 1..k /\ 0..m \subseteq 0..k
    OBVIOUS
  <2> QED BY <1>1, <2>1, <2>2 DEF Grouped
<1>3. ASSUME Agree(f), NEW i \in DOMAIN g, NEW r \in DOMAIN g
      PROVE  g[i].root = r <=> i \in g[r].kids
  <2>1. r # None /\ r \in Nat
    BY <1>1 DEF None
  <2>2. CASE i \in DOMAIN f /\ r \in DOMAIN f
    <3>1. f[i].root = r <=> i \in f[r].kids
      BY <1>3, <2>2 DEF Agree
    <3>2. g[i].root = f[i].root /\ g[r].kids = f[r].kids
      BY <2>2 DEF Grouped
    <3> QED BY <3>1, <3>2
  <2>3. CASE i \notin DOMAIN f
    <3>1. g[i].root = None
      BY <1>1, <2>3
    <3>2. i > m /\ g[r].kids \subseteq 1..m
      BY <1>1, <2>3
    <3> QED BY <2>1, <3>1, <3>2
  <2>4. CASE r \notin DOMAIN f
    <3>1. r > m /\ g[i].root \in 0..m /\ g[r].kids = {}
      BY <1>1, <2>4
    <3> QED BY <2>1, <3>1
  <2> QED BY <2>2, <2>3, <2>4
<1> QED BY <1>2, <1>3 DEF Agree

LEMMA MovedGroups ==
  ASSUME NEW f, NEW m \in Nat, Canvas(f), Grouped(f, m), NEW S \in SUBSET DOMAIN f,
         NEW target \in (DOMAIN f \ S) \cup {None}, \A i \in S : f[i].kids \cap S = {}
  PROVE  Grouped(Moved(f, S, target), m) /\ (Agree(f) => Agree(Moved(f, S, target)))
<1> DEFINE g == Moved(f, S, target)
<1>1. /\ DOMAIN g = DOMAIN f
      /\ \A i \in DOMAIN f :
           /\ g[i].root = IF i \in S THEN target ELSE f[i].root
           /\ g[i].kids = IF i = target THEN f[i].kids \cup S ELSE f[i].kids \ S
           /\ f[i].rooted \/ f[i].kids = {} => g[i].rooted \/ g[i].kids = {}
  <2>1. S \in SUBSET Ids /\ target \in Ids \cup {None}
    BY DEF Canvas
  <2>2. /\ DOMAIN g = DOMAIN f
        /\ \A i \in DOMAIN f :
             /\ g[i].root = IF i \in S THEN target ELSE f[i].root
             /\ g[i].kids = IF i \in S THEN f[i].kids
                            ELSE IF i = target THEN f[i].kids \cup S ELSE f[i].kids \ S
             /\ f[i].rooted \/ f[i].kids = {} => g[i].rooted \/ g[i].kids = {}
    <3> HIDE DEF g
    <3> QED BY <2>1, MovedNodes, ZenonT(60) DEF g
  <2> HIDE DEF g
  <2>3. \A i \in S : f[i].kids \ S = f[i].kids /\ i # target
    BY IdsAreNaturals DEF Canvas
  <2> QED BY <2>2, <2>3
<1> HIDE DEF g
<1>2. S \subseteq 1..m /\ target \in 0..m /\ DOMAIN f \subseteq 1..m
  BY DEF Grouped, None
<1>5. \A i \in S : i # target
  BY <1>2, IdsAreNaturals DEF None
<1>3. Grouped(g, m)
  <2>1. ASSUME NEW i \in DOMAIN g
        PROVE  /\ g[i].kids \subseteq 1..m /\ g[i].root \in 0..m
               /\ i \notin g[i].kids
               /\ g[i].rooted \/ g[i].kids = {}
    <3>1. /\ f[i].kids \subseteq 1..m /\ f[i].root \in 0..m
          /\ i \notin f[i].kids /\ (f[i].rooted \/ f[i].kids = {})
      BY <1>1 DEF Grouped
    <3>2. (g[i].kids = f[i].kids \cup S /\ i \notin S) \/ g[i].kids = f[i].kids \ S
      BY <1>1, <1>5
    <3> QED BY <1>1, <1>2, <3>1, <3>2
  <2>2. ASSUME NEW r \in DOMAIN g, NEW q \in DOMAIN g, r # q
        PROVE  g[r].kids \cap g[q].kids = {}
    <3>1. f[r].kids \cap f[q].kids = {}
      BY <1>1, <2>2 DEF Grouped
    <3>2. CASE r = target
      <4>1. g[r].kids = f[r].kids \cup S /\ g[q].kids = f[q].kids \ S
        BY <1>1, <2>2, <3>2
      <4> QED BY <3>1, <4>1
    <3>3. CASE q = target
      <4>1. g[q].kids = f[q].kids \cup S /\ g[r].kids = f[r].kids \ S
        BY <1>1, <2>2, <3>3
      <4> QED BY <3>1, <4>1
    <3>4. CASE r # target /\ q # target
      <4>1. g[q].kids = f[q].kids \ S /\ g[r].kids = f[r].kids \ S
        BY <1>1, <3>4
      <4> QED BY <3>1, <4>1
    <3> QED BY <3>2, <3>3, <3>4
  <2> QED BY <1>1, <1>2, <2>1, <2>2 DEF Grouped
<1>4. ASSUME Agree(f), NEW i \in DOMAIN g, NEW r \in DOMAIN g
      PROVE  g[i].root = r <=> i \in g[r].kids
  <2>1. f[i].root = r <=> i \in f[r].kids
    BY <1>1, <1>4 DEF Agree
  <2>2. CASE i \in S
    <3>1. g[i].root = target /\ (i \in g[r].kids <=> r = target)
      BY <1>1, <2>2
    <3> QED BY <3>1
  <2>3. CASE i \notin S
    <3>1. g[i].root = f[i].root /\ (i \in g[r].kids <=> i \in f[r].kids)
      BY <1>1, <2>3
    <3> QED BY <2>1, <3>1
  <2> QED BY <2>2, <2>3
<1> QED BY <1>3, <1>4 DEF Agree, g

(* Nodes are taken away, and from the lists of the others. *)
LEMMA DroppedGroups ==
  ASSUME NEW f, NEW g, NEW m \in Nat, Grouped(f, m), NEW all, DOMAIN g = DOMAIN f \ all,
         \A i \in DOMAIN g : /\ g[i].root = f[i].root /\ g[i].rooted = f[i].rooted
                             /\ g[i].kids = f[i].kids \ all
  PROVE  Grouped(g, m) /\ (Agree(f) => Agree(g))
BY DEF Grouped, Agree

(* A node that forgets its group: no end of one is lost where it had none. *)
LEMMA ForgottenGroups ==
  ASSUME NEW f, NEW m \in Nat, Grouped(f, m), NEW i \in DOMAIN f, NEW node,
         node.kids = {}, node.root = None
  PROVE  /\ Grouped([f EXCEPT ![i] = node], m)
         /\ (Agree(f) /\ f[i].root \notin DOMAIN f /\ f[i].kids = {} => Agree([f EXCEPT ![i] = node]))
<1> DEFINE g == [f EXCEPT ![i] = node]
<1>1. /\ DOMAIN g = DOMAIN f /\ g[i] = node
      /\ \A k \in DOMAIN f : k # i => g[k] = f[k]
  OBVIOUS
<1> HIDE DEF g
<1>2. Grouped(g, m)
  <2>1. \A k \in DOMAIN g : /\ g[k].kids \subseteq 1..m /\ g[k].root \in 0..m
                            /\ k \notin g[k].kids
                            /\ g[k].rooted \/ g[k].kids = {}
    BY <1>1 DEF Grouped, None
  <2>2. \A r, q \in DOMAIN g : r # q => g[r].kids \cap g[q].kids = {}
    BY <1>1 DEF Grouped
  <2> QED BY <1>1, <2>1, <2>2 DEF Grouped
<1>3. ASSUME Agree(f), f[i].root \notin DOMAIN f, f[i].kids = {}, NEW k \in DOMAIN g, NEW r \in DOMAIN g
      PROVE  g[k].root = r <=> k \in g[r].kids
  <2>1. r \in DOMAIN f /\ k \in DOMAIN f /\ r # None
    BY <1>1 DEF Grouped, None
  <2>2. f[k].root = r <=> k \in f[r].kids
    BY <1>3, <2>1 DEF Agree
  <2>3. i \notin f[r].kids /\ f[k].root # i
    BY <1>3, <2>1 DEF Agree
  <2> QED BY <1>1, <2>1, <2>2, <2>3
<1> QED BY <1>2, <1>3 DEF Agree, g

(* The root r of a new group, and its results K. *)
LEMMA LaidOutGroups ==
  ASSUME NEW f, NEW g, NEW m \in Nat, NEW k \in Nat, m <= k, Grouped(f, m),
         NEW r \in 1..k, NEW K \in SUBSET ((m + 1)..k), r \notin K,
         DOMAIN g \subseteq 1..k,
         \A i \in DOMAIN g :
           \/ i \in K /\ g[i].kids = {} /\ g[i].root = r
           \/ /\ i = r /\ g[i].kids = K /\ (g[i].rooted \/ K = {})
              /\ (i \in DOMAIN f /\ g[i].root = f[i].root) \/ (i > m /\ g[i].root = None)
           \/ /\ i \in DOMAIN f \ {r}
              /\ g[i].kids = f[i].kids /\ g[i].root = f[i].root /\ g[i].rooted = f[i].rooted
  PROVE  Grouped(g, k) /\ (Agree(f) /\ (r \in DOMAIN f => f[r].kids = {}) => Agree(g))
<1>1. /\ \A i \in DOMAIN f : i \in 1..m /\ f[i].kids \subseteq 1..m /\ f[i].root \in 0..m
      /\ \A i \in K : i > m /\ i \in 1..k /\ i \notin DOMAIN f
  BY DEF Grouped
<1>2. Grouped(g, k)
  <2>1. \A i \in DOMAIN g : /\ g[i].kids \subseteq 1..k /\ g[i].root \in 0..k
                            /\ i \notin g[i].kids
                            /\ g[i].rooted \/ g[i].kids = {}
    <3> SUFFICES ASSUME NEW i \in DOMAIN g
                 PROVE  /\ g[i].kids \subseteq 1..k /\ g[i].root \in 0..k
                        /\ i \notin g[i].kids
                        /\ g[i].rooted \/ g[i].kids = {}
      OBVIOUS
    <3>1. CASE i \in K \/ i = r
      <4>1. i \in DOMAIN f => f[i].root \in 0..k
        BY <1>1
      <4>2. r \in 0..k /\ None \in 0..k
        BY DEF None
      <4> QED BY <1>1, <3>1, <4>1, <4>2
    <3>2. CASE i \notin K /\ i # r
      <4>1. /\ f[i].kids \subseteq 1..m /\ f[i].root \in 0..m
            /\ i \notin f[i].kids /\ (f[i].rooted \/ f[i].kids = {})
        BY <3>2 DEF Grouped
      <4>2. 1..m \subseteq 1..k /\ 0..m \subseteq 0..k
        OBVIOUS
      <4> QED BY <3>2, <4>1, <4>2
    <3> QED BY <3>1, <3>2
  <2>2. \A i \in DOMAIN g : i # r => g[i].kids \subseteq 1..m /\ g[i].kids \cap K = {}
    BY <1>1
  <2>3. \A p, q \in DOMAIN g : p # q => g[p].kids \cap g[q].kids = {}
    <3> SUFFICES ASSUME NEW p \in DOMAIN g, NEW q \in DOMAIN g, p # q
                 PROVE  g[p].kids \cap g[q].kids = {}
      OBVIOUS
    <3>1. CASE p = r \/ q = r
      BY <1>1, <2>2, <3>1
    <3>2. CASE p # r /\ q # r
      BY <3>2 DEF Grouped
    <3> QED BY <3>1, <3>2
  <2> QED BY <2>1, <2>3 DEF Grouped
<1>3. ASSUME Agree(f), r \in DOMAIN f => f[r].kids = {}, NEW i \in DOMAIN g, NEW q \in DOMAIN g
      PROVE  g[i].root = q <=> i \in g[q].kids
  <2>1. q # None
    BY DEF None
  <2>2. CASE q = r
    <3>1. g[q].kids = K
      BY <1>1, <2>2
    <3>2. CASE i \in K
      BY <1>1, <2>2, <3>1, <3>2
    <3>3. CASE i \notin K
      <4>1. CASE i \in DOMAIN f /\ g[i].root = f[i].root
        <5>1. r \in DOMAIN f => f[i].root # r
          BY <1>3, <4>1 DEF Agree
        <5>2. r \notin DOMAIN f => r > m /\ f[i].root \in 0..m
          BY <1>1, <2>2, <4>1
        <5>3. f[i].root # r
          BY <5>1, <5>2
        <5> QED BY <2>2, <3>1, <3>3, <4>1, <5>3
      <4>2. CASE g[i].root = None
        BY <2>1, <2>2, <3>1, <3>3, <4>2
      <4> QED BY <3>3, <4>1, <4>2
    <3> QED BY <3>2, <3>3
  <2>3. CASE q # r /\ q \in K
    <3>1. q > m /\ g[q].kids = {}
      BY <1>1, <2>3
    <3>2. g[i].root = r \/ g[i].root \in 0..m
      BY <1>1 DEF None
    <3> QED BY <2>3, <3>1, <3>2
  <2>4. CASE q # r /\ q \notin K
    <3>1. q \in DOMAIN f /\ g[q].kids = f[q].kids
      BY <2>4
    <3>2. CASE i \in DOMAIN f
      <4>1. g[i].root = f[i].root
        BY <1>1, <3>2
      <4> QED BY <1>3, <3>1, <3>2, <4>1 DEF Agree
    <3>3. CASE i \notin DOMAIN f
      <4>1. i > m /\ (g[i].root = r \/ g[i].root = None)
        BY <1>1, <3>3
      <4> QED BY <1>1, <2>1, <2>4, <3>1, <4>1
    <3> QED BY <3>2, <3>3
  <2> QED BY <2>2, <2>3, <2>4
<1> QED BY <1>2, <1>3 DEF Agree

(* The copy of a node. *)
LEMMA CopyIsSound ==
  ASSUME NEW node \in Sound, NEW copy, \A i \in DOMAIN copy : copy[i] \in Ids,
         node.rooted \/ node.kids = {}
  PROVE  LET it == CopyOf(node, copy)
         IN /\ it \in Sound
            /\ it.kids = {copy[i] : i \in node.kids \cap DOMAIN copy}
            /\ it.root = IF node.root \in DOMAIN copy THEN copy[node.root] ELSE None
            /\ it.rooted \/ it.kids = {}
<1> DEFINE it == CopyOf(node, copy)
           kids == {copy[i] : i \in node.kids \cap DOMAIN copy}
           root == IF node.root \in DOMAIN copy THEN copy[node.root] ELSE None
           main == IF node.main \in DOMAIN copy THEN copy[node.main] ELSE None
           status == IF node.status = "loading" THEN "idle" ELSE node.status
           rooted == node.rooted /\ kids # {}
           open == node.open /\ kids # {}
<1>1. node \in Node /\ node.file \in {NoPic, node.pic}
  BY DEF Sound
<1>2. it = [node EXCEPT !.rooted = rooted, !.kids = kids, !.open = open, !.root = root,
                        !.main = main, !.status = status]
  BY <1>1 DEF CopyOf, Node
<1>3. /\ kids \in SUBSET Ids /\ root \in Ids \cup {None} /\ main \in Ids \cup {None}
      /\ status \in {"idle", "loading", "error"}
      /\ rooted \in BOOLEAN /\ open \in BOOLEAN
  BY <1>1 DEF Node
<1>4. rooted \/ kids = {}
  OBVIOUS
<1> HIDE DEF it, kids, root, main, status, rooted, open
<1>5. /\ it.kids = kids /\ it.root = root /\ it.rooted = rooted
      /\ it.file = node.file /\ it.pic = node.pic
  BY <1>1, <1>2 DEF Node
<1>6. it \in Node
  BY <1>1, <1>2, <1>3 DEF Node
<1>7. it \in Sound
  BY <1>1, <1>5, <1>6 DEF Sound
<1> QED BY <1>4, <1>5, <1>7 DEF it, kids, root

(* The nodes h are copies of the nodes all, each the copy of one. *)
Copied(f, all, copy, h) ==
  /\ all \subseteq DOMAIN f
  /\ copy \in [all -> DOMAIN h]
  /\ \A i, j \in all : copy[i] = copy[j] => i = j
  /\ \A n \in DOMAIN h : \E i \in all : copy[i] = n
  /\ \E T : h \in [DOMAIN h -> T]
  /\ \A i \in all : h[copy[i]] = CopyOf(f[i], copy)

LEMMA CopiedGroups ==
  ASSUME NEW f, NEW m \in Nat, NEW k \in Nat, m <= k, k <= IdBound, Canvas(f), Grouped(f, m),
         NEW all, NEW copy, NEW h, Copied(f, all, copy, h), DOMAIN h \subseteq (m + 1)..k
  PROVE  /\ Canvas(Added(f, h)) /\ Grouped(Added(f, h), k)
         /\ Agree(f) => Agree(Added(f, h))
<1> DEFINE g == Added(f, h)
           K(i) == {copy[j] : j \in f[i].kids \cap all}
           N == DOMAIN h
<1>0. /\ all \in SUBSET DOMAIN f /\ N \in SUBSET ((m + 1)..k) /\ copy \in [all -> N]
      /\ \A i, j \in all : copy[i] = copy[j] => i = j
      /\ \A n \in N : \E i \in all : copy[i] = n
      /\ \A i \in all : h[copy[i]] = CopyOf(f[i], copy)
      /\ \E T : h \in [N -> T]
  BY DEF Copied
<1> HIDE DEF N
<1> USE <1>0
<1>1. /\ N \subseteq Ids /\ \A n \in N : n \in Nat /\ n > m /\ n <= k
      /\ \A i \in DOMAIN f : i \in 1..m /\ f[i] \in Sound /\ f[i].kids \subseteq 1..m
                             /\ f[i].root \in 0..m /\ i \notin f[i].kids
                             /\ (f[i].rooted \/ f[i].kids = {})
      /\ DOMAIN copy = all
  BY GivenAssumption DEF Grouped, Canvas, Ids
<1>2. ASSUME NEW i \in all
      PROVE  /\ h[copy[i]] \in Sound /\ h[copy[i]].kids = K(i)
             /\ h[copy[i]].root = IF f[i].root \in all THEN copy[f[i].root] ELSE None
             /\ h[copy[i]].rooted \/ h[copy[i]].kids = {}
  <2>1. f[i] \in Sound /\ (f[i].rooted \/ f[i].kids = {}) /\ \A j \in DOMAIN copy : copy[j] \in Ids
    BY <1>1
  <2> QED BY <1>1, <2>1, CopyIsSound
<1>3. Canvas(h)
  <2>1. \A n \in N : h[n] \in Sound
    BY <1>2
  <2>2. PICK T : h \in [N -> T]
    OBVIOUS
  <2> QED BY <1>1, <2>1, <2>2 DEF Canvas, N
<1>4. /\ Canvas(g) /\ DOMAIN g = DOMAIN f \cup N
      /\ \A i \in all : g[copy[i]] = h[copy[i]]
      /\ \A i \in DOMAIN f : g[i] = f[i]
  <2> HIDE DEF g
  <2>1. /\ Canvas(g) /\ DOMAIN g = DOMAIN f \cup N
        /\ \A i \in N : g[i] = h[i]
        /\ \A i \in DOMAIN f \ N : g[i] = f[i]
    <3>1. Canvas(f) /\ Canvas(h)
      BY <1>3
    <3>2. /\ Canvas(Added(f, h)) /\ DOMAIN Added(f, h) = DOMAIN f \cup DOMAIN h
          /\ \A i \in DOMAIN h : Added(f, h)[i] = h[i]
          /\ \A i \in DOMAIN f \ DOMAIN h : Added(f, h)[i] = f[i]
      BY <3>1, AddedNodes
    <3> QED BY <3>2 DEF g, N
  <2>2. DOMAIN f \cap N = {} /\ \A i \in all : copy[i] \in N
    BY <1>1
  <2> QED BY <2>1, <2>2
<1>5. \A i \in all : K(i) \subseteq N /\ \A n \in N : n \notin DOMAIN f
  BY <1>1
<1> HIDE DEF g
<1>8. ASSUME NEW n \in N
      PROVE  g[n].kids \subseteq N
  <2>1. PICK i \in all : n = copy[i]
    OBVIOUS
  <2>2. g[n].kids = K(i) /\ K(i) \subseteq N
    BY <1>2, <1>4, <1>5, <2>1
  <2> QED BY <2>2
<1>6. Grouped(g, k)
  <2>1. DOMAIN g \subseteq 1..k
    <3>1. N \subseteq 1..k /\ DOMAIN f \subseteq 1..k
      BY <1>1
    <3> QED BY <1>4, <3>1
  <2>2. ASSUME NEW i \in DOMAIN g
        PROVE  /\ g[i].kids \subseteq 1..k /\ g[i].root \in 0..k
               /\ i \notin g[i].kids /\ (g[i].rooted \/ g[i].kids = {})
    <3>1. CASE i \in DOMAIN f
      BY <1>1, <1>4, <3>1
    <3>2. CASE i \in N
      <4>1. PICK s \in all : i = copy[s]
        BY <3>2
      <4>2. /\ g[i].kids = K(s) /\ (g[i].rooted \/ g[i].kids = {})
            /\ g[i].root = IF f[s].root \in all THEN copy[f[s].root] ELSE None
        BY <1>2, <1>4, <4>1
      <4>3. g[i].root \in N \cup {None}
        BY <4>2
      <4>4. i \notin K(s)
        BY <1>1, <4>1
      <4>5. N \subseteq 1..k /\ N \cup {None} \subseteq 0..k
        BY <1>1 DEF None
      <4> QED BY <1>5, <4>2, <4>3, <4>4, <4>5
    <3> QED BY <1>4, <3>1, <3>2
  <2>3. ASSUME NEW r \in DOMAIN g, NEW q \in DOMAIN g, r # q
        PROVE  g[r].kids \cap g[q].kids = {}
    <3>1. CASE r \in DOMAIN f /\ q \in DOMAIN f
      BY <1>4, <2>3, <3>1 DEF Grouped
    <3>2. \A i \in DOMAIN f : g[i].kids \subseteq 1..m
      BY <1>1, <1>4
    <3>3. \A n \in N : g[n].kids \subseteq N
      BY <1>8
    <3>4. CASE r \in DOMAIN f /\ q \in N
      BY <1>1, <3>2, <3>3, <3>4
    <3>5. CASE q \in DOMAIN f /\ r \in N
      BY <1>1, <3>2, <3>3, <3>5
    <3>6. CASE r \in N /\ q \in N
      <4>1. PICK s \in all, t \in all : r = copy[s] /\ q = copy[t]
        BY <3>6
      <4>2. s # t /\ g[r].kids = K(s) /\ g[q].kids = K(t)
        BY <1>2, <1>4, <2>3, <4>1
      <4>3. f[s].kids \cap f[t].kids = {}
        BY <4>2 DEF Grouped
      <4>4. K(s) \cap K(t) = {}
        BY <4>3
      <4> QED BY <4>2, <4>4
    <3> QED BY <1>4, <3>1, <3>4, <3>5, <3>6
  <2> QED BY <2>1, <2>2, <2>3 DEF Grouped
<1>7. ASSUME Agree(f), NEW i \in DOMAIN g, NEW r \in DOMAIN g
      PROVE  g[i].root = r <=> i \in g[r].kids
  <2>1. r # None
    BY <1>1, <1>4 DEF None
  <2>2. CASE i \in DOMAIN f /\ r \in DOMAIN f
    BY <1>4, <1>7, <2>2 DEF Agree
  <2>3. CASE i \in DOMAIN f /\ r \in N
    <3>1. g[i].root \in 0..m /\ i \in 1..m /\ g[r].kids \subseteq N
      BY <1>1, <1>4, <1>8, <2>3
    <3> QED BY <1>1, <2>3, <3>1
  <2>4. CASE i \in N /\ r \in DOMAIN f
    <3>1. PICK s \in all : i = copy[s]
      BY <2>4
    <3>2. g[i].root \in N \cup {None}
      BY <1>2, <1>4, <3>1
    <3>3. g[r].kids \subseteq 1..m /\ r \in 1..m
      BY <1>1, <1>4, <2>4
    <3> QED BY <1>1, <2>1, <2>4, <3>2, <3>3
  <2>5. CASE i \in N /\ r \in N
    <3>1. PICK s \in all, t \in all : i = copy[s] /\ r = copy[t]
      BY <2>5
    <3>2. g[i].root = r <=> f[s].root = t
      BY <1>2, <1>4, <2>1, <3>1
    <3>3. i \in g[r].kids <=> s \in f[t].kids
      BY <1>2, <1>4, <3>1
    <3>4. f[s].root = t <=> s \in f[t].kids
      BY <1>7 DEF Agree
    <3> QED BY <3>2, <3>3, <3>4
  <2> QED BY <1>4, <2>2, <2>3, <2>4, <2>5
<1> QED BY <1>4, <1>6, <1>7 DEF Agree, g

-----------------------------------------------------------------------------
(* The invariant *)

(* Nodes and groups; the rest; both together say what TypeOK and the        *)
(* properties say.                                                         *)
NodesInv ==
  /\ Canvas(nodes) /\ Grouped(nodes, made)
  /\ "parted" \notin slips => Agree(nodes)
RestInv ==
  /\ wires \subseteq Ids \X Ids
  /\ jobs \subseteq Job /\ tries \subseteq Ids /\ crops \subseteq Ids
  /\ made \in 0..IdBound /\ asked \in 0..OpBound /\ slips \subseteq Slips
  /\ \A j \in jobs : j.source \in 1..made
Inv == NodesInv /\ RestInv

LEMMA WhatInvSays ==
  ASSUME Inv
  PROVE  TypeOK /\ FileIsOfPicture /\ InOneGroup /\ GroupsAgree
<1>1. TypeOK
  <2>1. DOMAIN nodes \subseteq 1..made /\ nodes \in [DOMAIN nodes -> Node]
    BY DEF Inv, NodesInv, Canvas, Grouped, Sound
  <2> QED BY <2>1 DEF TypeOK, Inv, RestInv, Slips
<1>2. FileIsOfPicture
  BY DEF Inv, NodesInv, Canvas, Sound, FileIsOfPicture
<1>3. InOneGroup /\ GroupsAgree
  BY DEF Inv, NodesInv, Grouped, Agree, InOneGroup, GroupsAgree
<1> QED BY <1>1, <1>2, <1>3

LEMMA Made ==
  ASSUME RestInv
  PROVE  made \in Nat /\ 1..made \subseteq Ids /\ IdBound \in Nat /\ OpBound \in Nat
BY GivenAssumption, OpAssumption DEF RestInv, Ids

LEMMA SourceOf ==
  ASSUME Inv, NEW i \in DOMAIN nodes
  PROVE  /\ i \in Ids /\ i \in 1..made /\ nodes[i] \in Sound /\ nodes[i] \in Node
         /\ nodes[i].file \in {NoPic, nodes[i].pic} /\ nodes[i].kids \subseteq Ids
BY DEF Inv, NodesInv, Canvas, Grouped, Sound, Node

(* The groups stay as they are; nodes may be new or go. *)
LEMMA QuietStep ==
  ASSUME Inv, made' \in Nat, made <= made', Canvas(nodes'), slips \subseteq slips',
         \A i \in DOMAIN nodes' :
           \/ /\ i \in DOMAIN nodes
              /\ nodes'[i].kids = nodes[i].kids /\ nodes'[i].root = nodes[i].root
              /\ nodes'[i].rooted = nodes[i].rooted
           \/ i \in (made + 1)..made' /\ nodes'[i].kids = {} /\ nodes'[i].root = None
  PROVE  NodesInv'
<1>1. made \in Nat /\ Grouped(nodes, made)
  BY Made DEF Inv, NodesInv
<1>2. Grouped(nodes', made') /\ (Agree(nodes) => Agree(nodes'))
  BY <1>1, QuietGroups
<1> QED BY <1>2 DEF Inv, NodesInv

LEMMA AddStep ==
  ASSUME Inv, NEW n \in Nat, Fresh(n), NEW g, nodes' = Added(nodes, g), Canvas(g),
         DOMAIN g \subseteq (made + 1)..made', slips \subseteq slips',
         \A i \in DOMAIN g : g[i].kids = {} /\ g[i].root = None
  PROVE  NodesInv'
<1>1. made' \in Nat /\ made <= made'
  BY Made DEF Fresh, Inv
<1>2. Canvas(nodes) /\ Canvas(g)
  BY DEF Inv, NodesInv
<1>3. /\ Canvas(nodes') /\ DOMAIN nodes' = DOMAIN nodes \cup DOMAIN g
      /\ \A i \in DOMAIN g : nodes'[i] = g[i]
      /\ \A i \in DOMAIN nodes \ DOMAIN g : nodes'[i] = nodes[i]
  <2>1. /\ Canvas(Added(nodes, g)) /\ DOMAIN Added(nodes, g) = DOMAIN nodes \cup DOMAIN g
        /\ \A i \in DOMAIN g : Added(nodes, g)[i] = g[i]
        /\ \A i \in DOMAIN nodes \ DOMAIN g : Added(nodes, g)[i] = nodes[i]
    BY <1>2, AddedNodes
  <2> QED BY <2>1
<1> QED BY <1>1, <1>3, QuietStep

LEMMA AtStep ==
  ASSUME Inv, NEW i, NEW node, nodes' = At(i, node), made' = made, slips \subseteq slips',
         i \in DOMAIN nodes => /\ node \in Sound /\ node.kids = nodes[i].kids
                               /\ node.root = nodes[i].root /\ node.rooted = nodes[i].rooted
  PROVE  NodesInv'
<1>1. Canvas(nodes) /\ (i \in DOMAIN nodes => node \in Sound)
  BY DEF Inv, NodesInv
<1>2. /\ Canvas(nodes') /\ DOMAIN nodes' = DOMAIN nodes
      /\ \A k \in DOMAIN nodes : nodes'[k] = IF k = i THEN node ELSE nodes[k]
  BY <1>1, AtNodes
<1>3. made' \in Nat /\ made <= made'
  BY Made DEF Inv
<1> QED BY <1>2, <1>3, QuietStep

(* A node says how far its picture is. *)
LEMMA StatusStep ==
  ASSUME Inv, NEW i, NEW s \in {"idle", "loading", "error"}, nodes' = Status(i, s),
         made' = made, slips \subseteq slips'
  PROVE  NodesInv'
<1> DEFINE node == [nodes[i] EXCEPT !.status = s]
<1>1. ASSUME i \in DOMAIN nodes
      PROVE  /\ node \in Sound /\ node.kids = nodes[i].kids
             /\ node.root = nodes[i].root /\ node.rooted = nodes[i].rooted
  <2>1. nodes[i] \in Node /\ nodes[i].file \in {NoPic, nodes[i].pic}
    BY <1>1, SourceOf
  <2> QED BY <2>1 DEF Sound, Node
<1>2. nodes' = At(i, node)
  BY DEF Status
<1> HIDE DEF node
<1> QED BY <1>1, <1>2, AtStep

-----------------------------------------------------------------------------
(* Nodes and wires *)

LEMMA WireType ==
  ASSUME NEW a \in Ids, NEW b \in Ids, NEW ka, NEW kb, NEW handle
  PROVE  Wire(a, ka, b, kb, handle) \subseteq Ids \X Ids
BY DEF Wire

LEMMA AskedType ==
  ASSUME RestInv, Asked
  PROVE  asked' \in 0..OpBound
BY Made DEF RestInv, Asked

LEMMA FreshType ==
  ASSUME RestInv, NEW n \in Nat, Fresh(n)
  PROVE  /\ made' \in 0..IdBound /\ made' \in Nat /\ made' = made + n /\ made <= made'
         /\ (made + 1)..made' \subseteq Ids
         /\ \A j \in jobs : j.source \in 1..made'
BY Made DEF RestInv, Fresh, Ids

(* One new node. *)
LEMMA OneNew ==
  ASSUME Inv, Fresh(1), NEW node \in Sound, node.kids = {}, node.root = None,
         nodes' = Added(nodes, [k \in {made'} |-> node]), slips \subseteq slips'
  PROVE  NodesInv' /\ made' \in Ids
<1> DEFINE g == [k \in {made'} |-> node]
<1>1. made' \in Ids /\ made' \in (made + 1)..made'
  BY Made DEF Fresh, Inv, Ids
<1>2. DOMAIN g = {made'} /\ g[made'] = node /\ Canvas(g)
  BY <1>1 DEF Canvas
<1> HIDE DEF g
<1>3. NodesInv'
  <2>1. nodes' = Added(nodes, g)
    BY DEF g
  <2>2. DOMAIN g \subseteq (made + 1)..made' /\ \A i \in DOMAIN g : g[i].kids = {} /\ g[i].root = None
    BY <1>1, <1>2
  <2> QED BY <1>2, <2>1, <2>2, AddStep
<1> QED BY <1>1, <1>3

LEMMA CreateInv ==
  ASSUME Inv, NEW kind \in Kinds, Create(kind)
  PROVE  Inv'
<1>1. RestInv
  BY DEF Inv
<1>2. NodesInv'
  <2>1. Blank(kind) \in Sound /\ Blank(kind).kids = {} /\ Blank(kind).root = None
    BY BlankIsSound
  <2> QED BY <2>1, OneNew DEF Create
<1>3. RestInv'
  BY <1>1, AskedType, FreshType DEF Create, RestInv, chainVars
<1> QED BY <1>2, <1>3 DEF Inv

LEMMA ConnectInv ==
  ASSUME Inv, NEW a \in DOMAIN nodes, NEW b \in DOMAIN nodes, NEW handle,
         ConnectNodes(a, b, handle) \/ AgentConnect(a, b)
  PROVE  Inv'
<1>1. RestInv /\ Canvas(nodes)
  BY DEF Inv, NodesInv
<1>2. NodesInv'
  BY DEF ConnectNodes, AgentConnect, Inv, NodesInv
<1>3. a \in Ids /\ b \in Ids
  BY SourceOf
<1>4. Wire(a, nodes[a].kind, b, nodes[b].kind, handle) \subseteq Ids \X Ids
  BY <1>3, WireType
<1>5. RestInv'
  BY <1>1, <1>3, <1>4, AskedType DEF ConnectNodes, AgentConnect, RestInv, chainVars
<1> QED BY <1>2, <1>5 DEF Inv

LEMMA CreateConnectedInv ==
  ASSUME Inv, NEW a \in DOMAIN nodes, NEW kind \in Kinds, NEW handle, CreateConnected(a, kind, handle)
  PROVE  Inv'
<1>1. RestInv
  BY DEF Inv
<1>2. NodesInv' /\ made' \in Ids
  <2>1. Blank(kind) \in Sound /\ Blank(kind).kids = {} /\ Blank(kind).root = None
    BY BlankIsSound
  <2> QED BY <2>1, OneNew DEF CreateConnected
<1>3. Wire(a, nodes[a].kind, made', kind, handle) \subseteq Ids \X Ids
  BY <1>2, SourceOf, WireType
<1>4. RestInv'
  BY <1>1, <1>3, AskedType, FreshType DEF CreateConnected, RestInv, chainVars
<1> QED BY <1>2, <1>4 DEF Inv

LEMMA DeleteNodesInv ==
  ASSUME Inv, NEW S \in SUBSET DOMAIN nodes, DeleteNodes(S)
  PROVE  Inv'
<1> DEFINE all == S \cup Kids(S)
<1>1. /\ DOMAIN nodes' = DOMAIN nodes \ all
      /\ \A i \in DOMAIN nodes' :
           nodes'[i] = IF ~nodes[i].rooted \/ nodes[i].kids \cap all = {} THEN nodes[i]
                       ELSE IF nodes[i].kind = "custom"
                            THEN [nodes[i] EXCEPT !.kids = nodes[i].kids \ all]
                       ELSE Bereft(nodes, i, all)
      /\ nodes' \in [DOMAIN nodes' -> {nodes'[i] : i \in DOMAIN nodes'}]
  BY DEF DeleteNodes
<1> HIDE DEF all
<1>2. ASSUME NEW i \in DOMAIN nodes'
      PROVE  /\ nodes'[i] \in Sound /\ nodes'[i].kids = nodes[i].kids \ all
             /\ nodes'[i].root = nodes[i].root /\ nodes'[i].rooted = nodes[i].rooted
  <2>1. i \in DOMAIN nodes /\ Canvas(nodes)
    BY <1>1 DEF Inv, NodesInv
  <2>2. /\ nodes[i] \in Sound /\ nodes[i] \in Node /\ nodes[i].file \in {NoPic, nodes[i].pic}
        /\ (nodes[i].rooted \/ nodes[i].kids = {})
    BY <2>1, SourceOf DEF Inv, NodesInv, Grouped
  <2>3. CASE nodes[i].kids \cap all = {}
    BY <1>1, <2>2, <2>3
  <2>4. CASE nodes[i].kids \cap all # {} /\ nodes[i].kind = "custom"
    <3>1. nodes'[i] = [nodes[i] EXCEPT !.kids = nodes[i].kids \ all]
      BY <1>1, <2>2, <2>4
    <3> QED BY <2>2, <3>1 DEF Sound, Node
  <2>5. CASE nodes[i].kids \cap all # {} /\ nodes[i].kind # "custom"
    <3>1. nodes'[i] = Bereft(nodes, i, all)
      BY <1>1, <2>2, <2>5
    <3> QED BY <2>1, <3>1, BereftIsSound
  <2> QED BY <2>3, <2>4, <2>5
<1>3. NodesInv'
  <2>1. made \in Nat /\ Grouped(nodes, made) /\ made' = made /\ slips \subseteq slips'
    BY Made DEF Inv, NodesInv, DeleteNodes
  <2>2. Grouped(nodes', made) /\ (Agree(nodes) => Agree(nodes'))
    BY <1>1, <1>2, <2>1, DroppedGroups
  <2>3. Canvas(nodes')
    BY <1>1, <1>2 DEF Canvas, Inv, NodesInv
  <2> QED BY <2>1, <2>2, <2>3 DEF Inv, NodesInv
<1>4. RestInv'
  <2>1. slips' \subseteq Slips /\ wires' \subseteq wires
    BY DEF DeleteNodes, Inv, RestInv, Slips, Picked, Plucked, Cut
  <2> QED BY <2>1, AskedType DEF Inv, RestInv, DeleteNodes, chainVars
<1> QED BY <1>3, <1>4 DEF Inv

LEMMA DeleteWireInv ==
  ASSUME Inv, NEW w, DeleteWire(w)
  PROVE  Inv'
<1>1. NodesInv'
  BY DEF DeleteWire, Inv, NodesInv
<1>2. RestInv'
  BY AskedType DEF DeleteWire, Inv, RestInv, chainVars
<1> QED BY <1>1, <1>2 DEF Inv

LEMMA DuplicateInv ==
  ASSUME Inv, NEW i \in DOMAIN nodes, DuplicateNode(i)
  PROVE  Inv'
<1> DEFINE copy == [s \in {i} |-> made']
           h == [k \in {made'} |-> CopyOf(nodes[i], copy)]
<1>1. /\ nodes' = Added(nodes, h) /\ slips' = slips /\ Fresh(1)
      /\ Canvas(nodes) /\ Grouped(nodes, made) /\ RestInv
  BY DEF DuplicateNode, Inv, NodesInv
<1>2. /\ made \in Nat /\ made' \in Nat /\ made <= made' /\ made' <= IdBound
      /\ {made'} \subseteq (made + 1)..made'
  BY <1>1, Made DEF Fresh
<1>3. copy \in [{i} -> {made'}] /\ h \in [{made'} -> {CopyOf(nodes[i], copy)}]
  OBVIOUS
<1>4. /\ \A a, b \in {i} : copy[a] = copy[b] => a = b
      /\ \A n \in {made'} : \E a \in {i} : copy[a] = n
      /\ \A a \in {i} : h[copy[a]] = CopyOf(nodes[a], copy)
  OBVIOUS
<1>8. Copied(nodes, {i}, copy, h) /\ DOMAIN h = {made'}
  <2>1. {i} \subseteq DOMAIN nodes /\ DOMAIN h = {made'} /\ \E T : h \in [DOMAIN h -> T]
    BY <1>3
  <2> HIDE DEF copy, h
  <2> QED BY <1>3, <1>4, <2>1 DEF Copied
<1> HIDE DEF copy, h
<1>5. /\ Canvas(Added(nodes, h)) /\ Grouped(Added(nodes, h), made')
      /\ Agree(nodes) => Agree(Added(nodes, h))
  BY <1>1, <1>2, <1>8, CopiedGroups
<1>6. NodesInv'
  BY <1>1, <1>5 DEF NodesInv, Inv
<1>7. RestInv'
  BY <1>1, AskedType, FreshType DEF DuplicateNode, RestInv, chainVars
<1> QED BY <1>6, <1>7 DEF Inv

LEMMA PasteInv ==
  ASSUME Inv, NEW S \in SUBSET DOMAIN nodes, Paste(S)
  PROVE  Inv'
<1> DEFINE all == (S \cup Kids(S)) \cap DOMAIN nodes
           within == {w \in wires : w[1] \in all /\ w[2] \in all}
<1>1. /\ Asked /\ Fresh(Cardinality(all)) /\ slips' = slips
      /\ UNCHANGED <<jobs, tries, crops>>
      /\ \E m \in Copies(all, (made + 1)..made') :
           /\ nodes' = Added(nodes, [k \in (made + 1)..made' |->
                                       CopyOf(nodes[CHOOSE i \in all : m[i] = k], m)])
           /\ wires' = wires \cup {<<m[w[1]], m[w[2]]>> : w \in within}
      /\ Canvas(nodes) /\ Grouped(nodes, made) /\ RestInv
  BY DEF Paste, Inv, NodesInv, chainVars
<1>2. all \subseteq DOMAIN nodes /\ all \subseteq 1..made /\ made \in Nat
  BY <1>1, Made DEF Grouped
<1>3. within \subseteq Ids \X Ids /\ \A w \in within : w[1] \in all /\ w[2] \in all
  BY <1>1 DEF RestInv
<1> HIDE DEF all, within
<1>4. Cardinality(all) \in Nat
  <2>1. IsFiniteSet(1..made)
    BY <1>2, FS_Interval
  <2> QED BY <1>2, <2>1, FS_Subset, FS_CardinalityType
<1>5. /\ made' \in Nat /\ made <= made' /\ made' <= IdBound /\ made' \in 0..IdBound
      /\ (made + 1)..made' \subseteq Ids
      /\ \A j \in jobs : j.source \in 1..made'
  <2>1. made' <= IdBound
    BY <1>1, <1>4 DEF Fresh
  <2> QED BY <1>1, <1>4, <2>1, FreshType
<1> DEFINE N == (made + 1)..made'
<1>6. PICK m \in Copies(all, N) :
        /\ nodes' = Added(nodes, [k \in N |-> CopyOf(nodes[CHOOSE i \in all : m[i] = k], m)])
        /\ wires' = wires \cup {<<m[w[1]], m[w[2]]>> : w \in within}
  BY <1>1
<1> DEFINE h == [k \in N |-> CopyOf(nodes[CHOOSE i \in all : m[i] = k], m)]
           T == {CopyOf(nodes[i], m) : i \in all}
<1>7. /\ m \in [all -> N] /\ \A k \in N : \E i \in all : m[i] = k
      /\ \A i, j \in all : m[i] = m[j] => i = j
  <2>1. /\ m \in [all -> N] /\ \A k \in N : \E i \in all : m[i] = k
        /\ \A i, j \in all : i < j => m[i] < m[j]
    BY <1>6 DEF Copies
  <2>2. ASSUME NEW i \in all, NEW j \in all, m[i] = m[j]
        PROVE  i = j
    <3>1. i \in Nat /\ j \in Nat /\ m[i] \in Nat /\ m[j] \in Nat
      BY <1>2, <2>1
    <3>2. ~(i < j) /\ ~(j < i)
      BY <2>1, <2>2, <3>1
    <3> QED BY <3>1, <3>2
  <2> QED BY <2>1, <2>2
<1>8. h \in [N -> T] /\ \A i \in all : h[m[i]] = CopyOf(nodes[i], m)
  <2>1. ASSUME NEW k \in N
        PROVE  (CHOOSE i \in all : m[i] = k) \in all /\ m[CHOOSE i \in all : m[i] = k] = k
    BY <1>7
  <2>2. ASSUME NEW i \in all
        PROVE  m[i] \in N /\ (CHOOSE j \in all : m[j] = m[i]) = i
    <3>1. m[i] \in N
      BY <1>7
    <3>2. (CHOOSE j \in all : m[j] = m[i]) \in all
          /\ m[CHOOSE j \in all : m[j] = m[i]] = m[i]
      BY <2>1, <3>1
    <3> QED BY <1>7, <3>1, <3>2
  <2> HIDE DEF N
  <2>3. \A k \in N : CopyOf(nodes[CHOOSE i \in all : m[i] = k], m) \in T
    BY <2>1
  <2>4. h \in [N -> T]
    BY <2>3
  <2> QED BY <2>2, <2>4
<1>9. nodes' = Added(nodes, h)
  BY <1>6
<1> HIDE DEF N, h, T
<1>10. /\ Canvas(Added(nodes, h)) /\ Grouped(Added(nodes, h), made')
       /\ Agree(nodes) => Agree(Added(nodes, h))
  <2>1. DOMAIN h = N /\ N \subseteq (made + 1)..made' /\ \E X : h \in [DOMAIN h -> X]
    BY <1>8 DEF N
  <2>2. Copied(nodes, all, m, h)
    BY <1>2, <1>7, <1>8, <2>1 DEF Copied
  <2> QED BY <1>1, <1>2, <1>5, <2>1, <2>2, CopiedGroups
<1>11. NodesInv'
  BY <1>1, <1>9, <1>10 DEF NodesInv, Inv
<1>12. wires' \subseteq Ids \X Ids
  <2>1. \A i \in all : m[i] \in Ids
    BY <1>5, <1>7 DEF N
  <2>2. \A w \in within : <<m[w[1]], m[w[2]]>> \in Ids \X Ids
    BY <1>3, <2>1
  <2> QED BY <1>1, <1>6, <2>2 DEF RestInv
<1>13. RestInv'
  BY <1>1, <1>5, <1>12, AskedType DEF RestInv
<1> QED BY <1>11, <1>13 DEF Inv

-----------------------------------------------------------------------------
(* Groups *)

LEMMA MovedStep ==
  ASSUME Inv, NEW f, NEW m \in Nat, Canvas(f), Grouped(f, m), Agree(nodes) => Agree(f),
         NEW S \in SUBSET DOMAIN f, NEW target \in (DOMAIN f \ S) \cup {None},
         \A i \in S : f[i].kids \cap S = {},
         nodes' = Moved(f, S, target), made' = m, slips \subseteq slips'
  PROVE  NodesInv'
<1>1. S \in SUBSET Ids /\ target \in Ids \cup {None}
  BY DEF Canvas
<1>2. Canvas(Moved(f, S, target))
  BY <1>1, MovedNodes
<1>3. Grouped(Moved(f, S, target), m) /\ (Agree(f) => Agree(Moved(f, S, target)))
  BY MovedGroups
<1> QED BY <1>2, <1>3 DEF Inv, NodesInv

LEMMA AddImagesInv ==
  ASSUME Inv, NEW n \in Nat \ {0}, NEW pics \in [1..n -> Pics],
         NEW target \in DOMAIN nodes \cup {None}, AddImages(pics, target)
  PROVE  Inv'
<1> DEFINE grouped == target = None /\ n > 1
           new == [i \in (made + 1)..(made + n) |-> Picture(pics[i - made])]
           group == [i \in (IF grouped THEN {made'} ELSE {}) |-> Blank("custom")]
           g == Added(new, group)
           f == Added(nodes, g)
           to == IF grouped THEN made' ELSE target
           k == IF grouped THEN n + 1 ELSE n
<1>1. Len(pics) = n
  <2>1. pics \in Seq(Pics) /\ DOMAIN pics = 1..n
    OBVIOUS
  <2>2. Len(pics) \in Nat /\ DOMAIN pics = 1..Len(pics)
    BY <2>1
  <2> QED BY <2>1, <2>2
<1>2. /\ Asked /\ Fresh(k) /\ nodes' = Moved(f, DOMAIN new, to)
      /\ UNCHANGED <<wires, jobs, tries, crops, slips>>
  BY <1>1 DEF AddImages, chainVars
<1>3. k \in Nat /\ made \in Nat /\ made' = made + k /\ made' \in Nat /\ made' <= IdBound
      /\ RestInv /\ Canvas(nodes) /\ Grouped(nodes, made)
  BY <1>2, Made DEF Fresh, Inv, NodesInv
<1>4. /\ Canvas(new) /\ DOMAIN new = (made + 1)..(made + n) /\ DOMAIN new \subseteq (made + 1)..made'
      /\ \A i \in DOMAIN new : new[i].kids = {} /\ new[i].root = None
  <2>1. \A i \in (made + 1)..(made + n) : i - made \in 1..n /\ i \in Ids /\ i \in (made + 1)..made'
    <3>1. n \in Nat /\ n <= k
      OBVIOUS
    <3>2. made + n <= made' /\ made' <= IdBound
      BY <1>3, <3>1
    <3>3. made + 1 \in Nat /\ made + n \in Nat
      BY <1>3, <3>1
    <3> HIDE DEF k
    <3>4. ASSUME NEW i \in (made + 1)..(made + n)
          PROVE  i \in Int /\ made + 1 <= i /\ i <= made + n
      BY <3>3
    <3>5. ASSUME NEW i \in (made + 1)..(made + n)
          PROVE  i - made \in 1..n /\ i \in 1..IdBound /\ i \in (made + 1)..made'
      BY <1>3, <3>1, <3>2, <3>4, GivenAssumption
    <3> QED BY <3>5 DEF Ids
  <2>2. \A i \in (made + 1)..(made + n) : pics[i - made] \in Pics
    BY <2>1
  <2>3. \A i \in (made + 1)..(made + n) :
           /\ Picture(pics[i - made]) \in Sound
           /\ Picture(pics[i - made]).kids = {} /\ Picture(pics[i - made]).root = None
    BY <2>2, PictureIsSound
  <2> QED BY <2>1, <2>3 DEF Canvas
<1>5. /\ Canvas(group) /\ DOMAIN group = IF grouped THEN {made'} ELSE {}
      /\ DOMAIN group \subseteq (made + 1)..made'
      /\ \A i \in DOMAIN group : group[i].kids = {} /\ group[i].root = None
  <2>1. Blank("custom") \in Sound /\ Blank("custom").kids = {} /\ Blank("custom").root = None
    BY BlankIsSound DEF Kinds
  <2>2. grouped => made' \in Ids /\ made' \in (made + 1)..made'
    BY <1>3 DEF Ids
  <2> QED BY <2>1, <2>2 DEF Canvas
<1>6. grouped => made' \notin DOMAIN new
  BY <1>3, <1>4
<1> HIDE DEF new, group
<1>7. /\ Canvas(g) /\ DOMAIN g = DOMAIN new \cup DOMAIN group
      /\ DOMAIN g \subseteq (made + 1)..made'
      /\ \A i \in DOMAIN g : g[i].kids = {} /\ g[i].root = None
  <2>1. /\ Canvas(g) /\ DOMAIN g = DOMAIN new \cup DOMAIN group
        /\ \A i \in DOMAIN group : g[i] = group[i]
        /\ \A i \in DOMAIN new \ DOMAIN group : g[i] = new[i]
    BY <1>4, <1>5, AddedNodes
  <2> HIDE DEF g
  <2> QED BY <1>4, <1>5, <2>1
<1> HIDE DEF g
<1>8. /\ Canvas(f) /\ DOMAIN f = DOMAIN nodes \cup DOMAIN g
      /\ \A i \in DOMAIN g : f[i] = g[i]
      /\ \A i \in DOMAIN nodes \ DOMAIN g : f[i] = nodes[i]
  BY <1>3, <1>7, AddedNodes
<1> HIDE DEF f
<1>9. Grouped(f, made') /\ (Agree(nodes) => Agree(f))
  <2>1. made <= made' /\ \A i \in DOMAIN f :
           \/ /\ i \in DOMAIN nodes
              /\ f[i].kids = nodes[i].kids /\ f[i].root = nodes[i].root
              /\ f[i].rooted = nodes[i].rooted
           \/ i \in (made + 1)..made' /\ f[i].kids = {} /\ f[i].root = None
    BY <1>3, <1>7, <1>8
  <2> QED BY <1>3, <2>1, QuietGroups
<1>10. /\ DOMAIN new \in SUBSET DOMAIN f /\ to \in (DOMAIN f \ DOMAIN new) \cup {None}
       /\ \A i \in DOMAIN new : f[i].kids \cap DOMAIN new = {}
  <2>1. \A i \in DOMAIN nodes : i \notin DOMAIN new
    BY <1>3, <1>4 DEF Grouped
  <2> QED BY <1>5, <1>6, <1>7, <1>8, <2>1
<1> HIDE DEF to, k
<1>11. NodesInv'
  BY <1>2, <1>3, <1>8, <1>9, <1>10, MovedStep
<1>12. RestInv'
  BY <1>2, <1>3, AskedType, FreshType DEF RestInv
<1> QED BY <1>11, <1>12 DEF Inv

LEMMA MoveInv ==
  ASSUME Inv, NEW S \in SUBSET DOMAIN nodes, NEW target \in (DOMAIN nodes \ S) \cup {None},
         \A i \in S : nodes[i].kids \cap S = {}, nodes' = Moved(nodes, S, target),
         UNCHANGED <<chainVars, made>>, wires' \subseteq wires, Asked,
         slips \subseteq slips', slips' \subseteq Slips
  PROVE  Inv'
<1>1. made \in Nat /\ Canvas(nodes) /\ Grouped(nodes, made) /\ made' = made
  BY Made DEF Inv, NodesInv
<1>2. NodesInv'
  BY <1>1, MovedStep
<1>3. RestInv'
  BY AskedType DEF Inv, RestInv, chainVars
<1> QED BY <1>2, <1>3 DEF Inv

LEMMA DropOnInv ==
  ASSUME Inv, NEW S \in SUBSET DOMAIN nodes, NEW target \in DOMAIN nodes, DropOn(S, target)
  PROVE  Inv'
<1> DEFINE dragged == (S \cup Kids(S)) \cap DOMAIN nodes
           joining == {i \in dragged : /\ nodes[i].kind = "image" /\ nodes[i].pic # NoPic
                                       /\ ~nodes[i].rooted /\ nodes[i].root \notin dragged}
<1>1. /\ nodes' = Moved(nodes, joining, target) /\ Asked /\ UNCHANGED <<chainVars, made>>
      /\ target \notin dragged /\ wires' \subseteq wires
      /\ slips' = slips \cup Picked(nodes') \cup Plucked(joining)
  BY DEF DropOn
<1>2. joining \subseteq DOMAIN nodes /\ target \notin joining
  BY <1>1
<1>3. \A i \in joining : nodes[i].kids \cap joining = {}
  BY DEF Inv, NodesInv, Grouped
<1>4. slips \subseteq slips' /\ slips' \subseteq Slips
  BY <1>1 DEF Inv, RestInv, Slips, Picked, Plucked
<1> HIDE DEF joining
<1>5. joining \in SUBSET DOMAIN nodes /\ target \in (DOMAIN nodes \ joining) \cup {None}
  BY <1>2
<1> QED BY <1>1, <1>3, <1>4, <1>5, MoveInv

LEMMA DragOutInv ==
  ASSUME Inv, NEW i \in DOMAIN nodes, NEW target \in DOMAIN nodes \cup {None}, DragOut(i, target)
  PROVE  Inv'
<1>1. /\ nodes' = Moved(nodes, {i}, target) /\ Asked /\ UNCHANGED <<chainVars, made>>
      /\ wires' \subseteq wires /\ slips' = slips
  BY DEF DragOut, chainVars
<1>2. target # i
  <2>1. nodes[i].kind = "image" /\ (target # None => nodes[target].kind = "custom")
    BY DEF DragOut
  <2>2. i # None
    BY SourceOf, IdsAreNaturals
  <2> QED BY <2>1, <2>2
<1>3. \A k \in {i} : nodes[k].kids \cap {i} = {}
  BY DEF Inv, NodesInv, Grouped
<1>4. slips \subseteq slips' /\ slips' \subseteq Slips
  BY <1>1 DEF Inv, RestInv
<1>5. {i} \in SUBSET DOMAIN nodes /\ target \in (DOMAIN nodes \ {i}) \cup {None}
  BY <1>2
<1> QED BY <1>1, <1>3, <1>4, <1>5, MoveInv

LEMMA ToggleInv ==
  ASSUME Inv, NEW r \in DOMAIN nodes, ToggleBatch(r)
  PROVE  Inv'
<1> DEFINE node == [nodes[r] EXCEPT !.open = ~@]
<1>1. nodes[r] \in Node /\ nodes[r].file \in {NoPic, nodes[r].pic}
  BY SourceOf
<1>2. /\ node \in Sound /\ node.kids = nodes[r].kids
      /\ node.root = nodes[r].root /\ node.rooted = nodes[r].rooted
  BY <1>1 DEF Sound, Node
<1>3. nodes' = At(r, node) /\ made' = made /\ slips \subseteq slips'
  <2>1. nodes' = [nodes EXCEPT ![r] = node]
    BY DEF ToggleBatch
  <2> QED BY <2>1 DEF ToggleBatch, At
<1> HIDE DEF node
<1>4. NodesInv'
  BY <1>2, <1>3, AtStep
<1>5. RestInv'
  BY AskedType DEF Inv, RestInv, ToggleBatch, chainVars
<1> QED BY <1>4, <1>5 DEF Inv

LEMMA SetPrimaryInv ==
  ASSUME Inv, NEW i \in DOMAIN nodes, SetBatchPrimary(i)
  PROVE  Inv'
<1> DEFINE r == nodes[i].root
           node == [nodes[r] EXCEPT !.pic = nodes[i].pic, !.file = nodes[i].file, !.main = i]
<1>1. r \in DOMAIN nodes
  BY DEF SetBatchPrimary
<1>2. /\ nodes[r] \in Node /\ i \in Ids
      /\ nodes[i] \in Node /\ nodes[i].file \in {NoPic, nodes[i].pic}
  BY <1>1, SourceOf
<1>3. /\ node \in Sound /\ node.kids = nodes[r].kids
      /\ node.root = nodes[r].root /\ node.rooted = nodes[r].rooted
  BY <1>2 DEF Sound, Node
<1>4. /\ nodes' = At(r, node) /\ made' = made
      /\ slips \subseteq slips' /\ slips' \subseteq Slips
  BY <1>1 DEF SetBatchPrimary, Showing, At, Picked, Inv, RestInv, Slips
<1> HIDE DEF node
<1>5. NodesInv'
  BY <1>3, <1>4, AtStep
<1>6. RestInv'
  BY <1>4, AskedType DEF Inv, RestInv, SetBatchPrimary, chainVars
<1> QED BY <1>5, <1>6 DEF Inv

(* An image that forgets its group. *)
LEMMA ForgetStep ==
  ASSUME Inv, NEW i \in DOMAIN nodes, NEW node \in Sound, node.kids = {}, node.root = None,
         nodes' = [nodes EXCEPT ![i] = node], slips' = slips \cup Parted(i), made' = made
  PROVE  NodesInv' /\ slips' \subseteq Slips
<1>1. made \in Nat /\ Grouped(nodes, made) /\ Canvas(nodes)
  BY Made DEF Inv, NodesInv
<1>2. Canvas(nodes')
  BY <1>1 DEF Canvas
<1>3. /\ Grouped(nodes', made)
      /\ Agree(nodes) /\ nodes[i].root \notin DOMAIN nodes /\ nodes[i].kids = {} => Agree(nodes')
  BY <1>1, ForgottenGroups
<1>4. "parted" \notin slips' => nodes[i].root \notin DOMAIN nodes /\ nodes[i].kids = {}
  BY DEF Parted
<1>5. slips' \subseteq Slips
  BY DEF Parted, Inv, RestInv, Slips
<1> QED BY <1>2, <1>3, <1>4, <1>5 DEF Inv, NodesInv

LEMMA ReplaceInv ==
  ASSUME Inv, NEW i \in DOMAIN nodes, NEW p \in Pics, ReplaceImage(i, p)
  PROVE  Inv'
<1>1. Picture(p) \in Sound /\ Picture(p).kids = {} /\ Picture(p).root = None
  BY PictureIsSound
<1>2. NodesInv' /\ slips' \subseteq Slips
  BY <1>1, ForgetStep DEF ReplaceImage
<1>3. RestInv'
  BY <1>2, AskedType DEF Inv, RestInv, ReplaceImage, chainVars
<1> QED BY <1>2, <1>3 DEF Inv

LEMMA AgentUpdateInv ==
  ASSUME Inv, NEW i \in DOMAIN nodes, AgentUpdate(i)
  PROVE  Inv'
<1> DEFINE node == [Blank("image") EXCEPT !.status = nodes[i].status]
<1>1. node \in Sound /\ node.kids = {} /\ node.root = None
  <2>1. nodes[i] \in Node
    BY SourceOf
  <2>2. Blank("image") \in Node /\ Blank("image").file = NoPic
        /\ Blank("image").kids = {} /\ Blank("image").root = None
    BY BlankIsSound DEF Sound, Kinds, Blank
  <2> QED BY <2>1, <2>2 DEF Sound, Node
<1>2. nodes' = [nodes EXCEPT ![i] = node]
  BY DEF AgentUpdate, At
<1> HIDE DEF node
<1>3. NodesInv' /\ slips' \subseteq Slips
  BY <1>1, <1>2, ForgetStep DEF AgentUpdate
<1>4. RestInv'
  BY <1>3, AskedType DEF Inv, RestInv, AgentUpdate, chainVars
<1> QED BY <1>3, <1>4 DEF Inv

LEMMA AgentDeleteInv ==
  ASSUME Inv, NEW S \in SUBSET DOMAIN nodes, AgentDelete(S)
  PROVE  Inv'
<1>1. /\ nodes' = [i \in DOMAIN nodes \ S |-> nodes[i]] /\ made' = made
      /\ slips \subseteq slips' /\ slips' \subseteq Slips /\ wires' \subseteq wires
  BY DEF AgentDelete, Inv, RestInv, Slips, Cut
<1>2. Canvas(nodes')
  BY <1>1 DEF Inv, NodesInv, Canvas
<1>3. made \in Nat /\ made <= made' /\ made' \in Nat
  BY <1>1, Made DEF Inv
<1>4. NodesInv'
  BY <1>1, <1>2, <1>3, QuietStep
<1>5. RestInv'
  BY <1>1, AskedType DEF Inv, RestInv, AgentDelete, chainVars
<1> QED BY <1>4, <1>5 DEF Inv

-----------------------------------------------------------------------------
(* Generations *)

(* A step that changes neither groups nor the number of nodes. *)
LEMMA JobStep ==
  ASSUME Inv, NodesInv', made' = made, wires' = wires, asked' \in 0..OpBound,
         slips' \subseteq Slips, jobs' \subseteq Job, tries' \subseteq Ids, crops' \subseteq Ids,
         \A j \in jobs' : j.source \in 1..made
  PROVE  Inv'
BY DEF Inv, RestInv

LEMMA JobOf ==
  ASSUME Inv, NEW j \in jobs
  PROVE  j \in Job /\ j.source \in 1..made /\ j.left \subseteq Ids
BY DEF Inv, RestInv, Job

LEMMA GenerateInv ==
  ASSUME Inv, NEW s \in DOMAIN nodes, Generate(s)
  PROVE  Inv'
<1>1. /\ made' = made /\ wires' = wires /\ tries' = tries /\ crops' = crops
      /\ slips \subseteq slips' /\ slips' \subseteq Slips /\ asked' \in 0..OpBound
  BY AskedType DEF Generate, Inv, RestInv, Slips
<1>2. NodesInv'
  <2>1. CASE nodes[s].kind = "config"
    <3>1. nodes' = Status(s, "loading")
      BY <2>1 DEF Generate
    <3> QED BY <1>1, <3>1, StatusStep
  <2>2. CASE nodes[s].kind # "config"
    <3>1. nodes' = nodes
      BY <2>2 DEF Generate
    <3> QED BY <1>1, <3>1 DEF Inv, NodesInv
  <2> QED BY <2>1, <2>2
<1>3. jobs' \subseteq Job /\ \A j \in jobs' : j.source \in 1..made
  <2> DEFINE of == IF nodes[s].kind = "config" THEN "config"
                   ELSE IF nodes[s].pic = NoPic THEN "empty" ELSE "image"
             job == [source |-> s, at |-> "asked", root |-> None, left |-> {}, won |-> FALSE,
                     of |-> of]
  <2>1. job \in Job /\ job.source = s
    <3>1. of \in {"config", "image", "empty"} /\ s \in Ids
      BY SourceOf
    <3> HIDE DEF of
    <3> QED BY <3>1 DEF Job
  <2>2. jobs' = jobs \cup {job}
    BY DEF Generate
  <2> HIDE DEF job
  <2> QED BY <2>1, <2>2, SourceOf DEF Inv, RestInv
<1> QED BY <1>1, <1>2, <1>3, JobStep DEF Inv, RestInv

LEMMA GatherFailsInv ==
  ASSUME Inv, NEW j \in jobs, GatherFails(j)
  PROVE  Inv'
<1>1. /\ made' = made /\ slips' = slips /\ jobs' = jobs \ {j}
      /\ UNCHANGED <<wires, tries, crops, asked>>
  BY DEF GatherFails
<1>2. NodesInv'
  <2>1. CASE nodes' = Status(j.source, "error")
    BY <1>1, <2>1, StatusStep
  <2>2. CASE nodes' = nodes
    BY <1>1, <2>2 DEF Inv, NodesInv
  <2> QED BY <2>1, <2>2 DEF GatherFails
<1> QED BY <1>1, <1>2 DEF Inv, RestInv

LEMMA LayOutInv ==
  ASSUME Inv, NEW j \in jobs, NEW count \in Nat \ {0}, LayOut(j, count)
  PROVE  Inv'
<1> DEFINE empty == j.of = "empty"
           root == IF empty THEN j.source ELSE made + 1
           rest == IF empty THEN made ELSE made + 1
           last == IF count = 1 THEN rest ELSE rest + count
           kids == (rest + 1)..last
           Drawn(n) == [n EXCEPT !.status = "loading", !.rooted = (count > 1), !.kids = kids,
                                 !.open = (count > 1)]
           child == [Blank("image") EXCEPT !.status = "loading", !.root = root]
           new == [i \in kids \cup ({root} \ {j.source}) |->
                     IF i = root THEN Drawn(Blank("image")) ELSE child]
           its == IF empty THEN Drawn(nodes[j.source])
                  ELSE [nodes[j.source] EXCEPT !.status =
                          IF j.of = "config" THEN "loading" ELSE "idle"]
           job == [j EXCEPT !.at = "drawing", !.root = root,
                            !.left = IF count = 1 THEN {root} ELSE kids]
<1>1. /\ Fresh(last - made) /\ nodes' = Added(At(j.source, its), new)
      /\ wires' = wires \cup (IF empty THEN {} ELSE {<<j.source, root>>}) \cup ({root} \X kids)
      /\ jobs' = (jobs \ {j}) \cup {job}
      /\ slips' = slips \cup (IF empty THEN Parted(j.source) ELSE {})
      /\ UNCHANGED <<tries, crops, asked>>
  BY DEF LayOut
<1>2. /\ RestInv /\ Canvas(nodes) /\ Grouped(nodes, made) /\ made \in Nat
      /\ j \in Job /\ j.source \in 1..made
  BY Made, JobOf DEF Inv, NodesInv
<1>3. /\ last \in Nat /\ rest \in Nat /\ made <= rest /\ rest <= last /\ last - made \in Nat
      /\ made' = last /\ last <= IdBound /\ rest <= made + 1 /\ (empty => rest = made)
      /\ (~empty => root = made + 1 /\ rest = root)
  <2>1. /\ rest \in Nat /\ made <= rest /\ rest <= made + 1 /\ (empty => rest = made)
        /\ (~empty => root = made + 1 /\ rest = root)
    BY <1>2
  <2>2. last \in Nat /\ rest <= last
    BY <2>1
  <2>3. made' = last /\ last <= IdBound
    <3> HIDE DEF last
    <3> QED BY <1>1, <1>2, <2>1, <2>2 DEF Fresh
  <2> QED BY <1>2, <2>1, <2>2, <2>3
<1>4. /\ kids \subseteq (made + 1)..made' /\ kids \subseteq Ids
      /\ root \in 1..made' /\ root \in Ids /\ root \notin kids
      /\ (count > 1 \/ kids = {}) /\ (empty \/ root \notin DOMAIN nodes)
  <2>1. root \in 1..made' /\ root \in Nat /\ root <= rest
    <3> HIDE DEF last, kids
    <3> QED BY <1>2, <1>3
  <2>2. \A i \in kids : i \in Nat /\ i > rest /\ i <= last
    <3> HIDE DEF last
    <3> QED BY <1>3
  <2>3. kids \subseteq (made + 1)..made' /\ kids \subseteq Ids /\ root \notin kids
    <3> HIDE DEF last, kids, rest, root
    <3>1. ASSUME NEW i \in kids
          PROVE  i \in (made + 1)..made' /\ i \in 1..IdBound
      <4>1. i \in Nat /\ i > rest /\ i <= last
        BY <2>2
      <4> QED BY <1>2, <1>3, <4>1, GivenAssumption
    <3>2. root \notin kids
      BY <1>3, <2>1, <2>2
    <3> QED BY <3>1, <3>2 DEF Ids
  <2>4. root \in Ids
    <3> HIDE DEF last, kids, rest, root
    <3> QED BY <1>2, <1>3, <2>1, GivenAssumption DEF Ids
  <2>5. count > 1 \/ kids = {}
    <3>1. count = 1 => last = rest
      OBVIOUS
    <3> HIDE DEF last, rest
    <3> QED BY <1>3, <3>1
  <2>6. empty \/ root \notin DOMAIN nodes
    <3>1. ~empty => root = made + 1
      OBVIOUS
    <3> HIDE DEF root
    <3> QED BY <1>2, <3>1 DEF Grouped
  <2> QED BY <2>1, <2>3, <2>4, <2>5, <2>6
<1>5. (count > 1) \in BOOLEAN /\ kids \in SUBSET Ids
  BY <1>4
<1>6. /\ Blank("image") \in Sound /\ Blank("image") \in Node /\ Blank("image").file = NoPic
      /\ Blank("image").kids = {} /\ Blank("image").root = None
  BY BlankIsSound DEF Sound, Kinds, Blank
<1> HIDE DEF empty, root, rest, last, kids
<1>7. ASSUME NEW n \in Node, n.file \in {NoPic, n.pic}
      PROVE  /\ Drawn(n) \in Sound /\ Drawn(n).kids = kids /\ Drawn(n).root = n.root
             /\ Drawn(n).rooted \/ kids = {}
  BY <1>4, <1>5, <1>7 DEF Sound, Node
<1>8. child \in Sound /\ child.kids = {} /\ child.root = root
  BY <1>4, <1>6 DEF Sound, Node
<1>9. Drawn(Blank("image")) \in Sound /\ Drawn(Blank("image")).kids = kids
      /\ Drawn(Blank("image")).root = None /\ (Drawn(Blank("image")).rooted \/ kids = {})
  BY <1>6, <1>7
<1>10. j.source \in DOMAIN nodes =>
         /\ its \in Sound /\ its.root = nodes[j.source].root
         /\ empty => its.kids = kids /\ (its.rooted \/ kids = {})
         /\ ~empty => its.kids = nodes[j.source].kids /\ its.rooted = nodes[j.source].rooted
  <2> SUFFICES ASSUME j.source \in DOMAIN nodes
               PROVE  /\ its \in Sound /\ its.root = nodes[j.source].root
                      /\ empty => its.kids = kids /\ (its.rooted \/ kids = {})
                      /\ ~empty => /\ its.kids = nodes[j.source].kids
                                   /\ its.rooted = nodes[j.source].rooted
    OBVIOUS
  <2>1. nodes[j.source] \in Node /\ nodes[j.source].file \in {NoPic, nodes[j.source].pic}
    BY SourceOf
  <2>2. CASE empty
    BY <1>7, <2>1, <2>2
  <2>3. CASE ~empty
    BY <2>1, <2>3 DEF Sound, Node
  <2> QED BY <2>2, <2>3
<1> HIDE DEF Drawn, child, its
<1>11. Canvas(new) /\ DOMAIN new = kids \cup ({root} \ {j.source})
  BY <1>4, <1>8, <1>9 DEF Canvas
<1> HIDE DEF new
<1> DEFINE f == At(j.source, its)
<1>12. /\ Canvas(f) /\ DOMAIN f = DOMAIN nodes
       /\ \A k \in DOMAIN nodes : f[k] = IF k = j.source THEN its ELSE nodes[k]
  BY <1>2, <1>10, AtNodes
<1> HIDE DEF f
<1>13. /\ Canvas(Added(f, new)) /\ DOMAIN Added(f, new) = DOMAIN f \cup DOMAIN new
       /\ \A i \in DOMAIN new : Added(f, new)[i] = new[i]
       /\ \A i \in DOMAIN f \ DOMAIN new : Added(f, new)[i] = f[i]
  BY <1>11, <1>12, AddedNodes
<1>14. nodes' = Added(f, new)
  BY <1>1 DEF f
<1>15. \A i \in DOMAIN new : new[i] = IF i = root THEN Drawn(Blank("image")) ELSE child
  BY <1>11 DEF new
<1>16. ASSUME NEW i \in DOMAIN nodes'
       PROVE  \/ i \in kids /\ nodes'[i].kids = {} /\ nodes'[i].root = root
              \/ /\ i = root /\ nodes'[i].kids = kids /\ (nodes'[i].rooted \/ kids = {})
                 /\ \/ i \in DOMAIN nodes /\ nodes'[i].root = nodes[i].root
                    \/ i > made /\ nodes'[i].root = None
              \/ /\ i \in DOMAIN nodes \ {root}
                 /\ nodes'[i].kids = nodes[i].kids /\ nodes'[i].root = nodes[i].root
                 /\ nodes'[i].rooted = nodes[i].rooted
  <2>1. CASE i \in DOMAIN new /\ i # root
    <3>1. i \in kids /\ nodes'[i] = child
      BY <1>11, <1>13, <1>14, <1>15, <2>1
    <3> QED BY <1>8, <3>1
  <2>2. CASE i \in DOMAIN new /\ i = root
    <3>1. nodes'[i] = Drawn(Blank("image")) /\ root # j.source
      BY <1>4, <1>11, <1>13, <1>14, <1>15, <2>2
    <3>2. ~empty
      BY <3>1 DEF root
    <3> QED BY <1>2, <1>3, <1>9, <2>2, <3>1, <3>2
  <2>3. CASE i \notin DOMAIN new
    <3>1. i \in DOMAIN nodes /\ nodes'[i] = f[i]
      BY <1>12, <1>13, <1>14, <2>3
    <3>2. CASE i # j.source
      <4>1. i # root
        BY <1>11, <2>3, <3>2
      <4> QED BY <1>12, <3>1, <3>2, <4>1
    <3>3. CASE i = j.source /\ empty
      <4>1. i = root /\ nodes'[i] = its
        BY <1>12, <3>1, <3>3 DEF root
      <4> QED BY <1>10, <3>1, <3>3, <4>1
    <3>4. CASE i = j.source /\ ~empty
      <4>1. i # root /\ nodes'[i] = its
        BY <1>4, <1>12, <3>1, <3>4
      <4> QED BY <1>10, <3>1, <3>4, <4>1
    <3> QED BY <3>2, <3>3, <3>4
  <2> QED BY <2>1, <2>2, <2>3
<1>17. DOMAIN nodes' \subseteq 1..made'
  <2>1. DOMAIN nodes \subseteq 1..made' /\ kids \subseteq 1..made'
    BY <1>2, <1>3, <1>4 DEF Grouped
  <2> QED BY <1>4, <1>11, <1>12, <1>13, <1>14, <2>1
<1>18. /\ Grouped(nodes', made')
       /\ Agree(nodes) /\ (root \in DOMAIN nodes => nodes[root].kids = {}) => Agree(nodes')
  <2>1. made' \in Nat /\ made <= made' /\ kids \in SUBSET ((made + 1)..made')
    BY <1>2, <1>3, <1>4
  <2>2. made \in Nat /\ Grouped(nodes, made) /\ root \in 1..made' /\ root \notin kids
    BY <1>2, <1>4
  <2> QED BY <1>16, <1>17, <2>1, <2>2, LaidOutGroups, SMTT(30)
<1>19. "parted" \notin slips' => "parted" \notin slips /\ (root \in DOMAIN nodes => nodes[root].kids = {})
  <2>1. CASE root \in DOMAIN nodes
    <3>1. empty /\ root = j.source
      BY <1>4, <2>1 DEF root
    <3> QED BY <1>1, <2>1, <3>1 DEF Parted
  <2>2. CASE root \notin DOMAIN nodes
    BY <1>1, <2>2
  <2> QED BY <2>1, <2>2
<1>20. NodesInv'
  BY <1>13, <1>14, <1>18, <1>19 DEF Inv, NodesInv
<1>21. RestInv'
  <2>1. job \in Job /\ job.source = j.source
    <3>1. (IF count = 1 THEN {root} ELSE kids) \in SUBSET Ids
      BY <1>4
    <3> QED BY <1>2, <1>4, <3>1 DEF Job
  <2> HIDE DEF job
  <2>2. /\ jobs' \subseteq Job /\ made' \in 0..IdBound
        /\ \A o \in jobs' : o.source \in 1..made'
    BY <1>1, <1>2, <1>3, <2>1 DEF RestInv
  <2>3. wires' \subseteq Ids \X Ids
    <3>1. j.source \in Ids
      BY <1>2 DEF Job
    <3>2. {root} \X kids \subseteq Ids \X Ids /\ <<j.source, root>> \in Ids \X Ids
      BY <1>4, <3>1
    <3>3. wires' \subseteq wires \cup {<<j.source, root>>} \cup ({root} \X kids)
      BY <1>1
    <3> QED BY <1>2, <3>2, <3>3 DEF RestInv
  <2>4. slips' \subseteq Slips
    BY <1>1, <1>2 DEF RestInv, Slips, Parted
  <2> QED BY <1>1, <1>2, <2>2, <2>3, <2>4 DEF RestInv
<1> QED BY <1>20, <1>21 DEF Inv

LEMMA ResultInv ==
  ASSUME Inv, NEW j \in jobs, NEW t \in j.left, NEW p \in Pics, Result(j, t, p)
  PROVE  Inv'
<1>1. /\ made' = made /\ slips' = slips \cup Redrawn(t) /\ UNCHANGED <<wires, tries, crops, asked>>
      /\ jobs' = (jobs \ {j}) \cup {[j EXCEPT !.left = @ \ {t}, !.won = TRUE]}
  BY DEF Result
<1>2. j \in Job /\ j.source \in 1..made /\ t \in Ids
  BY JobOf
<1> DEFINE pictured(i) == [nodes[i] EXCEPT !.pic = p, !.file = p, !.status = "idle"]
<1>3. /\ DOMAIN nodes' = DOMAIN nodes
      /\ \A i \in DOMAIN nodes :
           nodes'[i] \in {[pictured(i) EXCEPT !.main = t], pictured(i),
                          [nodes[i] EXCEPT !.status = "idle"], nodes[i]}
  BY DEF Result
<1>4. ASSUME NEW i \in DOMAIN nodes
      PROVE  /\ nodes'[i] \in Sound /\ nodes'[i].kids = nodes[i].kids
             /\ nodes'[i].root = nodes[i].root /\ nodes'[i].rooted = nodes[i].rooted
  <2>1. nodes[i] \in Node /\ nodes[i].file \in {NoPic, nodes[i].pic}
    BY SourceOf
  <2>2. p \in Pictures
    BY DEF Pictures
  <2>3. CASE nodes'[i] = [pictured(i) EXCEPT !.main = t]
    <3>1. nodes'[i] = [kind |-> nodes[i].kind, pic |-> p, file |-> p, status |-> "idle",
                    rooted |-> nodes[i].rooted, root |-> nodes[i].root, kids |-> nodes[i].kids,
                    main |-> t, open |-> nodes[i].open]
      BY <2>1, <2>3 DEF Node
    <3>2. nodes'[i] \in Node /\ nodes'[i].file = nodes'[i].pic
      BY <1>2, <2>1, <2>2, <3>1 DEF Node
    <3>3. /\ nodes'[i].kids = nodes[i].kids /\ nodes'[i].root = nodes[i].root
          /\ nodes'[i].rooted = nodes[i].rooted
      BY <3>1
    <3> QED BY <3>2, <3>3 DEF Sound
  <2>4. CASE nodes'[i] = pictured(i)
    <3>1. nodes'[i] = [kind |-> nodes[i].kind, pic |-> p, file |-> p, status |-> "idle",
                    rooted |-> nodes[i].rooted, root |-> nodes[i].root, kids |-> nodes[i].kids,
                    main |-> nodes[i].main, open |-> nodes[i].open]
      BY <2>1, <2>4 DEF Node
    <3>2. nodes'[i] \in Node /\ nodes'[i].file = nodes'[i].pic
      BY <2>1, <2>2, <3>1 DEF Node
    <3>3. /\ nodes'[i].kids = nodes[i].kids /\ nodes'[i].root = nodes[i].root
          /\ nodes'[i].rooted = nodes[i].rooted
      BY <3>1
    <3> QED BY <3>2, <3>3 DEF Sound
  <2>5. CASE nodes'[i] = [nodes[i] EXCEPT !.status = "idle"]
    BY <2>1, <2>5 DEF Sound, Node
  <2>6. CASE nodes'[i] = nodes[i]
    BY <2>1, <2>6 DEF Sound
  <2> QED BY <1>3, <2>3, <2>4, <2>5, <2>6
<1>5. Canvas(nodes')
  <2>1. nodes' \in [DOMAIN nodes -> {nodes'[i] : i \in DOMAIN nodes}]
    BY DEF Result
  <2>2. DOMAIN nodes' \subseteq Ids
    BY <1>3 DEF Inv, NodesInv, Canvas
  <2> QED BY <1>3, <1>4, <2>1, <2>2 DEF Canvas
<1>6. NodesInv'
  <2>1. made' \in Nat /\ made <= made' /\ slips \subseteq slips'
    BY <1>1, Made DEF Inv
  <2> QED BY <1>3, <1>4, <1>5, <2>1, QuietStep
<1>7. jobs' \subseteq Job /\ \A o \in jobs' : o.source \in 1..made
  <2> DEFINE job == [j EXCEPT !.left = @ \ {t}, !.won = TRUE]
  <2>1. job \in Job /\ job.source = j.source
    BY <1>2 DEF Job
  <2>2. jobs' = (jobs \ {j}) \cup {job}
    BY <1>1
  <2> HIDE DEF job
  <2> QED BY <1>2, <2>1, <2>2 DEF Inv, RestInv
<1>8. slips' \subseteq Slips
  BY <1>1 DEF Redrawn, Slips, Inv, RestInv
<1> QED BY <1>1, <1>6, <1>7, <1>8, JobStep DEF Inv, RestInv

LEMMA ResultFailsInv ==
  ASSUME Inv, NEW j \in jobs, NEW t \in j.left, ResultFails(j, t)
  PROVE  Inv'
<1>1. /\ made' = made /\ slips' = slips /\ UNCHANGED <<wires, tries, crops, asked>>
      /\ jobs' = (jobs \ {j}) \cup {[j EXCEPT !.left = @ \ {t}]} /\ nodes' = Status(t, "error")
  BY DEF ResultFails
<1>2. NodesInv'
  BY <1>1, StatusStep
<1>3. jobs' \subseteq Job /\ \A o \in jobs' : o.source \in 1..made
  <2> DEFINE job == [j EXCEPT !.left = @ \ {t}]
  <2>1. job \in Job /\ job.source = j.source
    BY JobOf DEF Job
  <2>2. jobs' = (jobs \ {j}) \cup {job}
    BY <1>1
  <2> HIDE DEF job
  <2> QED BY <2>1, <2>2, JobOf DEF Inv, RestInv
<1> QED BY <1>1, <1>2, <1>3, JobStep DEF Inv, RestInv

LEMMA EndJobInv ==
  ASSUME Inv, NEW j \in jobs, EndJob(j)
  PROVE  Inv'
<1>1. /\ made' = made /\ slips' = slips /\ UNCHANGED <<wires, tries, crops, asked>>
      /\ jobs' = jobs \ {j} /\ nodes' = Ended(j)
  BY DEF EndJob
<1>2. /\ DOMAIN nodes' = DOMAIN nodes
      /\ \A i \in DOMAIN nodes :
           nodes'[i] \in {[nodes[i] EXCEPT !.status = "idle"], [nodes[i] EXCEPT !.status = "error"],
                          nodes[i]}
  BY <1>1 DEF Ended
<1>3. ASSUME NEW i \in DOMAIN nodes
      PROVE  /\ nodes'[i] \in Sound /\ nodes'[i].kids = nodes[i].kids
             /\ nodes'[i].root = nodes[i].root /\ nodes'[i].rooted = nodes[i].rooted
  <2>1. nodes[i] \in Node /\ nodes[i].file \in {NoPic, nodes[i].pic}
    BY SourceOf
  <2>2. CASE \E s \in {"idle", "error"} : nodes'[i] = [nodes[i] EXCEPT !.status = s]
    BY <2>1, <2>2 DEF Sound, Node
  <2>3. CASE nodes'[i] = nodes[i]
    BY <2>1, <2>3 DEF Sound
  <2> QED BY <1>2, <2>2, <2>3
<1>4. Canvas(nodes')
  <2>1. nodes' \in [DOMAIN nodes -> {nodes'[i] : i \in DOMAIN nodes}]
    BY <1>1 DEF Ended
  <2>2. DOMAIN nodes' \subseteq Ids
    BY <1>2 DEF Inv, NodesInv, Canvas
  <2> QED BY <1>2, <1>3, <2>1, <2>2 DEF Canvas
<1>5. NodesInv'
  <2>1. made' \in Nat /\ made <= made' /\ slips \subseteq slips'
    BY <1>1, Made DEF Inv
  <2> QED BY <1>2, <1>3, <1>4, <2>1, QuietStep
<1> QED BY <1>1, <1>5 DEF Inv, RestInv

LEMMA RetryInv ==
  ASSUME Inv, NEW i \in DOMAIN nodes, Retry(i)
  PROVE  Inv'
<1>1. NodesInv'
  BY StatusStep DEF Retry
<1>2. RestInv'
  BY AskedType, SourceOf DEF Retry, Inv, RestInv
<1> QED BY <1>1, <1>2 DEF Inv

LEMMA TryDoneInv ==
  ASSUME Inv, NEW i \in tries, NEW p \in Pics, TryDone(i, p)
  PROVE  Inv'
<1> DEFINE node == [nodes[i] EXCEPT !.kind = "image", !.pic = p, !.file = p, !.status = "idle"]
<1>1. ASSUME i \in DOMAIN nodes
      PROVE  /\ node \in Sound /\ node.kids = nodes[i].kids
             /\ node.root = nodes[i].root /\ node.rooted = nodes[i].rooted
  <2>1. nodes[i] \in Node /\ p \in Pictures
    BY <1>1, SourceOf DEF Pictures
  <2> QED BY <2>1 DEF Sound, Node, Kinds
<1>2. /\ nodes' = At(i, node) /\ made' = made /\ tries' \subseteq tries
      /\ slips \subseteq slips' /\ slips' \subseteq Slips
  BY DEF TryDone, Redrawn, Inv, RestInv, Slips
<1> HIDE DEF node
<1>3. NodesInv'
  BY <1>1, <1>2, AtStep
<1>4. RestInv'
  BY <1>2 DEF TryDone, Inv, RestInv
<1> QED BY <1>3, <1>4 DEF Inv

LEMMA TryFailsInv ==
  ASSUME Inv, NEW i \in tries, TryFails(i)
  PROVE  Inv'
<1>1. NodesInv'
  BY StatusStep DEF TryFails
<1>2. RestInv'
  BY DEF TryFails, Inv, RestInv
<1> QED BY <1>1, <1>2 DEF Inv

LEMMA AngleInv ==
  ASSUME Inv, NEW i \in DOMAIN nodes, Angle(i)
  PROVE  Inv'
<1> DEFINE node == [Blank("image") EXCEPT !.status = "loading"]
<1>1. node \in Sound /\ node.kids = {} /\ node.root = None
  <2>1. Blank("image") \in Node /\ Blank("image").file = NoPic
        /\ Blank("image").kids = {} /\ Blank("image").root = None
    BY BlankIsSound DEF Sound, Kinds, Blank
  <2> QED BY <2>1 DEF Sound, Node
<1>2. nodes' = Added(nodes, [k \in {made'} |-> node]) /\ Fresh(1) /\ slips' = slips
  BY DEF Angle
<1> HIDE DEF node
<1>3. NodesInv' /\ made' \in Ids
  BY <1>1, <1>2, OneNew
<1>4. RestInv'
  BY <1>3, SourceOf, AskedType, FreshType DEF Angle, Inv, RestInv
<1> QED BY <1>3, <1>4 DEF Inv

LEMMA CropInv ==
  ASSUME Inv, NEW i \in DOMAIN nodes, Crop(i)
  PROVE  Inv'
<1>1. NodesInv'
  BY DEF Crop, Inv, NodesInv
<1>2. RestInv'
  BY SourceOf, AskedType DEF Crop, Inv, RestInv
<1> QED BY <1>1, <1>2 DEF Inv

LEMMA CroppedInv ==
  ASSUME Inv, NEW i \in crops, NEW p \in Pics, Cropped(i, p)
  PROVE  Inv'
<1>1. Picture(p) \in Sound /\ Picture(p).kids = {} /\ Picture(p).root = None
  BY PictureIsSound
<1>2. /\ nodes' = Added(nodes, [k \in {made'} |-> Picture(p)]) /\ Fresh(1)
      /\ slips \subseteq slips' /\ slips' \subseteq Slips
  BY DEF Cropped, Inv, RestInv, Slips
<1>3. NodesInv' /\ made' \in Ids
  BY <1>1, <1>2, OneNew
<1>4. RestInv'
  BY <1>2, <1>3, FreshType DEF Cropped, Inv, RestInv
<1> QED BY <1>3, <1>4 DEF Inv

-----------------------------------------------------------------------------
(* Theorems *)

LEMMA InitInv ==
  ASSUME Init
  PROVE  Inv
<1>1. DOMAIN nodes = 1..Given /\ made = Given
  BY DEF Init
<1>2. ASSUME NEW i \in DOMAIN nodes
      PROVE  nodes[i] \in Sound /\ nodes[i].kids = {} /\ nodes[i].root = None
  <2>1. nodes[i] \in {Blank(k) : k \in Kinds} \cup {Picture(p) : p \in Pics}
    BY <1>1 DEF Init
  <2> QED BY <2>1, BlankIsSound, PictureIsSound
<1>3. Canvas(nodes)
  <2>1. nodes \in [DOMAIN nodes -> {Blank(k) : k \in Kinds} \cup {Picture(p) : p \in Pics}]
    BY <1>1 DEF Init
  <2>2. 1..Given \subseteq Ids
    BY GivenAssumption DEF Ids
  <2> QED BY <1>1, <1>2, <2>1, <2>2 DEF Canvas
<1>4. Grouped(nodes, made)
  <2>1. Given \in Nat /\ 0 \in 0..Given
    BY GivenAssumption
  <2> QED BY <1>1, <1>2, <2>1 DEF Grouped, None
<1>5. Agree(nodes)
  <2>1. \A r \in DOMAIN nodes : r # None
    BY <1>1, GivenAssumption DEF None
  <2> QED BY <1>2, <2>1 DEF Agree
<1>6. RestInv
  BY <1>1, GivenAssumption, OpAssumption DEF Init, RestInv
<1> QED BY <1>3, <1>4, <1>5, <1>6 DEF Inv, NodesInv

LEMMA StepInv ==
  ASSUME Inv, [Next]_vars
  PROVE  Inv'
<1>1. CASE Edit
  <2>1. ASSUME NEW k \in Kinds, Create(k) PROVE Inv'
    BY <2>1, CreateInv
  <2>2. ASSUME NEW a \in DOMAIN nodes, NEW b \in DOMAIN nodes, NEW h \in {"source", "target"},
               ConnectNodes(a, b, h)
        PROVE  Inv'
    BY <2>2, ConnectInv
  <2>3. ASSUME NEW a \in DOMAIN nodes, NEW k \in Kinds, NEW h \in {"source", "target"},
               CreateConnected(a, k, h)
        PROVE  Inv'
    BY <2>3, CreateConnectedInv
  <2>4. ASSUME NEW S \in SUBSET DOMAIN nodes, DeleteNodes(S) PROVE Inv'
    BY <2>4, DeleteNodesInv
  <2>5. ASSUME NEW S \in SUBSET DOMAIN nodes, Paste(S) PROVE Inv'
    BY <2>5, PasteInv
  <2>6. ASSUME NEW w \in wires, DeleteWire(w) PROVE Inv'
    BY <2>6, DeleteWireInv
  <2>7. ASSUME NEW i \in DOMAIN nodes, DuplicateNode(i) PROVE Inv'
    BY <2>7, DuplicateInv
  <2> QED BY <1>1, <2>1, <2>2, <2>3, <2>4, <2>5, <2>6, <2>7 DEF Edit
<1>2. CASE Group
  <2>1. ASSUME NEW n \in 1..CountBound, NEW pics \in [1..n -> Pics],
               NEW t \in DOMAIN nodes \cup {None}, AddImages(pics, t)
        PROVE  Inv'
    <3>1. n \in Nat \ {0}
      BY OpAssumption
    <3> QED BY <2>1, <3>1, AddImagesInv
  <2>2. ASSUME NEW S \in SUBSET DOMAIN nodes, NEW t \in DOMAIN nodes, DropOn(S, t) PROVE Inv'
    BY <2>2, DropOnInv
  <2>3. ASSUME NEW i \in DOMAIN nodes, NEW t \in DOMAIN nodes \cup {None}, DragOut(i, t)
        PROVE  Inv'
    BY <2>3, DragOutInv
  <2>4. ASSUME NEW i \in DOMAIN nodes, ToggleBatch(i) PROVE Inv'
    BY <2>4, ToggleInv
  <2>5. ASSUME NEW i \in DOMAIN nodes, SetBatchPrimary(i) PROVE Inv'
    BY <2>5, SetPrimaryInv
  <2>6. ASSUME NEW i \in DOMAIN nodes, NEW p \in Pics, ReplaceImage(i, p) PROVE Inv'
    BY <2>6, ReplaceInv
  <2> QED BY <1>2, <2>1, <2>2, <2>3, <2>4, <2>5, <2>6 DEF Group
<1>3. CASE Draw
  BY <1>3, GenerateInv, RetryInv, AngleInv, CropInv DEF Draw
<1>4. CASE Answers
  <2>1. ASSUME NEW j \in jobs, GatherFails(j) \/ EndJob(j) PROVE Inv'
    BY <2>1, GatherFailsInv, EndJobInv
  <2>2. ASSUME NEW j \in jobs, NEW n \in 1..CountBound, LayOut(j, n) PROVE Inv'
    <3>1. n \in Nat \ {0}
      BY OpAssumption
    <3> QED BY <2>2, <3>1, LayOutInv
  <2>3. ASSUME NEW j \in jobs, NEW t \in j.left, ResultFails(j, t) PROVE Inv'
    BY <2>3, ResultFailsInv
  <2>4. ASSUME NEW j \in jobs, NEW t \in j.left, NEW p \in Pics, Result(j, t, p) PROVE Inv'
    BY <2>4, ResultInv
  <2>5. ASSUME NEW i \in tries, TryFails(i) PROVE Inv'
    BY <2>5, TryFailsInv
  <2>6. ASSUME NEW i \in tries, NEW p \in Pics, TryDone(i, p) PROVE Inv'
    BY <2>6, TryDoneInv
  <2>7. ASSUME NEW i \in crops, NEW p \in Pics, Cropped(i, p) PROVE Inv'
    BY <2>7, CroppedInv
  <2> QED BY <1>4, <2>1, <2>2, <2>3, <2>4, <2>5, <2>6, <2>7 DEF Answers
<1>5. CASE Agent
  <2>1. ASSUME NEW i \in DOMAIN nodes, AgentUpdate(i) PROVE Inv'
    BY <2>1, AgentUpdateInv
  <2>2. ASSUME NEW S \in SUBSET DOMAIN nodes, AgentDelete(S) PROVE Inv'
    BY <2>2, AgentDeleteInv
  <2>3. ASSUME NEW a \in DOMAIN nodes, NEW b \in DOMAIN nodes, AgentConnect(a, b) PROVE Inv'
    BY <2>3, ConnectInv
  <2> QED BY <1>5, <2>1, <2>2, <2>3 DEF Agent
<1>6. CASE UNCHANGED vars
  BY <1>6 DEF Inv, NodesInv, RestInv, vars, chainVars
<1> QED BY <1>1, <1>2, <1>3, <1>4, <1>5, <1>6 DEF Next

(* Whatever is edited, grouped, drawn, answered or asked for by the         *)
(* assistant, ids are used once, and the groups are what Inv says.         *)
THEOREM Invariance == Spec => []Inv
<1>1. Init => Inv
  BY InitInv
<1>2. Inv /\ [Next]_vars => Inv'
  BY StepInv
<1> QED BY <1>1, <1>2, PTL DEF Spec

(* The registers of the canvas keep their types. *)
THEOREM TypeCorrect == Spec => []TypeOK
<1>1. Inv => TypeOK
  BY WhatInvSays
<1> QED BY <1>1, Invariance, PTL

(* moveCanvasImages, the deletion of a main image and the answers of a      *)
(* batch never leave a node with the file of another picture.              *)
THEOREM FilesFollowPictures == Spec => []FileIsOfPicture
<1>1. Inv => FileIsOfPicture
  BY WhatInvSays
<1> QED BY <1>1, Invariance, PTL

(* No image is ever listed by two groups, not even when groups are copied,  *)
(* replaced, drawn into or edited by the assistant.                        *)
THEOREM GroupsApart == Spec => []InOneGroup
<1>1. Inv => InOneGroup
  BY WhatInvSays
<1> QED BY <1>1, Invariance, PTL

(* Until an image forgets its own end, batchChildIds and batchRootId agree. *)
THEOREM EndsAgree == Spec => []GroupsAgree
<1>1. Inv => GroupsAgree
  BY WhatInvSays
<1> QED BY <1>1, Invariance, PTL

-----------------------------------------------------------------------------
(* What nodes show, and what is awaited for them                           *)

(* The nodes an answer is asked for, or may be shown in. *)
Targets == tries \cup UNION {{j.source, j.root} \cup j.left : j \in jobs}
Plain(n) == ~n.open /\ n.main = None /\ n.status = "idle"
KindsInv ==
  /\ \A i \in DOMAIN nodes : /\ nodes[i].kind = "custom" => Plain(nodes[i]) /\ i \notin Targets
                             /\ nodes[i].kind = "config" => nodes[i].kids = {}
  /\ Targets \subseteq 0..made
  /\ \A j \in jobs : j.of = "empty" /\ j.source \in DOMAIN nodes => nodes[j.source].kind = "image"
  /\ \A j \in jobs : j.at = "asked" => j.root = None /\ j.left = {} /\ ~j.won

(* Groups are not nested, and what a generation draws in is in no group but *)
(* a custom node's.                                                        *)
Flat(f) ==
  \A q \in DOMAIN f : \A k \in f[q].kids \cap DOMAIN f : f[k].kids = {} /\ f[k].kind # "custom"
Free ==
  \A j \in jobs, q \in DOMAIN nodes :
    nodes[q].kind # "custom" /\ j.root \in DOMAIN nodes => j.root \notin nodes[q].kids

MainOf(f, r) ==
  f[r].main \in f[r].kids \cap DOMAIN f /\ f[f[r].main].pic # NoPic => f[r].pic = f[f[r].main].pic
Shown(f) == \A r \in DOMAIN f : MainOf(f, r)

(* A stack that is closed has two images at least, and all are there. *)
Two(S) == \E a, b \in S : a # b
Seen(n) == n.kind = "custom" \/ n.kids = {} \/ n.open \/ Two(n.kids)
Whole(f) == \A r \in DOMAIN f : f[r].kids \subseteq DOMAIN f /\ Seen(f[r])

(* The job j will say how the drawing of the node i ended. *)
Awaits(j, i) ==
  \/ i = j.source /\ (IF j.at = "asked" THEN j.of = "config" ELSE j.of \in {"config", "empty"})
  \/ i \in j.left
  \/ i = j.root /\ ~j.won /\ nodes[i].main = None
Awaited ==
  \A i \in DOMAIN nodes :
    nodes[i].status = "loading" => i \in tries \/ \E j \in jobs : Awaits(j, i)

FlatInv == "parted" \notin slips => Flat(nodes) /\ Free
ShownInv == slips \cap {"parted", "redrawn"} = {} => Shown(nodes)
WholeInv == slips \cap {"parted", "plucked"} = {} => Whole(nodes)
AwaitInv == "picked" \notin slips => Awaited

(* n is in its group what o was, and shows what it showed. *)
Same(n, o) ==
  /\ n.kind = o.kind /\ n.kids = o.kids /\ n.root = o.root /\ n.open = o.open
  /\ n.main = o.main /\ n.pic = o.pic
Single(n) == /\ n.kids = {} /\ n.root = None /\ n.main = None /\ ~n.open
             /\ n.kind = "custom" => n.status = "idle"

(* No node changes but in how far its picture is; some are new. *)
Calm ==
  /\ slips \subseteq slips' /\ made \in Nat /\ made' \in Nat /\ made <= made'
  /\ DOMAIN nodes \subseteq DOMAIN nodes'
  /\ \A i \in DOMAIN nodes' :
       \/ /\ i \in DOMAIN nodes /\ Same(nodes'[i], nodes[i])
          /\ nodes[i].kind = "custom" => nodes'[i].status = nodes[i].status
       \/ i \in (made + 1)..made' /\ Single(nodes'[i])

LEMMA StatusSays ==
  ASSUME Inv, NEW i, NEW s, nodes' = Status(i, s)
  PROVE  /\ DOMAIN nodes' = DOMAIN nodes
         /\ \A k \in DOMAIN nodes : /\ Same(nodes'[k], nodes[k])
                                    /\ nodes'[k].status = IF k = i THEN s ELSE nodes[k].status
<1>1. Canvas(nodes)
  BY DEF Inv, NodesInv
<1>2. CASE i \in DOMAIN nodes
  <2>1. nodes' = [nodes EXCEPT ![i] = [nodes[i] EXCEPT !.status = s]] /\ nodes[i] \in Node
    BY <1>2, SourceOf DEF Status, At
  <2>2. \A k \in DOMAIN nodes : k # i => nodes'[k] = nodes[k]
    BY <2>1
  <2>3. nodes'[i] = [nodes[i] EXCEPT !.status = s] /\ DOMAIN nodes' = DOMAIN nodes
    BY <1>2, <2>1
  <2>4. Same(nodes'[i], nodes[i]) /\ nodes'[i].status = s
    BY <2>1, <2>3 DEF Node, Same
  <2> QED BY <2>2, <2>3, <2>4 DEF Same
<1>3. CASE i \notin DOMAIN nodes
  BY <1>3 DEF Status, At, Same
<1> QED BY <1>2, <1>3

LEMMA NewSays ==
  ASSUME Inv, Fresh(1), NEW node \in Sound, nodes' = Added(nodes, [k \in {made'} |-> node])
  PROVE  /\ made \in Nat /\ made' = made + 1 /\ DOMAIN nodes' = DOMAIN nodes \cup {made'}
         /\ made' \notin DOMAIN nodes /\ nodes'[made'] = node
         /\ \A i \in DOMAIN nodes : nodes'[i] = nodes[i]
<1>1. made \in Nat /\ made' = made + 1 /\ DOMAIN nodes \subseteq 1..made
  BY Made DEF Fresh, Inv, NodesInv, Grouped
<1>2. made' \notin DOMAIN nodes
  BY <1>1
<1> QED BY <1>1, <1>2 DEF Added

LEMMA CalmNew ==
  ASSUME Inv, Fresh(1), NEW node \in Sound, Single(node), slips' = slips,
         nodes' = Added(nodes, [k \in {made'} |-> node])
  PROVE  Calm
<1>1. /\ made \in Nat /\ made' = made + 1 /\ DOMAIN nodes' = DOMAIN nodes \cup {made'}
      /\ nodes'[made'] = node /\ \A i \in DOMAIN nodes : nodes'[i] = nodes[i]
  BY NewSays
<1>2. made' \in Nat /\ made <= made' /\ made' \in (made + 1)..made'
  BY <1>1
<1> QED BY <1>1, <1>2 DEF Calm, Same

LEMMA CalmStatus ==
  ASSUME Inv, KindsInv, NEW i, NEW s, nodes' = Status(i, s), made' = made, slips \subseteq slips',
         i \in DOMAIN nodes => nodes[i].kind # "custom"
  PROVE  Calm
<1>1. /\ DOMAIN nodes' = DOMAIN nodes
      /\ \A k \in DOMAIN nodes : /\ Same(nodes'[k], nodes[k])
                                 /\ nodes'[k].status = IF k = i THEN s ELSE nodes[k].status
  BY StatusSays
<1>2. made \in Nat
  BY Made DEF Inv
<1> QED BY <1>1, <1>2 DEF Calm

LEMMA CalmStill ==
  ASSUME Inv, nodes' = nodes, made' = made, slips' = slips
  PROVE  Calm
BY Made DEF Calm, Same, Inv

LEMMA BlankSays ==
  ASSUME NEW k \in Kinds, NEW s \in {"idle", "loading", "error"}, k = "custom" => s = "idle"
  PROVE  LET n == [Blank(k) EXCEPT !.status = s]
         IN n \in Sound /\ Single(n) /\ n.kind = k /\ n.status = s /\ n.pic = NoPic
<1>1. Blank(k) \in Node /\ Blank(k).file = NoPic
  BY BlankIsSound DEF Sound, Blank
<1> QED BY <1>1 DEF Sound, Node, Single, Blank

LEMMA PictureSays ==
  ASSUME NEW p \in Pics
  PROVE  /\ Picture(p) \in Sound /\ Single(Picture(p)) /\ Picture(p).kind = "image"
         /\ Picture(p).status = "idle"
BY PictureIsSound DEF Picture, Blank, Single

(* Who an answer comes for is no custom node. *)
LEMMA TargetSays ==
  ASSUME KindsInv, NEW i \in Targets
  PROVE  i \in 0..made /\ (i \in DOMAIN nodes => nodes[i].kind # "custom")
BY DEF KindsInv

LEMMA JobTargets ==
  ASSUME NEW j \in jobs
  PROVE  j.source \in Targets /\ j.root \in Targets /\ j.left \subseteq Targets
BY DEF Targets

LEMMA CreateCalm ==
  ASSUME Inv, NEW a, NEW kind \in Kinds, NEW h, Create(kind) \/ CreateConnected(a, kind, h)
  PROVE  Calm
<1>1. Blank(kind) \in Sound /\ Single(Blank(kind))
  BY BlankIsSound DEF Blank, Single
<1> QED BY <1>1, CalmNew DEF Create, CreateConnected

LEMMA AngleCalm ==
  ASSUME Inv, NEW i, Angle(i)
  PROVE  Calm
<1>1. [Blank("image") EXCEPT !.status = "loading"] \in Sound
      /\ Single([Blank("image") EXCEPT !.status = "loading"])
  BY BlankSays DEF Kinds
<1> QED BY <1>1, CalmNew DEF Angle

LEMMA CroppedCalm ==
  ASSUME Inv, NEW i, NEW p \in Pics, Cropped(i, p)
  PROVE  Calm
BY PictureSays, CalmNew DEF Cropped

LEMMA GenerateCalm ==
  ASSUME Inv, KindsInv, NEW s \in DOMAIN nodes, Generate(s)
  PROVE  Calm
<1>1. CASE nodes[s].kind = "config"
  BY <1>1, CalmStatus DEF Generate
<1>2. CASE nodes[s].kind # "config"
  BY <1>2, CalmStill DEF Generate
<1> QED BY <1>1, <1>2

LEMMA RetryCalm ==
  ASSUME Inv, KindsInv, NEW i \in DOMAIN nodes, Retry(i)
  PROVE  Calm
<1>1. nodes[i].kind # "custom"
  BY DEF Retry, KindsInv, Plain
<1> QED BY <1>1, CalmStatus DEF Retry

LEMMA FailsCalm ==
  ASSUME Inv, KindsInv, NEW i \in Targets, nodes' = Status(i, "error"), made' = made, slips' = slips
  PROVE  Calm
BY TargetSays, CalmStatus

LEMMA EndJobSays ==
  ASSUME Inv, KindsInv, NEW j \in jobs, EndJob(j)
  PROVE  /\ Calm /\ DOMAIN nodes' = DOMAIN nodes
         /\ \A i \in DOMAIN nodes :
              nodes'[i].status = IF i = j.source /\ j.of \in {"config", "empty"}
                                 THEN IF j.won THEN "idle" ELSE "error"
                                 ELSE IF i = j.root /\ ~j.won THEN "error" ELSE nodes[i].status
<1>1. nodes' = Ended(j) /\ made' = made /\ slips' = slips
  BY DEF EndJob
<1>2. DOMAIN nodes' = DOMAIN nodes
  BY <1>1 DEF Ended
<1>3. ASSUME NEW i \in DOMAIN nodes
      PROVE  /\ Same(nodes'[i], nodes[i])
             /\ nodes'[i].status = IF i = j.source /\ j.of \in {"config", "empty"}
                                   THEN IF j.won THEN "idle" ELSE "error"
                                   ELSE IF i = j.root /\ ~j.won THEN "error" ELSE nodes[i].status
             /\ nodes[i].kind = "custom" => nodes'[i].status = nodes[i].status
  <2>1. nodes[i] \in Node
    BY SourceOf
  <2>2. nodes[i].kind = "custom" => i # j.source /\ i # j.root
    BY JobTargets, TargetSays
  <2>3. nodes'[i] = IF i = j.source /\ j.of \in {"config", "empty"}
                    THEN [nodes[i] EXCEPT !.status = IF j.won THEN "idle" ELSE "error"]
                    ELSE IF i = j.root /\ ~j.won THEN [nodes[i] EXCEPT !.status = "error"]
                    ELSE nodes[i]
    BY <1>1 DEF Ended
  <2>4. CASE i = j.source /\ j.of \in {"config", "empty"}
    BY <2>1, <2>2, <2>3, <2>4 DEF Node, Same
  <2>5. CASE ~(i = j.source /\ j.of \in {"config", "empty"}) /\ i = j.root /\ ~j.won
    BY <2>1, <2>2, <2>3, <2>5 DEF Node, Same
  <2>6. CASE ~(i = j.source /\ j.of \in {"config", "empty"}) /\ ~(i = j.root /\ ~j.won)
    BY <2>3, <2>6 DEF Same
  <2> QED BY <2>4, <2>5, <2>6
<1>4. made \in Nat
  BY Made DEF Inv
<1> QED BY <1>1, <1>2, <1>3, <1>4 DEF Calm

-----------------------------------------------------------------------------
(* How the nodes change when groups do                                     *)

(* Results leave groups, are new, or join the group of a custom node, S     *)
(* those that do; a root may choose its main image again.                  *)
Arranged(S) ==
  /\ \A i \in DOMAIN nodes' :
       \/ /\ i \in DOMAIN nodes /\ nodes'[i].kind = nodes[i].kind
          /\ nodes'[i].kids \subseteq nodes[i].kids
          /\ nodes'[i].main = nodes[i].main /\ nodes'[i].pic = nodes[i].pic
       \/ /\ i \in DOMAIN nodes /\ nodes'[i].kind = nodes[i].kind /\ nodes[i].kind # "custom"
          /\ nodes[i].kids # {} /\ nodes'[i].kids \subseteq nodes[i].kids
          /\ \A m \in nodes'[i].kids \cap DOMAIN nodes' :
               nodes'[i].main = m /\ m \in DOMAIN nodes /\ nodes[m].pic # NoPic
                 => nodes'[i].pic = nodes[m].pic
       \/ /\ nodes'[i].kids = {} /\ nodes'[i].main = None
          /\ \A r \in DOMAIN nodes : i \notin nodes[r].kids
       \/ /\ nodes'[i].kind = "custom" /\ nodes'[i].main = None
          /\ \/ i \in DOMAIN nodes /\ nodes[i].kind = "custom" /\ nodes'[i].kids \subseteq nodes[i].kids \cup S
             \/ i \in (made + 1)..made' /\ nodes'[i].kids \subseteq S
  /\ \A k \in S \cap DOMAIN nodes' : nodes'[k].kids = {} /\ nodes'[k].kind # "custom"

(* What was a result of a group, and is there still, is as it was. *)
LEMMA KidKept ==
  ASSUME Inv, Flat(nodes), NEW S, Arranged(S), NEW q \in DOMAIN nodes,
         NEW k \in nodes[q].kids \cap DOMAIN nodes'
  PROVE  /\ k \in DOMAIN nodes /\ nodes[k].kind # "custom" /\ nodes'[k].kind # "custom"
         /\ nodes'[k].kids = {} /\ nodes'[k].pic = nodes[k].pic
<1>1. k \in 1..made /\ made \in Nat
  BY Made DEF Inv, NodesInv, Grouped
<1>2. k \notin (made + 1)..made'
  BY <1>1
<1>3. k \in DOMAIN nodes => nodes[k].kids = {} /\ nodes[k].kind # "custom"
  BY DEF Flat
<1>4. \/ /\ k \in DOMAIN nodes /\ nodes'[k].kind = nodes[k].kind
         /\ nodes'[k].kids \subseteq nodes[k].kids /\ nodes'[k].pic = nodes[k].pic
      \/ k \in DOMAIN nodes /\ nodes[k].kids # {}
      \/ k \in DOMAIN nodes /\ nodes[k].kind = "custom"
  BY <1>2 DEF Arranged
<1> QED BY <1>3, <1>4

LEMMA ArrangedFlat ==
  ASSUME Inv, Flat(nodes), NEW S, Arranged(S)
  PROVE  Flat(nodes')
<1> SUFFICES ASSUME NEW q \in DOMAIN nodes', NEW k \in nodes'[q].kids \cap DOMAIN nodes'
             PROVE  nodes'[k].kids = {} /\ nodes'[k].kind # "custom"
  BY DEF Flat
<1>1. CASE k \in S
  BY <1>1 DEF Arranged
<1>2. CASE k \notin S
  <2>1. q \in DOMAIN nodes /\ k \in nodes[q].kids
    BY <1>2 DEF Arranged
  <2> QED BY <2>1, KidKept
<1> QED BY <1>1, <1>2

LEMMA ArrangedShown ==
  ASSUME Inv, Inv', KindsInv, Flat(nodes), Shown(nodes), NEW S, Arranged(S)
  PROVE  Shown(nodes')
<1> SUFFICES ASSUME NEW r \in DOMAIN nodes', NEW m \in nodes'[r].kids \cap DOMAIN nodes',
                    nodes'[r].main = m, nodes'[m].pic # NoPic
             PROVE  nodes'[r].pic = nodes'[m].pic
  BY DEF Shown, MainOf
<1>1. m # None
  <2>1. DOMAIN nodes' \subseteq Ids
    BY DEF Inv, NodesInv, Canvas
  <2> QED BY <2>1, IdsAreNaturals
<1>2. /\ r \in DOMAIN nodes /\ nodes'[r].kids \subseteq nodes[r].kids
      /\ \/ nodes'[r].kind = nodes[r].kind /\ nodes'[r].main = nodes[r].main /\ nodes'[r].pic = nodes[r].pic
         \/ \A n \in nodes'[r].kids \cap DOMAIN nodes' :
              nodes'[r].main = n /\ n \in DOMAIN nodes /\ nodes[n].pic # NoPic
                => nodes'[r].pic = nodes[n].pic
  BY <1>1 DEF Arranged
<1>3. m \in nodes[r].kids /\ m \in DOMAIN nodes /\ nodes'[m].pic = nodes[m].pic
  BY <1>2, KidKept
<1>4. CASE nodes'[r].main = nodes[r].main /\ nodes'[r].pic = nodes[r].pic
  BY <1>2, <1>3, <1>4 DEF Shown, MainOf
<1>5. CASE \A n \in nodes'[r].kids \cap DOMAIN nodes' :
             nodes'[r].main = n /\ n \in DOMAIN nodes /\ nodes[n].pic # NoPic
               => nodes'[r].pic = nodes[n].pic
  BY <1>3, <1>5
<1> QED BY <1>2, <1>4, <1>5

LEMMA CalmArranged ==
  ASSUME Inv, Calm
  PROVE  Arranged({})
<1>1. ASSUME NEW i \in (made + 1)..made'
      PROVE  \A r \in DOMAIN nodes : i \notin nodes[r].kids
  BY Made DEF Inv, NodesInv, Grouped
<1>2. ASSUME NEW i \in DOMAIN nodes'
      PROVE  \/ /\ i \in DOMAIN nodes /\ nodes'[i].kind = nodes[i].kind
                /\ nodes'[i].kids \subseteq nodes[i].kids
                /\ nodes'[i].main = nodes[i].main /\ nodes'[i].pic = nodes[i].pic
             \/ /\ nodes'[i].kids = {} /\ nodes'[i].main = None
                /\ \A r \in DOMAIN nodes : i \notin nodes[r].kids
  <2>1. CASE i \in DOMAIN nodes /\ Same(nodes'[i], nodes[i])
    BY <2>1 DEF Same
  <2>2. CASE i \in (made + 1)..made' /\ Single(nodes'[i])
    BY <1>1, <2>2 DEF Single
  <2> QED BY <2>1, <2>2 DEF Calm
<1> QED BY <1>2 DEF Arranged

(* The main image chosen when some are deleted. *)
LEMMA BereftSays ==
  ASSUME NEW f, Canvas(f), NEW i \in DOMAIN f, NEW gone, NEW n, n = Bereft(f, i, gone)
  PROVE  /\ n.kind = f[i].kind /\ n.status = f[i].status /\ n.open = f[i].open
         /\ n.kids = f[i].kids \ gone
         /\ \A m \in DOMAIN f \ gone : n.main = m /\ f[m].pic # NoPic => n.pic = f[m].pic
<1> DEFINE rest == f[i].kids \ gone
           main == IF f[i].main \in rest THEN f[i].main ELSE IF rest = {} THEN None ELSE First(rest)
           it == IF main \in DOMAIN f \ gone THEN f[main] ELSE f[i]
           pic == IF it.pic # NoPic THEN it.pic ELSE f[i].pic
<1>1. f[i] \in Node
  BY DEF Canvas, Sound
<1>2. n = [f[i] EXCEPT !.kids = rest, !.main = main, !.pic = pic, !.file = it.file]
  BY <1>1 DEF Bereft, Node
<1>3. \A m \in DOMAIN f \ gone : main = m /\ f[m].pic # NoPic => pic = f[m].pic
  <2> HIDE DEF main
  <2> QED OBVIOUS
<1> HIDE DEF main, it, pic
<1>4. /\ n.kind = f[i].kind /\ n.status = f[i].status /\ n.open = f[i].open
      /\ n.kids = rest /\ n.main = main /\ n.pic = pic
  BY <1>1, <1>2 DEF Node
<1> QED BY <1>3, <1>4

(* What is deleted with the nodes S. *)
All(S) == S \cup Kids(S)

(* The nodes S are deleted: what every node is then. *)
Reduced(S) ==
  /\ DOMAIN nodes' = DOMAIN nodes \ All(S) /\ made' = made /\ UNCHANGED chainVars
  /\ slips' = slips \cup Picked(nodes') \cup Plucked(All(S) \cap DOMAIN nodes)
  /\ \A i \in DOMAIN nodes' :
       /\ nodes'[i].kind = nodes[i].kind /\ nodes'[i].status = nodes[i].status
       /\ nodes'[i].open = nodes[i].open /\ nodes'[i].kids = nodes[i].kids \ All(S)
       /\ \/ nodes'[i].main = nodes[i].main /\ nodes'[i].pic = nodes[i].pic
          \/ /\ nodes[i].kind # "custom" /\ nodes[i].kids # {}
             /\ \A m \in DOMAIN nodes \ All(S) :
                  nodes'[i].main = m /\ nodes[m].pic # NoPic => nodes'[i].pic = nodes[m].pic

LEMMA DeleteSays ==
  ASSUME Inv, NEW S \in SUBSET DOMAIN nodes, DeleteNodes(S)
  PROVE  Reduced(S)
<1>1. /\ DOMAIN nodes' = DOMAIN nodes \ All(S)
      /\ made' = made /\ UNCHANGED chainVars
      /\ slips' = slips \cup Picked(nodes') \cup Plucked(All(S) \cap DOMAIN nodes)
      /\ \A i \in DOMAIN nodes' :
           nodes'[i] = IF ~nodes[i].rooted \/ nodes[i].kids \cap All(S) = {} THEN nodes[i]
                       ELSE IF nodes[i].kind = "custom"
                            THEN [nodes[i] EXCEPT !.kids = nodes[i].kids \ All(S)]
                       ELSE Bereft(nodes, i, All(S))
  BY DEF DeleteNodes, All
<1>2. ASSUME NEW i \in DOMAIN nodes'
      PROVE  /\ nodes'[i].kind = nodes[i].kind /\ nodes'[i].status = nodes[i].status
             /\ nodes'[i].open = nodes[i].open /\ nodes'[i].kids = nodes[i].kids \ All(S)
             /\ \/ nodes'[i].main = nodes[i].main /\ nodes'[i].pic = nodes[i].pic
                \/ /\ nodes[i].kind # "custom" /\ nodes[i].kids # {}
                   /\ \A m \in DOMAIN nodes \ All(S) :
                        nodes'[i].main = m /\ nodes[m].pic # NoPic => nodes'[i].pic = nodes[m].pic
  <2>1. i \in DOMAIN nodes /\ Canvas(nodes)
    BY <1>1 DEF Inv, NodesInv
  <2>2. nodes[i] \in Node /\ (nodes[i].rooted \/ nodes[i].kids = {})
    BY <2>1, SourceOf DEF Inv, NodesInv, Grouped
  <2>3. CASE nodes[i].kids \cap All(S) = {}
    BY <1>1, <2>2, <2>3
  <2>4. CASE nodes[i].kids \cap All(S) # {} /\ nodes[i].kind = "custom"
    <3>1. nodes'[i] = [nodes[i] EXCEPT !.kids = nodes[i].kids \ All(S)]
      BY <1>1, <2>2, <2>4
    <3> QED BY <2>2, <3>1 DEF Node
  <2>5. CASE nodes[i].kids \cap All(S) # {} /\ nodes[i].kind # "custom"
    <3>1. nodes'[i] = Bereft(nodes, i, All(S))
      BY <1>1, <2>2, <2>5
    <3>2. /\ nodes'[i].kind = nodes[i].kind /\ nodes'[i].status = nodes[i].status
          /\ nodes'[i].open = nodes[i].open /\ nodes'[i].kids = nodes[i].kids \ All(S)
          /\ \A m \in DOMAIN nodes \ All(S) :
               nodes'[i].main = m /\ nodes[m].pic # NoPic => nodes'[i].pic = nodes[m].pic
      BY <2>1, <3>1, BereftSays
    <3> QED BY <2>5, <3>2
  <2> QED BY <2>3, <2>4, <2>5
<1> QED BY <1>1, <1>2 DEF Reduced

LEMMA DeleteArranged ==
  ASSUME Inv, NEW S \in SUBSET DOMAIN nodes, DeleteNodes(S)
  PROVE  Arranged({})
<1>1. Reduced(S)
  BY DeleteSays
<1>2. ASSUME NEW i \in DOMAIN nodes'
      PROVE  \/ /\ nodes'[i].main = nodes[i].main /\ nodes'[i].pic = nodes[i].pic
             \/ /\ nodes[i].kind # "custom" /\ nodes[i].kids # {}
                /\ \A m \in nodes'[i].kids \cap DOMAIN nodes' :
                     nodes'[i].main = m /\ m \in DOMAIN nodes /\ nodes[m].pic # NoPic
                       => nodes'[i].pic = nodes[m].pic
  BY <1>1 DEF Reduced
<1>3. \A i \in DOMAIN nodes' : /\ i \in DOMAIN nodes /\ nodes'[i].kind = nodes[i].kind
                              /\ nodes'[i].kids \subseteq nodes[i].kids
  BY <1>1 DEF Reduced
<1> QED BY <1>2, <1>3 DEF Arranged

LEMMA AgentDeleteArranged ==
  ASSUME NEW S, AgentDelete(S)
  PROVE  Arranged({})
BY DEF AgentDelete, Arranged

(* What the nodes g are, if the images S of f join target. *)
Joined(g, f, S, target) ==
  /\ DOMAIN g = DOMAIN f
  /\ \A i \in DOMAIN f :
       /\ g[i].kind = f[i].kind /\ g[i].status = f[i].status
       /\ i \notin S /\ i = target => ~g[i].open
       /\ i \in S \/ i # target => g[i].open = f[i].open
       /\ g[i].kids = IF i \in S THEN f[i].kids
                      ELSE IF i = target THEN f[i].kids \cup S ELSE f[i].kids \ S
       /\ \/ g[i].main = f[i].main /\ g[i].pic = f[i].pic
          \/ /\ f[i].kind # "custom" /\ i \notin S /\ i # target /\ f[i].kids \cap S # {}
             /\ \A m \in DOMAIN f : g[i].main = m => g[i].pic = f[m].pic

LEMMA MovedSays ==
  ASSUME NEW f, Canvas(f), NEW S \in SUBSET Ids, NEW target \in Ids \cup {None}
  PROVE  Joined(Moved(f, S, target), f, S, target)
<1> DEFINE n(i) == Moved(f, S, target)[i]
<1>1. DOMAIN Moved(f, S, target) = DOMAIN f
  BY DEF Moved
<1>2. ASSUME NEW i \in DOMAIN f
      PROVE  /\ n(i).kind = f[i].kind /\ n(i).status = f[i].status
             /\ i \notin S /\ i = target => ~n(i).open
             /\ i \in S \/ i # target => n(i).open = f[i].open
             /\ n(i).kids = IF i \in S THEN f[i].kids
                            ELSE IF i = target THEN f[i].kids \cup S ELSE f[i].kids \ S
             /\ \/ n(i).main = f[i].main /\ n(i).pic = f[i].pic
                \/ /\ f[i].kind # "custom" /\ i \notin S /\ i # target /\ f[i].kids \cap S # {}
                   /\ \A m \in DOMAIN f : n(i).main = m => n(i).pic = f[m].pic
  <2>1. f[i] \in Node
    BY DEF Canvas, Sound
  <2>2. CASE i \in S
    <3>1. n(i) = [f[i] EXCEPT !.root = target]
      BY <2>2 DEF Moved
    <3> QED BY <2>1, <2>2, <3>1 DEF Node
  <2>3. CASE i \notin S /\ i = target
    <3>1. n(i) = [f[i] EXCEPT !.rooted = TRUE, !.open = FALSE, !.kids = f[i].kids \cup S]
      BY <2>1, <2>3 DEF Moved, Node
    <3> QED BY <2>1, <2>3, <3>1 DEF Node
  <2>4. CASE i \notin S /\ i # target /\ f[i].kids \cap S = {}
    <3>1. n(i) = f[i] /\ f[i].kids \ S = f[i].kids
      BY <2>4 DEF Moved
    <3> QED BY <2>4, <3>1
  <2>5. CASE i \notin S /\ i # target /\ f[i].kids \cap S # {} /\ f[i].kind = "custom"
    <3>1. n(i) = [f[i] EXCEPT !.kids = f[i].kids \ S]
      BY <2>1, <2>5 DEF Moved, Node
    <3> QED BY <2>1, <2>5, <3>1 DEF Node
  <2>6. CASE i \notin S /\ i # target /\ f[i].kids \cap S # {} /\ f[i].kind # "custom"
    <3> DEFINE rest == f[i].kids \ S
               first == IF f[i].main \in rest THEN f[i].main
                        ELSE IF rest = {} THEN None ELSE First(rest)
               main == IF first \in DOMAIN f THEN first ELSE None
               it == IF main = None THEN Blank("image") ELSE f[main]
    <3>1. \A m \in DOMAIN f : main = m => it = f[m]
      <4>1. \A m \in DOMAIN f : m # None
        BY IdsAreNaturals DEF Canvas
      <4> HIDE DEF main
      <4> QED BY <4>1
    <3>2. n(i) = [f[i] EXCEPT !.rooted = (rest # {}), !.kids = rest, !.main = main,
                              !.pic = it.pic, !.file = it.file]
      BY <2>1, <2>6 DEF Moved, Node
    <3> HIDE DEF rest, main, it
    <3>3. /\ n(i).kind = f[i].kind /\ n(i).status = f[i].status /\ n(i).open = f[i].open
          /\ n(i).main = main /\ n(i).pic = it.pic /\ n(i).kids = f[i].kids \ S
      BY <2>1, <3>2 DEF Node, rest
    <3> QED BY <2>6, <3>1, <3>3
  <2> QED BY <2>2, <2>3, <2>4, <2>5, <2>6
<1> QED BY <1>1, <1>2 DEF Joined

(* Images that join the group of a custom node, or are of none any more.    *)
(* The images S move to target, or out of all groups: what every node is    *)
(* then.                                                                   *)
Rearranged(S, target) ==
  /\ DOMAIN nodes' = DOMAIN nodes
  /\ \A i \in DOMAIN nodes :
       /\ nodes'[i].kind = nodes[i].kind /\ nodes'[i].status = nodes[i].status
       /\ nodes[i].kind # "custom" => nodes'[i].open = nodes[i].open
       /\ nodes[i].kind = "custom" => ~nodes'[i].open
       /\ nodes'[i].kids = IF i \in S THEN nodes[i].kids
                           ELSE IF i = target THEN nodes[i].kids \cup S ELSE nodes[i].kids \ S
       /\ \/ nodes'[i].main = nodes[i].main /\ nodes'[i].pic = nodes[i].pic
          \/ /\ nodes[i].kind # "custom" /\ nodes[i].kids \cap S # {} /\ i # target
             /\ \A m \in DOMAIN nodes : nodes'[i].main = m => nodes'[i].pic = nodes[m].pic

LEMMA MovesSay ==
  ASSUME Inv, KindsInv, NEW S \in SUBSET DOMAIN nodes, NEW target \in (DOMAIN nodes \ S) \cup {None},
         target # None => nodes[target].kind = "custom", nodes' = Moved(nodes, S, target)
  PROVE  Rearranged(S, target)
<1>1. Canvas(nodes) /\ S \in SUBSET Ids /\ target \in Ids \cup {None}
  BY DEF Inv, NodesInv, Canvas
<1>2. Joined(nodes', nodes, S, target)
  BY <1>1, MovedSays
<1>4. \A i \in DOMAIN nodes : i # None
  BY <1>1, IdsAreNaturals DEF Canvas
<1>5. \A i \in DOMAIN nodes : nodes[i].kind = "custom" => ~nodes[i].open
  BY DEF KindsInv, Plain
<1> QED BY <1>2, <1>4, <1>5 DEF Joined, Rearranged

LEMMA MovesArranged ==
  ASSUME Inv, KindsInv, NEW S \in SUBSET DOMAIN nodes, NEW target \in (DOMAIN nodes \ S) \cup {None},
         target # None => nodes[target].kind = "custom", nodes' = Moved(nodes, S, target),
         \A i \in S : nodes[i].kids = {} /\ nodes[i].kind # "custom"
  PROVE  Arranged(S)
<1>1. /\ DOMAIN nodes' = DOMAIN nodes
      /\ \A i \in DOMAIN nodes :
           /\ nodes'[i].kind = nodes[i].kind /\ nodes'[i].status = nodes[i].status
           /\ nodes[i].kind # "custom" => nodes'[i].open = nodes[i].open
           /\ nodes[i].kind = "custom" => ~nodes'[i].open
           /\ nodes'[i].kids = IF i \in S THEN nodes[i].kids
                               ELSE IF i = target THEN nodes[i].kids \cup S ELSE nodes[i].kids \ S
           /\ \/ nodes'[i].main = nodes[i].main /\ nodes'[i].pic = nodes[i].pic
              \/ /\ nodes[i].kind # "custom" /\ nodes[i].kids \cap S # {} /\ i # target
                 /\ \A m \in DOMAIN nodes : nodes'[i].main = m => nodes'[i].pic = nodes[m].pic
  <2>1. Rearranged(S, target)
    BY MovesSay
  <2> QED BY <2>1 DEF Rearranged
<1>2. \A i \in DOMAIN nodes : nodes[i].kind = "custom" => nodes[i].main = None
  BY DEF KindsInv, Plain
<1>3. ASSUME NEW i \in DOMAIN nodes, i # target
      PROVE  \/ /\ i \in DOMAIN nodes /\ nodes'[i].kind = nodes[i].kind
                /\ nodes'[i].kids \subseteq nodes[i].kids
                /\ nodes'[i].main = nodes[i].main /\ nodes'[i].pic = nodes[i].pic
             \/ /\ i \in DOMAIN nodes /\ nodes'[i].kind = nodes[i].kind /\ nodes[i].kind # "custom"
                /\ nodes[i].kids # {} /\ nodes'[i].kids \subseteq nodes[i].kids
                /\ \A m \in nodes'[i].kids \cap DOMAIN nodes' :
                     nodes'[i].main = m /\ m \in DOMAIN nodes /\ nodes[m].pic # NoPic
                       => nodes'[i].pic = nodes[m].pic
  <2>1. /\ i \in DOMAIN nodes' /\ nodes'[i].kind = nodes[i].kind
        /\ nodes'[i].kids \in {nodes[i].kids, nodes[i].kids \ S}
        /\ \/ nodes'[i].main = nodes[i].main /\ nodes'[i].pic = nodes[i].pic
           \/ /\ nodes[i].kind # "custom" /\ nodes[i].kids \cap S # {}
              /\ \A m \in DOMAIN nodes : nodes'[i].main = m => nodes'[i].pic = nodes[m].pic
    BY <1>1, <1>3
  <2> QED BY <2>1
<1>4. ASSUME NEW i \in DOMAIN nodes, i = target
      PROVE  /\ nodes'[i].kind = "custom" /\ nodes'[i].main = None
             /\ nodes[i].kind = "custom" /\ nodes'[i].kids \subseteq nodes[i].kids \cup S
  <2>1. i # None
    BY IdsAreNaturals DEF Inv, NodesInv, Canvas
  <2>2. nodes[i].kind = "custom" /\ nodes'[i].main = nodes[i].main
    BY <1>1, <1>4, <2>1
  <2> QED BY <1>1, <1>2, <1>4, <2>2
<1>5. \A k \in S \cap DOMAIN nodes' : nodes'[k].kids = {} /\ nodes'[k].kind # "custom"
  BY <1>1
<1> QED BY <1>1, <1>3, <1>4, <1>5 DEF Arranged

LEMMA ToggleSays ==
  ASSUME Inv, NEW r \in DOMAIN nodes, ToggleBatch(r)
  PROVE  /\ DOMAIN nodes' = DOMAIN nodes /\ made' = made /\ slips' = slips /\ UNCHANGED chainVars
         /\ \A i \in DOMAIN nodes :
              /\ nodes'[i].kind = nodes[i].kind /\ nodes'[i].status = nodes[i].status
              /\ nodes'[i].kids = nodes[i].kids /\ nodes'[i].root = nodes[i].root
              /\ nodes'[i].main = nodes[i].main /\ nodes'[i].pic = nodes[i].pic
              /\ i # r => nodes'[i].open = nodes[i].open
         /\ nodes'[r].open = ~nodes[r].open
<1>1. nodes' = [nodes EXCEPT ![r].open = ~nodes[r].open] /\ nodes[r] \in Node
  BY SourceOf DEF ToggleBatch
<1>2. nodes'[r] = [nodes[r] EXCEPT !.open = ~nodes[r].open]
      /\ \A i \in DOMAIN nodes : i # r => nodes'[i] = nodes[i]
  BY <1>1
<1>3. /\ nodes'[r].kind = nodes[r].kind /\ nodes'[r].status = nodes[r].status
      /\ nodes'[r].kids = nodes[r].kids /\ nodes'[r].root = nodes[r].root
      /\ nodes'[r].main = nodes[r].main /\ nodes'[r].pic = nodes[r].pic
      /\ nodes'[r].open = ~nodes[r].open
  BY <1>1, <1>2 DEF Node
<1>4. DOMAIN nodes' = DOMAIN nodes /\ made' = made /\ slips' = slips /\ UNCHANGED chainVars
  BY DEF ToggleBatch
<1> QED BY <1>2, <1>3, <1>4

LEMMA ToggleArranged ==
  ASSUME Inv, NEW r \in DOMAIN nodes, ToggleBatch(r)
  PROVE  Arranged({})
BY ToggleSays DEF Arranged

(* An image of a group is chosen by hand. *)
LEMMA PrimarySays ==
  ASSUME Inv, NEW i \in DOMAIN nodes, SetBatchPrimary(i), NEW r, r = nodes[i].root
  PROVE  /\ DOMAIN nodes' = DOMAIN nodes /\ made' = made /\ UNCHANGED chainVars
         /\ slips' = slips \cup Picked(nodes')
         /\ r \in DOMAIN nodes /\ nodes[r].open
         /\ \A k \in DOMAIN nodes : k # r => nodes'[k] = nodes[k]
         /\ nodes'[r].kind = nodes[r].kind /\ nodes'[r].status = nodes[r].status
         /\ nodes'[r].kids = nodes[r].kids /\ nodes'[r].open = nodes[r].open
         /\ nodes'[r].main = i /\ nodes'[r].pic = nodes[i].pic
<1>1. /\ r \in DOMAIN nodes /\ nodes[r].open /\ nodes[r] \in Node
      /\ nodes' = [nodes EXCEPT ![r] = [nodes[r] EXCEPT !.pic = nodes[i].pic, !.file = nodes[i].file,
                                                        !.main = i]]
      /\ made' = made /\ UNCHANGED chainVars /\ slips' = slips \cup Picked(nodes')
  BY SourceOf DEF SetBatchPrimary, Showing, Hidden
<1>2. /\ nodes'[r] = [nodes[r] EXCEPT !.pic = nodes[i].pic, !.file = nodes[i].file, !.main = i]
      /\ DOMAIN nodes' = DOMAIN nodes
      /\ \A k \in DOMAIN nodes : k # r => nodes'[k] = nodes[k]
  BY <1>1
<1>3. /\ nodes'[r].kind = nodes[r].kind /\ nodes'[r].status = nodes[r].status
      /\ nodes'[r].kids = nodes[r].kids /\ nodes'[r].open = nodes[r].open
      /\ nodes'[r].main = i /\ nodes'[r].pic = nodes[i].pic
  BY <1>1, <1>2 DEF Node
<1> QED BY <1>1, <1>2, <1>3

LEMMA PrimaryArranged ==
  ASSUME Inv, KindsInv, Agree(nodes), NEW i \in DOMAIN nodes, SetBatchPrimary(i)
  PROVE  Arranged({})
<1>1. PICK r : r = nodes[i].root
  OBVIOUS
<1>2. /\ DOMAIN nodes' = DOMAIN nodes
      /\ r \in DOMAIN nodes /\ nodes[r].open
      /\ \A k \in DOMAIN nodes : k # r => nodes'[k] = nodes[k]
      /\ nodes'[r].kind = nodes[r].kind
      /\ nodes'[r].kids = nodes[r].kids /\ nodes'[r].main = i /\ nodes'[r].pic = nodes[i].pic
  BY <1>1, PrimarySays
<1>3. i \in nodes[r].kids /\ nodes[r].kind # "custom"
  BY <1>1, <1>2 DEF Agree, KindsInv, Plain
<1>4. \A m \in nodes'[r].kids \cap DOMAIN nodes' :
        nodes'[r].main = m /\ m \in DOMAIN nodes /\ nodes[m].pic # NoPic => nodes'[r].pic = nodes[m].pic
  BY <1>2
<1> QED BY <1>2, <1>3, <1>4 DEF Arranged

(* An image that forgets its group is alone. *)
LEMMA ForgetArranged ==
  ASSUME Inv, NEW i \in DOMAIN nodes, NEW node, node.kids = {}, node.main = None,
         nodes' = [nodes EXCEPT ![i] = node],
         \A r \in DOMAIN nodes : i \notin nodes[r].kids
  PROVE  Arranged({})
<1>1. DOMAIN nodes' = DOMAIN nodes /\ nodes'[i] = node
      /\ \A k \in DOMAIN nodes : k # i => nodes'[k] = nodes[k]
  OBVIOUS
<1> QED BY <1>1 DEF Arranged

(* It had none, or says so. *)
LEMMA NoGroup ==
  ASSUME Inv, Agree(nodes), NEW i \in DOMAIN nodes, "parted" \notin Parted(i)
  PROVE  nodes[i].kids = {} /\ \A r \in DOMAIN nodes : i \notin nodes[r].kids
BY DEF Parted, Agree

LEMMA AddImagesSays ==
  ASSUME Inv, KindsInv, NEW n \in Nat \ {0}, NEW pics \in [1..n -> Pics],
         NEW target \in DOMAIN nodes \cup {None}, target # None => nodes[target].kind = "custom",
         AddImages(pics, target)
  PROVE  /\ made \in Nat /\ made' \in Nat /\ made <= made'
         /\ DOMAIN nodes' = DOMAIN nodes \cup (made + 1)..made'
         /\ \A i \in DOMAIN nodes :
              /\ nodes'[i].kind = nodes[i].kind /\ nodes'[i].status = nodes[i].status
              /\ nodes'[i].main = nodes[i].main /\ nodes'[i].pic = nodes[i].pic
              /\ nodes[i].kind # "custom" => nodes'[i].kids = nodes[i].kids /\ nodes'[i].open = nodes[i].open
              /\ nodes[i].kind = "custom" =>
                   /\ ~nodes'[i].open
                   /\ nodes'[i].kids \subseteq nodes[i].kids \cup (made + 1)..(made + n)
         /\ \A i \in (made + 1)..made' :
              /\ nodes'[i].main = None /\ nodes'[i].status = "idle" /\ ~nodes'[i].open
              /\ \/ nodes'[i].kind = "image" /\ nodes'[i].kids = {}
                 \/ /\ nodes'[i].kind = "custom" /\ i \notin (made + 1)..(made + n)
                    /\ nodes'[i].kids \subseteq (made + 1)..(made + n)
         /\ (made + 1)..(made + n) \subseteq (made + 1)..made'
<1> DEFINE grouped == target = None /\ n > 1
           S == (made + 1)..(made + n)
           new == [i \in S |-> Picture(pics[i - made])]
           group == [i \in (IF grouped THEN {made'} ELSE {}) |-> Blank("custom")]
           g == Added(new, group)
           f == Added(nodes, g)
           to == IF grouped THEN made' ELSE target
           k == IF grouped THEN n + 1 ELSE n
<1>1. Len(pics) = n
  <2>1. pics \in Seq(Pics) /\ DOMAIN pics = 1..n
    OBVIOUS
  <2>2. Len(pics) \in Nat /\ DOMAIN pics = 1..Len(pics)
    BY <2>1
  <2> QED BY <2>1, <2>2
<1>2. Fresh(k) /\ nodes' = Moved(f, S, to)
  BY <1>1 DEF AddImages
<1>3. /\ made \in Nat /\ made' = made + k /\ made' \in Nat /\ made <= made' /\ made' <= IdBound
      /\ Canvas(nodes) /\ DOMAIN nodes \subseteq 1..made
      /\ grouped => made' = made + n + 1
      /\ ~grouped => made' = made + n
  BY <1>2, Made DEF Fresh, Inv, NodesInv, Grouped
<1>4. /\ S \subseteq (made + 1)..made' /\ (made + 1)..made' \subseteq Ids
      /\ \A i \in (made + 1)..made' : i \notin DOMAIN nodes
      /\ \A i \in S : i - made \in 1..n
      /\ (made + 1)..made' = S \cup (IF grouped THEN {made'} ELSE {})
      /\ grouped => made' \notin S /\ made' \in Nat \ {0}
  <2>1. ASSUME NEW i \in S
        PROVE  i \in (made + 1)..made' /\ i - made \in 1..n
    BY <1>3
  <2>2. ASSUME NEW i \in (made + 1)..made'
        PROVE  i \in 1..IdBound /\ i \notin DOMAIN nodes /\ i \in S \cup (IF grouped THEN {made'} ELSE {})
    <3>1. i \in Nat /\ made < i /\ i <= made'
      BY <1>3
    <3>2. i \in 1..IdBound /\ i \notin DOMAIN nodes
      BY <1>3, <3>1, GivenAssumption
    <3>3. (grouped /\ made' = made + n + 1) \/ (~grouped /\ made' = made + n)
      BY <1>3
    <3> HIDE DEF grouped
    <3>4. i \in S \/ (grouped /\ i = made')
      BY <1>3, <3>1, <3>3
    <3> QED BY <3>2, <3>4
  <2>3. grouped => made' \in (made + 1)..made' /\ made' \notin S /\ made' \in Nat \ {0}
    BY <1>3
  <2> HIDE DEF S, grouped
  <2> QED BY <2>1, <2>2, <2>3 DEF Ids
<1> HIDE DEF S
<1>5. /\ Canvas(new) /\ DOMAIN new = S
      /\ \A i \in S : /\ new[i].kids = {} /\ new[i].main = None /\ new[i].status = "idle"
                      /\ new[i].kind = "image" /\ ~new[i].open
  <2>1. \A i \in S : pics[i - made] \in Pics
    BY <1>4
  <2>2. \A i \in S : /\ Picture(pics[i - made]) \in Sound /\ Single(Picture(pics[i - made]))
                     /\ Picture(pics[i - made]).kind = "image" /\ Picture(pics[i - made]).status = "idle"
    BY <2>1, PictureSays
  <2> QED BY <1>4, <2>2 DEF Canvas, Single
<1>6. /\ Canvas(group) /\ DOMAIN group = IF grouped THEN {made'} ELSE {}
      /\ \A i \in DOMAIN group : /\ group[i].kids = {} /\ group[i].main = None
                                 /\ group[i].status = "idle" /\ group[i].kind = "custom" /\ ~group[i].open
  <2>1. Blank("custom") \in Sound /\ Blank("custom").kids = {} /\ Blank("custom").kind = "custom"
        /\ Blank("custom").main = None /\ Blank("custom").status = "idle" /\ ~Blank("custom").open
    BY BlankIsSound DEF Kinds, Blank
  <2>2. grouped => made' \in Ids
    BY <1>4
  <2> QED BY <2>1, <2>2 DEF Canvas
<1> HIDE DEF new, group
<1>7. /\ Canvas(g) /\ DOMAIN g = (made + 1)..made'
      /\ \A i \in S : g[i] = new[i]
      /\ grouped => g[made'] = group[made']
  <2>1. /\ Canvas(Added(new, group)) /\ DOMAIN Added(new, group) = DOMAIN new \cup DOMAIN group
        /\ \A i \in DOMAIN group : Added(new, group)[i] = group[i]
        /\ \A i \in DOMAIN new \ DOMAIN group : Added(new, group)[i] = new[i]
    <3>1. Canvas(new) /\ Canvas(group)
      BY <1>5, <1>6
    <3> QED BY <3>1, AddedNodes
  <2> QED BY <1>4, <1>5, <1>6, <2>1
<1> HIDE DEF g
<1>8. /\ Canvas(f) /\ DOMAIN f = DOMAIN nodes \cup (made + 1)..made'
      /\ \A i \in (made + 1)..made' : f[i] = g[i]
      /\ \A i \in DOMAIN nodes : f[i] = nodes[i]
  <2>1. /\ Canvas(Added(nodes, g)) /\ DOMAIN Added(nodes, g) = DOMAIN nodes \cup DOMAIN g
        /\ \A i \in DOMAIN g : Added(nodes, g)[i] = g[i]
        /\ \A i \in DOMAIN nodes \ DOMAIN g : Added(nodes, g)[i] = nodes[i]
    BY <1>3, <1>7, AddedNodes
  <2> QED BY <1>4, <1>7, <2>1
<1> HIDE DEF f
<1>9. Joined(nodes', f, S, to)
  <2>1. S \in SUBSET Ids /\ to \in Ids \cup {None}
    BY <1>3, <1>4 DEF Canvas
  <2> HIDE DEF to
  <2> QED BY <1>2, <1>8, <2>1, MovedSays
<1>10. \A i \in DOMAIN nodes : nodes[i].kids \cap S = {} /\ i \notin S /\ i # None
  <2>1. ASSUME NEW i \in DOMAIN nodes
        PROVE  nodes[i].kids \subseteq 1..made /\ i # None
    BY IdsAreNaturals DEF Inv, NodesInv, Grouped, Canvas
  <2>2. \A i \in S : i \notin 1..made
    BY <1>3 DEF S
  <2> QED BY <1>4, <2>1, <2>2
<1>11. ASSUME NEW i \in DOMAIN nodes
       PROVE  /\ nodes'[i].kind = nodes[i].kind /\ nodes'[i].status = nodes[i].status
              /\ nodes'[i].main = nodes[i].main /\ nodes'[i].pic = nodes[i].pic
              /\ nodes[i].kind # "custom" => nodes'[i].kids = nodes[i].kids /\ nodes'[i].open = nodes[i].open
              /\ nodes[i].kind = "custom" => ~nodes'[i].open /\ nodes'[i].kids \subseteq nodes[i].kids \cup S
  <2>1. /\ i \in DOMAIN f /\ f[i] = nodes[i] /\ nodes[i].kids \cap S = {} /\ i \notin S /\ i # None
        /\ nodes[i].kids \ S = nodes[i].kids
    BY <1>8, <1>10
  <2>2. i = to => nodes[i].kind = "custom"
    BY <1>4, <2>1
  <2>3. nodes[i].kind = "custom" => ~nodes[i].open
    BY DEF KindsInv, Plain
  <2> HIDE DEF to
  <2>4. /\ nodes'[i].kind = nodes[i].kind /\ nodes'[i].status = nodes[i].status
        /\ i = to => ~nodes'[i].open /\ nodes'[i].kids = nodes[i].kids \cup S
        /\ i # to => nodes'[i].open = nodes[i].open /\ nodes'[i].kids = nodes[i].kids
        /\ nodes'[i].main = nodes[i].main /\ nodes'[i].pic = nodes[i].pic
    BY <1>9, <2>1 DEF Joined
  <2> QED BY <2>2, <2>3, <2>4
<1>12. ASSUME NEW i \in (made + 1)..made'
       PROVE  /\ nodes'[i].main = None /\ nodes'[i].status = "idle" /\ ~nodes'[i].open
              /\ \/ nodes'[i].kind = "image" /\ nodes'[i].kids = {}
                 \/ nodes'[i].kind = "custom" /\ i \notin S /\ nodes'[i].kids \subseteq S
  <2>1. i \in DOMAIN f /\ f[i] = g[i]
    BY <1>8
  <2>2. CASE i \in S
    <3>1. /\ f[i].kids = {} /\ f[i].main = None /\ f[i].status = "idle" /\ f[i].kind = "image"
          /\ ~f[i].open
      BY <1>5, <1>7, <2>1, <2>2
    <3> QED BY <1>9, <2>1, <2>2, <3>1 DEF Joined
  <2>3. CASE i \notin S
    <3>1. i = to /\ f[i].kids = {} /\ f[i].main = None /\ f[i].status = "idle" /\ f[i].kind = "custom"
      BY <1>4, <1>6, <1>7, <2>1, <2>3
    <3> HIDE DEF to
    <3> QED BY <1>9, <2>1, <2>3, <3>1 DEF Joined
  <2> QED BY <2>2, <2>3
<1>13. DOMAIN nodes' = DOMAIN nodes \cup (made + 1)..made'
  BY <1>8, <1>9 DEF Joined
<1> HIDE DEF to, k, grouped
<1> QED BY <1>3, <1>4, <1>11, <1>12, <1>13 DEF S

LEMMA AddImagesArranged ==
  ASSUME Inv, KindsInv, NEW n \in Nat \ {0}, NEW pics \in [1..n -> Pics],
         NEW target \in DOMAIN nodes \cup {None}, target # None => nodes[target].kind = "custom",
         AddImages(pics, target)
  PROVE  Arranged((made + 1)..(made + n))
<1> DEFINE S == (made + 1)..(made + n)
<1>1. /\ made \in Nat /\ made' \in Nat /\ made <= made'
      /\ DOMAIN nodes' = DOMAIN nodes \cup (made + 1)..made'
      /\ \A i \in DOMAIN nodes :
           /\ nodes'[i].kind = nodes[i].kind /\ nodes'[i].status = nodes[i].status
           /\ nodes'[i].main = nodes[i].main /\ nodes'[i].pic = nodes[i].pic
           /\ nodes[i].kind # "custom" => nodes'[i].kids = nodes[i].kids /\ nodes'[i].open = nodes[i].open
           /\ nodes[i].kind = "custom" => ~nodes'[i].open /\ nodes'[i].kids \subseteq nodes[i].kids \cup S
      /\ \A i \in (made + 1)..made' :
           /\ nodes'[i].main = None /\ nodes'[i].status = "idle" /\ ~nodes'[i].open
           /\ \/ nodes'[i].kind = "image" /\ nodes'[i].kids = {}
              \/ nodes'[i].kind = "custom" /\ i \notin S /\ nodes'[i].kids \subseteq S
      /\ S \subseteq (made + 1)..made'
  BY AddImagesSays
<1>2. \A i \in (made + 1)..made', r \in DOMAIN nodes : i \notin nodes[r].kids
  BY <1>1 DEF Inv, NodesInv, Grouped
<1>3. \A i \in DOMAIN nodes : nodes[i].kind = "custom" => nodes[i].main = None
  BY DEF KindsInv, Plain
<1> HIDE DEF S
<1>4. \A k \in S \cap DOMAIN nodes' : nodes'[k].kids = {} /\ nodes'[k].kind # "custom"
  BY <1>1
<1>5. Arranged(S)
  BY <1>1, <1>2, <1>3, <1>4 DEF Arranged
<1> QED BY <1>5 DEF S

-----------------------------------------------------------------------------
(* Copies *)

(* The nodes all are copied. *)
Copying(all) ==
  \E copy, h : Copied(nodes, all, copy, h) /\ nodes' = Added(nodes, h) /\ DOMAIN h \subseteq (made + 1)..made'

LEMMA DuplicateCopies ==
  ASSUME Inv, NEW i \in DOMAIN nodes, DuplicateNode(i)
  PROVE  Copying({i})
<1> DEFINE copy == [s \in {i} |-> made']
           h == [k \in {made'} |-> CopyOf(nodes[i], copy)]
<1>1. nodes' = Added(nodes, h) /\ Fresh(1)
  BY DEF DuplicateNode
<1>2. {made'} \subseteq (made + 1)..made'
  BY <1>1, Made DEF Fresh, Inv
<1>3. copy \in [{i} -> {made'}] /\ h \in [{made'} -> {CopyOf(nodes[i], copy)}]
  OBVIOUS
<1>4. /\ \A a, b \in {i} : copy[a] = copy[b] => a = b
      /\ \A n \in {made'} : \E a \in {i} : copy[a] = n
      /\ \A a \in {i} : h[copy[a]] = CopyOf(nodes[a], copy)
  OBVIOUS
<1>5. Copied(nodes, {i}, copy, h) /\ DOMAIN h = {made'}
  <2>1. {i} \subseteq DOMAIN nodes /\ DOMAIN h = {made'} /\ \E T : h \in [DOMAIN h -> T]
    BY <1>3
  <2> HIDE DEF copy, h
  <2> QED BY <1>3, <1>4, <2>1 DEF Copied
<1> HIDE DEF copy, h
<1> QED BY <1>1, <1>2, <1>5 DEF Copying

LEMMA PasteCopies ==
  ASSUME Inv, NEW S \in SUBSET DOMAIN nodes, Paste(S)
  PROVE  Copying(All(S) \cap DOMAIN nodes)
<1> DEFINE all == (S \cup Kids(S)) \cap DOMAIN nodes
           N == (made + 1)..made'
<1>1. all \subseteq DOMAIN nodes /\ all \subseteq 1..made /\ made \in Nat
  BY Made DEF Inv, NodesInv, Grouped
<1>2. Cardinality(all) \in Nat
  <2>1. IsFiniteSet(1..made)
    BY <1>1, FS_Interval
  <2> HIDE DEF all
  <2> QED BY <1>1, <2>1, FS_Subset, FS_CardinalityType
<1>3. made' \in Nat /\ made <= made'
  <2>1. Fresh(Cardinality(all))
    BY DEF Paste
  <2> HIDE DEF all
  <2> QED BY <1>1, <1>2, <2>1 DEF Fresh
<1>4. PICK m \in Copies(all, N) :
        nodes' = Added(nodes, [k \in N |-> CopyOf(nodes[CHOOSE i \in all : m[i] = k], m)])
  BY DEF Paste
<1> HIDE DEF all
<1> DEFINE h == [k \in N |-> CopyOf(nodes[CHOOSE i \in all : m[i] = k], m)]
           T == {CopyOf(nodes[i], m) : i \in all}
<1>5. /\ m \in [all -> N] /\ \A k \in N : \E i \in all : m[i] = k
      /\ \A i, j \in all : m[i] = m[j] => i = j
  <2>1. /\ m \in [all -> N] /\ \A k \in N : \E i \in all : m[i] = k
        /\ \A i, j \in all : i < j => m[i] < m[j]
    BY <1>4 DEF Copies
  <2>2. ASSUME NEW i \in all, NEW j \in all, m[i] = m[j]
        PROVE  i = j
    <3>1. i \in Nat /\ j \in Nat /\ m[i] \in Nat /\ m[j] \in Nat
      BY <1>1, <1>3, <2>1
    <3>2. ~(i < j) /\ ~(j < i)
      BY <2>1, <2>2, <3>1
    <3> QED BY <3>1, <3>2
  <2> QED BY <2>1, <2>2
<1>6. h \in [N -> T] /\ \A i \in all : h[m[i]] = CopyOf(nodes[i], m)
  <2>1. ASSUME NEW k \in N
        PROVE  (CHOOSE i \in all : m[i] = k) \in all /\ m[CHOOSE i \in all : m[i] = k] = k
    BY <1>5
  <2>2. ASSUME NEW i \in all
        PROVE  m[i] \in N /\ (CHOOSE j \in all : m[j] = m[i]) = i
    <3>1. m[i] \in N
      BY <1>5
    <3>2. (CHOOSE j \in all : m[j] = m[i]) \in all
          /\ m[CHOOSE j \in all : m[j] = m[i]] = m[i]
      BY <2>1, <3>1
    <3> QED BY <1>5, <3>1, <3>2
  <2> HIDE DEF N
  <2>3. \A k \in N : CopyOf(nodes[CHOOSE i \in all : m[i] = k], m) \in T
    BY <2>1
  <2>4. h \in [N -> T]
    BY <2>3
  <2> QED BY <2>2, <2>4
<1>7. nodes' = Added(nodes, h)
  BY <1>4
<1>8. DOMAIN h = N /\ N \subseteq (made + 1)..made'
  OBVIOUS
<1> HIDE DEF N, h, T
<1>9. Copied(nodes, all, m, h)
  <2>1. \E X : h \in [DOMAIN h -> X]
    BY <1>6, <1>8
  <2> QED BY <1>1, <1>5, <1>6, <1>8, <2>1 DEF Copied
<1>10. Copying(all)
  BY <1>7, <1>8, <1>9 DEF Copying
<1> QED BY <1>10 DEF all, All

LEMMA CopySays ==
  ASSUME NEW node \in Node, NEW copy
  PROVE  /\ CopyOf(node, copy).kind = node.kind /\ CopyOf(node, copy).pic = node.pic
         /\ CopyOf(node, copy).status # "loading"
         /\ node.status = "idle" => CopyOf(node, copy).status = "idle"
         /\ CopyOf(node, copy).kids = {copy[i] : i \in node.kids \cap DOMAIN copy}
         /\ CopyOf(node, copy).open <=> node.open /\ CopyOf(node, copy).kids # {}
         /\ CopyOf(node, copy).main = IF node.main \in DOMAIN copy THEN copy[node.main] ELSE None
<1> DEFINE it == CopyOf(node, copy)
           kids == {copy[i] : i \in node.kids \cap DOMAIN copy}
           root == IF node.root \in DOMAIN copy THEN copy[node.root] ELSE None
           main == IF node.main \in DOMAIN copy THEN copy[node.main] ELSE None
           status == IF node.status = "loading" THEN "idle" ELSE node.status
           rooted == node.rooted /\ kids # {}
           open == node.open /\ kids # {}
<1>1. it = [node EXCEPT !.rooted = rooted, !.kids = kids, !.open = open, !.root = root,
                        !.main = main, !.status = status]
  BY DEF CopyOf, Node
<1>2. status # "loading" /\ (node.status = "idle" => status = "idle")
  OBVIOUS
<1>3. open <=> node.open /\ kids # {}
  OBVIOUS
<1> HIDE DEF it, kids, root, main, status, rooted, open
<1>4. /\ it.kind = node.kind /\ it.pic = node.pic /\ it.status = status /\ it.kids = kids
      /\ it.open = open /\ it.main = main
  BY <1>1 DEF Node
<1>5. /\ it.status # "loading" /\ (node.status = "idle" => it.status = "idle")
      /\ it.open <=> node.open /\ it.kids # {}
  BY <1>2, <1>3, <1>4
<1> QED BY <1>4, <1>5 DEF it, kids, main

(* Where the copies are, and what they copy. *)
CopiedAs(all, copy) ==
  /\ copy \in [all -> (made + 1)..made'] /\ \A i, k \in all : copy[i] = copy[k] => i = k
  /\ DOMAIN nodes' = DOMAIN nodes \cup {copy[i] : i \in all}
  /\ \A i \in DOMAIN nodes : nodes'[i] = nodes[i]
  /\ \A i \in all :
       LET n == nodes'[copy[i]]
       IN /\ n.kind = nodes[i].kind /\ n.pic = nodes[i].pic /\ n.status # "loading"
          /\ nodes[i].status = "idle" => n.status = "idle"
          /\ n.kids = {copy[k] : k \in nodes[i].kids \cap all}
          /\ n.open <=> nodes[i].open /\ n.kids # {}
          /\ n.main = IF nodes[i].main \in all THEN copy[nodes[i].main] ELSE None

LEMMA CopyingSays ==
  ASSUME Inv, NEW all \in SUBSET DOMAIN nodes, Copying(all)
  PROVE  \E copy : CopiedAs(all, copy)
<1>1. PICK copy, h : Copied(nodes, all, copy, h) /\ nodes' = Added(nodes, h)
                     /\ DOMAIN h \subseteq (made + 1)..made'
  BY DEF Copying
<1>2. made \in Nat /\ DOMAIN nodes \subseteq 1..made
  BY Made DEF Inv, NodesInv, Grouped
<1>3. /\ copy \in [all -> DOMAIN h] /\ copy \in [all -> (made + 1)..made'] /\ DOMAIN copy = all
      /\ \A i, k \in all : copy[i] = copy[k] => i = k
      /\ \A n \in DOMAIN h : \E i \in all : copy[i] = n
      /\ \A i \in all : h[copy[i]] = CopyOf(nodes[i], copy)
  BY <1>1 DEF Copied
<1>4. DOMAIN h = {copy[i] : i \in all}
  BY <1>3
<1>5. DOMAIN nodes \cap DOMAIN h = {}
  BY <1>1, <1>2
<1>6. /\ DOMAIN nodes' = DOMAIN nodes \cup {copy[i] : i \in all}
      /\ \A i \in DOMAIN nodes : nodes'[i] = nodes[i]
      /\ \A i \in all : nodes'[copy[i]] = CopyOf(nodes[i], copy)
  BY <1>1, <1>3, <1>4, <1>5 DEF Added
<1>7. ASSUME NEW i \in all, NEW n, n = nodes'[copy[i]]
      PROVE  /\ n.kind = nodes[i].kind /\ n.pic = nodes[i].pic /\ n.status # "loading"
             /\ nodes[i].status = "idle" => n.status = "idle"
             /\ n.kids = {copy[k] : k \in nodes[i].kids \cap all}
             /\ n.open <=> nodes[i].open /\ n.kids # {}
             /\ n.main = IF nodes[i].main \in all THEN copy[nodes[i].main] ELSE None
  <2>1. nodes[i] \in Node /\ n = CopyOf(nodes[i], copy)
    BY <1>6, <1>7, SourceOf
  <2> QED BY <1>3, <2>1, CopySays
<1>8. CopiedAs(all, copy)
  BY <1>3, <1>6, <1>7 DEF CopiedAs
<1> QED BY <1>8

LEMMA CopiedFlat ==
  ASSUME Inv, NEW all \in SUBSET DOMAIN nodes, NEW copy, CopiedAs(all, copy), Flat(nodes)
  PROVE  Flat(nodes')
<1> SUFFICES ASSUME NEW q \in DOMAIN nodes', NEW k \in nodes'[q].kids \cap DOMAIN nodes'
             PROVE  nodes'[k].kids = {} /\ nodes'[k].kind # "custom"
  BY DEF Flat
<1>1. /\ \A i \in all : copy[i] \in (made + 1)..made'
      /\ DOMAIN nodes' = DOMAIN nodes \cup {copy[i] : i \in all}
      /\ \A i \in DOMAIN nodes : nodes'[i] = nodes[i]
      /\ \A i \in all : /\ nodes'[copy[i]].kind = nodes[i].kind
                        /\ nodes'[copy[i]].kids = {copy[n] : n \in nodes[i].kids \cap all}
  BY DEF CopiedAs
<1>2. \A i \in DOMAIN nodes : nodes[i].kids \subseteq 1..made /\ made \in Nat
  BY Made DEF Inv, NodesInv, Grouped
<1>3. CASE q \in DOMAIN nodes
  <2>1. k \in nodes[q].kids /\ k \in DOMAIN nodes
    BY <1>1, <1>2, <1>3
  <2> QED BY <1>1, <1>3, <2>1 DEF Flat
<1>4. CASE q \notin DOMAIN nodes
  <2>1. PICK s \in all : q = copy[s]
    BY <1>1, <1>4
  <2>2. PICK n \in nodes[s].kids \cap all : k = copy[n]
    BY <1>1, <2>1
  <2>3. nodes[n].kids = {} /\ nodes[n].kind # "custom"
    BY DEF Flat
  <2>4. nodes'[k].kids = {} /\ nodes'[k].kind = nodes[n].kind
    BY <1>1, <2>2, <2>3
  <2> QED BY <2>3, <2>4
<1> QED BY <1>3, <1>4

LEMMA CopiedShown ==
  ASSUME Inv, NEW all \in SUBSET DOMAIN nodes, NEW copy, CopiedAs(all, copy), Shown(nodes)
  PROVE  Shown(nodes')
<1> SUFFICES ASSUME NEW r \in DOMAIN nodes', NEW m \in nodes'[r].kids \cap DOMAIN nodes',
                    nodes'[r].main = m, nodes'[m].pic # NoPic
             PROVE  nodes'[r].pic = nodes'[m].pic
  BY DEF Shown, MainOf
<1>1. /\ \A i \in all : copy[i] \in (made + 1)..made'
      /\ \A i, k \in all : copy[i] = copy[k] => i = k
      /\ DOMAIN nodes' = DOMAIN nodes \cup {copy[i] : i \in all}
      /\ \A i \in DOMAIN nodes : nodes'[i] = nodes[i]
      /\ \A i \in all :
           /\ nodes'[copy[i]].pic = nodes[i].pic
           /\ nodes'[copy[i]].kids = {copy[n] : n \in nodes[i].kids \cap all}
           /\ nodes'[copy[i]].main = IF nodes[i].main \in all THEN copy[nodes[i].main] ELSE None
  BY DEF CopiedAs
<1>2. \A i \in DOMAIN nodes : nodes[i].kids \subseteq 1..made /\ made \in Nat
  BY Made DEF Inv, NodesInv, Grouped
<1>3. CASE r \in DOMAIN nodes
  <2>1. m \in nodes[r].kids /\ m \in DOMAIN nodes
    BY <1>1, <1>2, <1>3
  <2> QED BY <1>1, <1>3, <2>1 DEF Shown, MainOf
<1>4. CASE r \notin DOMAIN nodes
  <2>1. PICK s \in all : r = copy[s]
    BY <1>1, <1>4
  <2>2. PICK n \in nodes[s].kids \cap all : m = copy[n]
    BY <1>1, <2>1
  <2>3. m # None
    BY <1>1, <1>2, <2>2 DEF None
  <2>4. nodes[s].main = n
    BY <1>1, <2>1, <2>2, <2>3
  <2>5. nodes'[m].pic = nodes[n].pic /\ nodes'[r].pic = nodes[s].pic
    BY <1>1, <2>1, <2>2
  <2> QED BY <2>4, <2>5 DEF Shown, MainOf
<1> QED BY <1>3, <1>4

(* Groups are copied whole or not at all. *)
LEMMA CopiedWhole ==
  ASSUME Inv, NEW all \in SUBSET DOMAIN nodes, NEW copy, CopiedAs(all, copy), Whole(nodes),
         \A i \in all : nodes[i].kids \subseteq all \/ nodes[i].kids \cap all = {}
  PROVE  Whole(nodes')
<1>1. /\ \A i \in all : copy[i] \in (made + 1)..made'
      /\ \A i, k \in all : copy[i] = copy[k] => i = k
      /\ DOMAIN nodes' = DOMAIN nodes \cup {copy[i] : i \in all}
      /\ \A i \in DOMAIN nodes : nodes'[i] = nodes[i]
      /\ \A i \in all :
           /\ nodes'[copy[i]].kind = nodes[i].kind
           /\ nodes'[copy[i]].kids = {copy[n] : n \in nodes[i].kids \cap all}
           /\ nodes'[copy[i]].open <=> nodes[i].open /\ nodes'[copy[i]].kids # {}
  BY DEF CopiedAs
<1>2. ASSUME NEW r \in DOMAIN nodes
      PROVE  nodes'[r].kids \subseteq DOMAIN nodes' /\ Seen(nodes'[r])
  BY <1>1 DEF Whole
<1>3. ASSUME NEW s \in all
      PROVE  nodes'[copy[s]].kids \subseteq DOMAIN nodes' /\ Seen(nodes'[copy[s]])
  <2>1. Seen(nodes[s])
    BY DEF Whole
  <2>2. CASE nodes[s].kids \cap all = {}
    BY <1>1, <2>2 DEF Seen
  <2>3. CASE nodes[s].kids \subseteq all
    <3>1. nodes'[copy[s]].kids = {copy[n] : n \in nodes[s].kids} /\ nodes[s].kids \cap all = nodes[s].kids
      BY <1>1, <2>3
    <3>2. nodes[s].kids = {} => nodes'[copy[s]].kids = {}
      BY <3>1
    <3>3. nodes[s].open /\ nodes[s].kids # {} => nodes'[copy[s]].open
      BY <1>1, <3>1
    <3>4. ASSUME Two(nodes[s].kids)
          PROVE  Two(nodes'[copy[s]].kids)
      <4>1. PICK a, b \in nodes[s].kids : a # b
        BY <3>4 DEF Two
      <4>2. /\ copy[a] \in nodes'[copy[s]].kids /\ copy[b] \in nodes'[copy[s]].kids
            /\ copy[a] # copy[b]
        BY <1>1, <2>3, <3>1, <4>1
      <4> QED BY <4>2 DEF Two
    <3>5. nodes'[copy[s]].kids \subseteq DOMAIN nodes'
      BY <1>1, <2>3, <3>1
    <3> QED BY <1>1, <2>1, <3>2, <3>3, <3>4, <3>5 DEF Seen
  <2> QED BY <2>2, <2>3
<1> QED BY <1>1, <1>2, <1>3 DEF Whole

-----------------------------------------------------------------------------
(* One more step of each part                                              *)

(* Nodes keep their kind, but what is drawn becomes an image; new ones are  *)
(* not waited for, unless they are drawn.                                  *)
LEMMA KindsStep ==
  ASSUME Inv, KindsInv, made' \in Nat, made <= made',
         \A i \in DOMAIN nodes' :
           /\ \/ i \in DOMAIN nodes /\ nodes'[i].kind = nodes[i].kind
              \/ i \in DOMAIN nodes /\ nodes[i].kind # "custom" /\ nodes'[i].kind = "image"
              \/ i \in (made + 1)..made' /\ (nodes'[i].kind = "custom" => i \notin Targets')
           /\ nodes'[i].kind = "custom" => Plain(nodes'[i])
           /\ nodes'[i].kind = "config" => nodes'[i].kids = {},
         \A t \in Targets' : \/ t \in Targets \/ t = None \/ t \in (made + 1)..made'
                             \/ t \in DOMAIN nodes /\ nodes[t].kind # "custom",
         \A j \in jobs' : j.of = "empty" =>
           \/ \E o \in jobs : o.of = "empty" /\ o.source = j.source
           \/ j.source \in DOMAIN nodes /\ nodes[j.source].kind = "image",
         \A j \in jobs' : j.at = "asked" => j.root = None /\ j.left = {} /\ ~j.won
  PROVE  KindsInv'
<1>1. made \in Nat /\ DOMAIN nodes \subseteq 1..made /\ Targets \subseteq 0..made
      /\ \A j \in jobs : j.source \in 1..made
  BY Made DEF Inv, NodesInv, Grouped, RestInv, KindsInv
<1>2. \A i \in DOMAIN nodes : i # None /\ i \notin (made + 1)..made'
  BY <1>1 DEF None
<1>3. ASSUME NEW i \in DOMAIN nodes', nodes'[i].kind = "custom"
      PROVE  i \notin Targets'
  <2>1. CASE i \in DOMAIN nodes
    <3>1. nodes[i].kind = "custom" /\ i \notin Targets
      BY <1>2, <1>3, <2>1 DEF KindsInv
    <3> QED BY <1>2, <2>1, <3>1
  <2>2. CASE i \notin DOMAIN nodes
    BY <1>3, <2>2
  <2> QED BY <2>1, <2>2
<1>4. Targets' \subseteq 0..made'
  <2>1. 0..made \subseteq 0..made' /\ (made + 1)..made' \subseteq 0..made' /\ None \in 0..made'
    BY <1>1 DEF None
  <2>2. DOMAIN nodes \subseteq 0..made'
    BY <1>1
  <2> QED BY <1>1, <2>1, <2>2
<1>5. ASSUME NEW j \in jobs', j.of = "empty", j.source \in DOMAIN nodes'
      PROVE  nodes'[j.source].kind = "image"
  <2>1. j.source \in 1..made /\ (j.source \in DOMAIN nodes => nodes[j.source].kind = "image")
    BY <1>1, <1>5 DEF KindsInv
  <2>2. j.source \notin (made + 1)..made'
    BY <1>1, <2>1
  <2> QED BY <1>5, <2>1, <2>2
<1> QED BY <1>3, <1>4, <1>5 DEF KindsInv

(* The canvas is edited, and nothing is asked for or answered. *)
LEMMA KindsEdit ==
  ASSUME Inv, KindsInv, made' \in Nat, made <= made', jobs' = jobs, tries' = tries,
         \A i \in DOMAIN nodes' :
           /\ \/ i \in DOMAIN nodes /\ nodes'[i].kind = nodes[i].kind
              \/ i \in DOMAIN nodes /\ nodes[i].kind # "custom" /\ nodes'[i].kind = "image"
              \/ i \in (made + 1)..made'
           /\ nodes'[i].kind = "custom" => Plain(nodes'[i])
           /\ nodes'[i].kind = "config" => nodes'[i].kids = {}
  PROVE  KindsInv'
<1>1. Targets' = Targets
  BY DEF Targets
<1>2. Targets \subseteq 0..made /\ made \in Nat
  BY Made DEF Inv, KindsInv
<1>3. \A i \in (made + 1)..made' : i \notin Targets
  BY <1>2
<1>4. \A j \in jobs : j.at = "asked" => j.root = None /\ j.left = {} /\ ~j.won
  BY DEF KindsInv
<1> QED BY <1>1, <1>3, <1>4, KindsStep

(* No node changes but in how far its picture is. *)
LEMMA KindsCalm ==
  ASSUME Inv, KindsInv, Calm,
         \A t \in Targets' : \/ t \in Targets \/ t = None
                             \/ t \in (made + 1)..made' /\ (t \in DOMAIN nodes' => nodes'[t].kind # "custom")
                             \/ t \in DOMAIN nodes /\ nodes[t].kind # "custom",
         \A j \in jobs' : j.of = "empty" =>
           \/ \E o \in jobs : o.of = "empty" /\ o.source = j.source
           \/ j.source \in DOMAIN nodes /\ nodes[j.source].kind = "image",
         \A j \in jobs' : j.at = "asked" => j.root = None /\ j.left = {} /\ ~j.won
  PROVE  KindsInv'
<1>1. made' \in Nat /\ made <= made' /\ made \in Nat
  BY DEF Calm
<1>2. ASSUME NEW i \in (made + 1)..made', i \in DOMAIN nodes', i \in Targets'
      PROVE  nodes'[i].kind # "custom"
  <2>1. i \notin Targets /\ i # None /\ i \notin DOMAIN nodes
    BY <1>1 DEF KindsInv, None, Inv, NodesInv, Grouped
  <2> QED BY <1>2, <2>1
<1>3. ASSUME NEW i \in DOMAIN nodes'
      PROVE  /\ \/ i \in DOMAIN nodes /\ nodes'[i].kind = nodes[i].kind
                \/ i \in (made + 1)..made' /\ (nodes'[i].kind = "custom" => i \notin Targets')
             /\ nodes'[i].kind = "custom" => Plain(nodes'[i])
             /\ nodes'[i].kind = "config" => nodes'[i].kids = {}
  <2>1. CASE /\ i \in DOMAIN nodes /\ Same(nodes'[i], nodes[i])
             /\ nodes[i].kind = "custom" => nodes'[i].status = nodes[i].status
    BY <2>1 DEF Same, KindsInv, Plain
  <2>2. CASE i \in (made + 1)..made' /\ Single(nodes'[i])
    BY <1>2, <2>2 DEF Single, Plain
  <2> QED BY <2>1, <2>2 DEF Calm
<1> QED BY <1>1, <1>3, KindsStep

(* Groups but those of custom nodes only lose images, or are of new ones.   *)
LEMMA FreeStep ==
  ASSUME Inv, KindsInv, Free, made' \in Nat, made <= made',
         DOMAIN nodes' \subseteq DOMAIN nodes \cup (made + 1)..made',
         \A j \in jobs' : j.root \in DOMAIN nodes' => \E o \in jobs : o.root = j.root,
         \A q \in DOMAIN nodes' :
           nodes'[q].kind # "custom" =>
             \/ /\ q \in DOMAIN nodes /\ nodes[q].kind # "custom"
                /\ nodes'[q].kids \subseteq nodes[q].kids
             \/ nodes'[q].kids \subseteq (made + 1)..made'
  PROVE  Free'
<1> SUFFICES ASSUME NEW j \in jobs', NEW q \in DOMAIN nodes', nodes'[q].kind # "custom",
                    j.root \in DOMAIN nodes'
             PROVE  j.root \notin nodes'[q].kids
  BY DEF Free
<1>1. PICK o \in jobs : o.root = j.root
  OBVIOUS
<1>2. made \in Nat /\ j.root \in 0..made
  BY <1>1, Made, JobTargets, TargetSays DEF Inv
<1>3. j.root \notin (made + 1)..made'
  BY <1>2
<1>4. j.root \in DOMAIN nodes
  BY <1>3
<1> QED BY <1>1, <1>3, <1>4 DEF Free

LEMMA ArrangedFree ==
  ASSUME Inv, KindsInv, Free, NEW S, Arranged(S), made' \in Nat, made <= made',
         DOMAIN nodes' \subseteq DOMAIN nodes \cup (made + 1)..made',
         \A j \in jobs' : j.root \in DOMAIN nodes' => \E o \in jobs : o.root = j.root
  PROVE  Free'
<1>1. \A q \in DOMAIN nodes' :
        nodes'[q].kind # "custom" =>
          \/ /\ q \in DOMAIN nodes /\ nodes[q].kind # "custom"
             /\ nodes'[q].kids \subseteq nodes[q].kids
          \/ nodes'[q].kids \subseteq (made + 1)..made'
  BY DEF Arranged
<1> QED BY <1>1, FreeStep

(* Images are arranged otherwise: groups stay flat, roots free, and mains   *)
(* are shown.                                                              *)
LEMMA ArrangedKept ==
  ASSUME Inv, Inv', KindsInv, FlatInv, ShownInv, NEW S, slips \subseteq slips',
         "parted" \notin slips' => Arranged(S), made' \in Nat, made <= made',
         DOMAIN nodes' \subseteq DOMAIN nodes \cup (made + 1)..made',
         \A j \in jobs' : j.root \in DOMAIN nodes' => \E o \in jobs : o.root = j.root
  PROVE  FlatInv' /\ ShownInv'
<1>1. ASSUME "parted" \notin slips'
      PROVE  Flat(nodes') /\ Free'
  <2>1. Flat(nodes) /\ Free /\ Arranged(S)
    BY <1>1 DEF FlatInv
  <2> QED BY <2>1, ArrangedFlat, ArrangedFree
<1>2. ASSUME slips' \cap {"parted", "redrawn"} = {}
      PROVE  Shown(nodes')
  <2>1. Flat(nodes) /\ Arranged(S) /\ Shown(nodes)
    BY <1>2 DEF FlatInv, ShownInv
  <2> QED BY <2>1, ArrangedShown
<1> QED BY <1>1, <1>2 DEF FlatInv, ShownInv

LEMMA CopiedKept ==
  ASSUME Inv, KindsInv, FlatInv, ShownInv, NEW all \in SUBSET DOMAIN nodes, NEW copy,
         CopiedAs(all, copy), slips' = slips, jobs' = jobs, made' \in Nat, made <= made'
  PROVE  FlatInv' /\ ShownInv'
<1>1. ASSUME "parted" \notin slips
      PROVE  Flat(nodes') /\ Free'
  <2>1. Flat(nodes) /\ Free
    BY <1>1 DEF FlatInv
  <2>2. /\ \A i \in all : copy[i] \in (made + 1)..made'
        /\ DOMAIN nodes' = DOMAIN nodes \cup {copy[i] : i \in all}
        /\ \A i \in DOMAIN nodes : nodes'[i] = nodes[i]
        /\ \A i \in all : nodes'[copy[i]].kids = {copy[k] : k \in nodes[i].kids \cap all}
    BY DEF CopiedAs
  <2>3. \A q \in DOMAIN nodes' : \/ q \in DOMAIN nodes /\ nodes'[q] = nodes[q]
                                 \/ nodes'[q].kids \subseteq (made + 1)..made'
    BY <2>2
  <2>4. DOMAIN nodes' \subseteq DOMAIN nodes \cup (made + 1)..made'
    BY <2>2
  <2>5. Free'
    BY <2>1, <2>3, <2>4, FreeStep
  <2> QED BY <2>1, <2>5, CopiedFlat
<1>2. ASSUME slips \cap {"parted", "redrawn"} = {}
      PROVE  Shown(nodes')
  BY <1>2, CopiedShown DEF ShownInv
<1> QED BY <1>1, <1>2 DEF FlatInv, ShownInv

(* Pictures come, and the groups stay as they are. *)
LEMMA KeptFlat ==
  ASSUME Inv, KindsInv, FlatInv, slips \subseteq slips', made' = made, DOMAIN nodes' = DOMAIN nodes,
         \A i \in DOMAIN nodes :
           /\ nodes'[i].kids = nodes[i].kids
           /\ nodes'[i].kind = nodes[i].kind \/ (nodes[i].kind # "custom" /\ nodes'[i].kind = "image"),
         \A j \in jobs' : j.root \in DOMAIN nodes' => \E o \in jobs : o.root = j.root
  PROVE  FlatInv'
<1>1. made' \in Nat /\ made <= made'
  BY Made DEF Inv
<1>2. ASSUME "parted" \notin slips'
      PROVE  Flat(nodes') /\ Free'
  <2>1. Flat(nodes) /\ Free
    BY <1>2 DEF FlatInv
  <2>2. Free'
    BY <1>1, <2>1, FreeStep
  <2> QED BY <2>1, <2>2 DEF Flat
<1> QED BY <1>2 DEF FlatInv

(* Groups that are seen: none that is closed loses an image. *)
LEMMA WholeStep ==
  ASSUME WholeInv, slips \subseteq slips',
         slips' \cap {"parted", "plucked"} = {} =>
           \A i \in DOMAIN nodes' :
             \/ /\ i \in DOMAIN nodes /\ nodes'[i].kids = nodes[i].kids
                /\ nodes'[i].kids \cap DOMAIN nodes \subseteq DOMAIN nodes'
                /\ nodes'[i].kind = nodes[i].kind \/ nodes[i].kind # "custom"
                /\ nodes[i].open => nodes'[i].open
             \/ nodes'[i].kids \subseteq DOMAIN nodes' /\ Seen(nodes'[i])
  PROVE  WholeInv'
<1> SUFFICES ASSUME slips' \cap {"parted", "plucked"} = {}, NEW i \in DOMAIN nodes'
             PROVE  nodes'[i].kids \subseteq DOMAIN nodes' /\ Seen(nodes'[i])
  BY DEF WholeInv, Whole
<1>1. Whole(nodes)
  BY DEF WholeInv
<1>2. CASE /\ i \in DOMAIN nodes /\ nodes'[i].kids = nodes[i].kids
           /\ nodes'[i].kids \cap DOMAIN nodes \subseteq DOMAIN nodes'
           /\ nodes'[i].kind = nodes[i].kind \/ nodes[i].kind # "custom"
           /\ nodes[i].open => nodes'[i].open
  BY <1>1, <1>2 DEF Whole, Seen
<1> QED BY <1>2

(* What is drawn still is, and is still awaited. *)
LEMMA AwaitEdit ==
  ASSUME AwaitInv, slips \subseteq slips', jobs' = jobs, tries' = tries,
         "picked" \notin slips' =>
           \A i \in DOMAIN nodes' :
             nodes'[i].status = "loading" =>
               /\ i \in DOMAIN nodes /\ nodes[i].status = "loading"
               /\ \/ nodes'[i].main \in {nodes[i].main, None}
                  \/ \A j \in jobs : j.root # i
  PROVE  AwaitInv'
<1> SUFFICES ASSUME "picked" \notin slips', NEW i \in DOMAIN nodes', nodes'[i].status = "loading"
             PROVE  i \in tries' \/ \E j \in jobs' : Awaits(j, i)'
  BY DEF AwaitInv, Awaited
<1>1. /\ i \in DOMAIN nodes /\ nodes[i].status = "loading"
      /\ nodes'[i].main \in {nodes[i].main, None} \/ \A j \in jobs : j.root # i
  OBVIOUS
<1>2. i \in tries \/ \E j \in jobs : Awaits(j, i)
  BY <1>1 DEF AwaitInv, Awaited
<1>3. CASE i \in tries
  BY <1>3
<1>4. ASSUME NEW j \in jobs, Awaits(j, i)
      PROVE  Awaits(j, i)'
  BY <1>1, <1>4 DEF Awaits
<1> QED BY <1>2, <1>3, <1>4

LEMMA PickedSays ==
  ASSUME "picked" \notin slips', Picked(nodes') \subseteq slips',
         NEW i \in DOMAIN nodes \cap DOMAIN nodes', NEW j \in jobs, j.root = i
  PROVE  nodes'[i].main = nodes[i].main
BY DEF Picked

(* All of it together. *)
More == KindsInv /\ FlatInv /\ ShownInv /\ WholeInv /\ AwaitInv

LEMMA CalmKept ==
  ASSUME Inv, Inv', More, Calm,
         \A j \in jobs' : j.root \in DOMAIN nodes' => \E o \in jobs : o.root = j.root
  PROVE  FlatInv' /\ ShownInv' /\ WholeInv'
<1>1. /\ made' \in Nat /\ made <= made' /\ slips \subseteq slips'
      /\ DOMAIN nodes' \subseteq DOMAIN nodes \cup (made + 1)..made'
      /\ DOMAIN nodes \subseteq DOMAIN nodes'
  BY DEF Calm
<1>2. FlatInv' /\ ShownInv'
  BY <1>1, CalmArranged, ArrangedKept DEF More
<1>3. \A i \in DOMAIN nodes' :
        \/ i \in DOMAIN nodes /\ Same(nodes'[i], nodes[i])
        \/ nodes'[i].kids = {}
  BY DEF Calm, Single
<1>4. WholeInv'
  BY <1>1, <1>3, WholeStep DEF More, Same, Seen
<1> QED BY <1>2, <1>4

(* What is edited beside the groups. *)
LEMMA CalmEdit ==
  ASSUME Inv, Inv', More, Calm, jobs' = jobs, tries' = tries,
         \A i \in DOMAIN nodes' :
           nodes'[i].status = "loading" => i \in DOMAIN nodes /\ nodes[i].status = "loading"
  PROVE  More'
<1>1. Targets' = Targets /\ \A j \in jobs : j.at = "asked" => j.root = None /\ j.left = {} /\ ~j.won
  BY DEF Targets, More, KindsInv
<1>2. KindsInv'
  BY <1>1, KindsCalm DEF More
<1>3. FlatInv' /\ ShownInv' /\ WholeInv'
  BY CalmKept
<1>4. \A i \in DOMAIN nodes' : i \in DOMAIN nodes => nodes'[i].main \in {nodes[i].main, None}
  BY DEF Calm, Same, Single
<1>5. AwaitInv'
  <2>1. slips \subseteq slips'
    BY DEF Calm
  <2> QED BY <1>4, <2>1, AwaitEdit DEF More
<1> QED BY <1>2, <1>3, <1>5 DEF More

LEMMA CreateMore ==
  ASSUME Inv, Inv', More, NEW a, NEW kind \in Kinds, NEW h, Create(kind) \/ CreateConnected(a, kind, h)
  PROVE  More'
<1>1. Blank(kind) \in Sound /\ Blank(kind).status = "idle"
  BY BlankIsSound DEF Blank
<1>2. Fresh(1) /\ nodes' = Added(nodes, [k \in {made'} |-> Blank(kind)]) /\ jobs' = jobs /\ tries' = tries
  BY DEF Create, CreateConnected, chainVars
<1>3. /\ DOMAIN nodes' = DOMAIN nodes \cup {made'} /\ nodes'[made'] = Blank(kind)
      /\ \A i \in DOMAIN nodes : nodes'[i] = nodes[i]
  BY <1>1, <1>2, NewSays
<1>4. Calm
  BY CreateCalm
<1> QED BY <1>1, <1>2, <1>3, <1>4, CalmEdit

LEMMA CroppedMore ==
  ASSUME Inv, Inv', More, NEW i, NEW p \in Pics, Cropped(i, p)
  PROVE  More'
<1>1. Picture(p) \in Sound /\ Picture(p).status = "idle"
  BY PictureSays
<1>2. Fresh(1) /\ nodes' = Added(nodes, [k \in {made'} |-> Picture(p)]) /\ jobs' = jobs /\ tries' = tries
  BY DEF Cropped
<1>3. /\ DOMAIN nodes' = DOMAIN nodes \cup {made'} /\ nodes'[made'] = Picture(p)
      /\ \A k \in DOMAIN nodes : nodes'[k] = nodes[k]
  BY <1>1, <1>2, NewSays
<1>4. Calm
  BY CroppedCalm
<1> QED BY <1>1, <1>2, <1>3, <1>4, CalmEdit

(* Neither a node changes nor what is awaited. *)
LEMMA StillMore ==
  ASSUME Inv, Inv', More, nodes' = nodes, made' = made, slips' = slips, jobs' = jobs, tries' = tries
  PROVE  More'
<1>1. Calm
  BY CalmStill
<1> QED BY <1>1, CalmEdit

LEMMA DeleteMore ==
  ASSUME Inv, Inv', More, NEW S \in SUBSET DOMAIN nodes, DeleteNodes(S)
  PROVE  More'
<1>1. /\ DOMAIN nodes' = DOMAIN nodes \ All(S) /\ made' = made /\ jobs' = jobs /\ tries' = tries
      /\ slips' = slips \cup Picked(nodes') \cup Plucked(All(S) \cap DOMAIN nodes)
      /\ \A i \in DOMAIN nodes' :
           /\ nodes'[i].kind = nodes[i].kind /\ nodes'[i].status = nodes[i].status
           /\ nodes'[i].open = nodes[i].open /\ nodes'[i].kids = nodes[i].kids \ All(S)
           /\ nodes[i].kind = "custom" => nodes'[i].main = nodes[i].main
  <2>1. Reduced(S)
    BY DeleteSays
  <2> QED BY <2>1 DEF Reduced, chainVars
<1>2. made \in Nat /\ made <= made' /\ made' \in Nat
  BY <1>1, Made DEF Inv
<1>3. KindsInv'
  <2>1. \A i \in DOMAIN nodes' : /\ nodes'[i].kind = "custom" => Plain(nodes'[i])
                                 /\ nodes'[i].kind = "config" => nodes'[i].kids = {}
    BY <1>1 DEF More, KindsInv, Plain
  <2> QED BY <1>1, <1>2, <2>1, KindsEdit DEF More
<1>4. FlatInv' /\ ShownInv'
  <2>1. Arranged({})
    BY DeleteArranged
  <2> QED BY <1>1, <1>2, <2>1, ArrangedKept DEF More
<1>5. WholeInv'
  <2>1. ASSUME slips' \cap {"parted", "plucked"} = {}, NEW i \in DOMAIN nodes',
               nodes[i].kids \cap All(S) # {}
        PROVE  nodes'[i].kids \subseteq DOMAIN nodes' /\ Seen(nodes'[i])
    <3>1. Whole(nodes) /\ Agree(nodes) /\ i \in DOMAIN nodes /\ i \notin All(S)
      BY <1>1, <2>1 DEF More, WholeInv, Inv, NodesInv
    <3>2. PICK k \in nodes[i].kids : k \in All(S)
      BY <2>1
    <3>3. k \in DOMAIN nodes /\ nodes[k].root = i
      BY <3>1, <3>2 DEF Whole, Agree
    <3>4. ~Hidden(k)
      BY <1>1, <2>1, <3>1, <3>2, <3>3 DEF Plucked
    <3>5. nodes'[i].open
      BY <1>1, <3>1, <3>3, <3>4 DEF Hidden
    <3> QED BY <1>1, <3>1, <3>5 DEF Whole, Seen
  <2>2. \A i \in DOMAIN nodes' : nodes[i].kids \cap All(S) = {} => nodes'[i].kids = nodes[i].kids
    BY <1>1
  <2> QED BY <1>1, <2>1, <2>2, WholeStep DEF More
<1>6. AwaitInv'
  <2>1. \A i \in DOMAIN nodes', j \in jobs :
          "picked" \notin slips' /\ j.root = i => nodes'[i].main = nodes[i].main
    BY <1>1, PickedSays
  <2> QED BY <1>1, <2>1, AwaitEdit DEF More
<1> QED BY <1>3, <1>4, <1>5, <1>6 DEF More

LEMMA CopyingMore ==
  ASSUME Inv, Inv', More, NEW all \in SUBSET DOMAIN nodes, Copying(all), made' \in Nat, made <= made',
         slips' = slips, jobs' = jobs, tries' = tries,
         slips \cap {"parted", "plucked"} = {} =>
           \A i \in all : nodes[i].kids \subseteq all \/ nodes[i].kids \cap all = {}
  PROVE  More'
<1>1. PICK copy : CopiedAs(all, copy)
  BY CopyingSays
<1>2. /\ \A i \in all : copy[i] \in (made + 1)..made'
      /\ DOMAIN nodes' = DOMAIN nodes \cup {copy[i] : i \in all}
      /\ \A i \in DOMAIN nodes : nodes'[i] = nodes[i]
      /\ \A i \in all :
           /\ nodes'[copy[i]].kind = nodes[i].kind /\ nodes'[copy[i]].status # "loading"
           /\ nodes[i].status = "idle" => nodes'[copy[i]].status = "idle"
           /\ nodes'[copy[i]].kids = {copy[k] : k \in nodes[i].kids \cap all}
           /\ nodes'[copy[i]].open <=> nodes[i].open /\ nodes'[copy[i]].kids # {}
           /\ nodes'[copy[i]].main = IF nodes[i].main \in all THEN copy[nodes[i].main] ELSE None
  BY <1>1 DEF CopiedAs
<1>3. None \notin all
  BY IdsAreNaturals DEF Inv, NodesInv, Canvas
<1>4. KindsInv'
  <2>1. \A i \in DOMAIN nodes : /\ nodes[i].kind = "custom" => Plain(nodes[i])
                                /\ nodes[i].kind = "config" => nodes[i].kids = {}
    BY DEF More, KindsInv
  <2>2. ASSUME NEW i \in all
        PROVE  /\ nodes'[copy[i]].kind = "custom" => Plain(nodes'[copy[i]])
               /\ nodes'[copy[i]].kind = "config" => nodes'[copy[i]].kids = {}
    BY <1>2, <1>3, <2>1 DEF Plain
  <2>3. \A i \in DOMAIN nodes' :
          /\ (i \in DOMAIN nodes /\ nodes'[i].kind = nodes[i].kind) \/ i \in (made + 1)..made'
          /\ nodes'[i].kind = "custom" => Plain(nodes'[i])
          /\ nodes'[i].kind = "config" => nodes'[i].kids = {}
    BY <1>2, <2>1, <2>2
  <2> QED BY <2>3, KindsEdit DEF More
<1>5. FlatInv' /\ ShownInv'
  BY <1>1, CopiedKept DEF More
<1>6. WholeInv'
  BY <1>1, CopiedWhole DEF More, WholeInv
<1>7. AwaitInv'
  BY <1>2, AwaitEdit DEF More
<1> QED BY <1>4, <1>5, <1>6, <1>7 DEF More

LEMMA DuplicateMore ==
  ASSUME Inv, Inv', More, NEW i \in DOMAIN nodes, DuplicateNode(i)
  PROVE  More'
<1>1. Copying({i})
  BY DuplicateCopies
<1>2. made' \in Nat /\ made <= made' /\ slips' = slips /\ jobs' = jobs /\ tries' = tries
  BY Made DEF DuplicateNode, Fresh, chainVars, Inv
<1>3. nodes[i].kids \cap {i} = {}
  BY DEF Inv, NodesInv, Grouped
<1> QED BY <1>1, <1>2, <1>3, CopyingMore

LEMMA PasteMore ==
  ASSUME Inv, Inv', More, NEW S \in SUBSET DOMAIN nodes, Paste(S)
  PROVE  More'
<1> DEFINE all == All(S) \cap DOMAIN nodes
<1>1. Copying(all)
  BY PasteCopies
<1>2. slips' = slips /\ jobs' = jobs /\ tries' = tries
  BY DEF Paste, chainVars
<1>3. made' \in Nat /\ made <= made'
  <2>1. all \subseteq 1..made /\ made \in Nat
    BY Made DEF Inv, NodesInv, Grouped
  <2>2. Cardinality(all) \in Nat
    <3>1. IsFiniteSet(1..made)
      BY <2>1, FS_Interval
    <3> HIDE DEF all
    <3> QED BY <2>1, <3>1, FS_Subset, FS_CardinalityType
  <2>3. Fresh(Cardinality(all))
    BY DEF Paste, All
  <2> HIDE DEF all
  <2> QED BY <2>1, <2>2, <2>3 DEF Fresh
<1>4. ASSUME slips \cap {"parted", "plucked"} = {}, NEW i \in all
      PROVE  nodes[i].kids \subseteq all \/ nodes[i].kids \cap all = {}
  <2>1. Whole(nodes) /\ Flat(nodes)
    BY <1>4 DEF More, WholeInv, FlatInv
  <2>2. CASE i \in S
    BY <2>1, <2>2 DEF Whole, All, Kids
  <2>3. CASE i \notin S
    <3>1. PICK s \in S : i \in nodes[s].kids
      BY <1>4, <2>3 DEF All, Kids
    <3> QED BY <1>4, <2>1, <3>1 DEF Flat
  <2> QED BY <2>2, <2>3
<1>5. all \subseteq DOMAIN nodes
  OBVIOUS
<1> QED BY <1>1, <1>2, <1>3, <1>4, CopyingMore DEF All

(* Images are moved between groups: the others keep what they show. *)
LEMMA MovesKept ==
  ASSUME Inv, Inv', More, NEW S \in SUBSET DOMAIN nodes, NEW target \in (DOMAIN nodes \ S) \cup {None},
         target # None => nodes[target].kind = "custom", nodes' = Moved(nodes, S, target),
         made' = made, jobs' = jobs, tries' = tries, slips \subseteq slips',
         "parted" \notin slips' => \A i \in S : nodes[i].kids = {} /\ nodes[i].kind # "custom",
         \/ \A i \in DOMAIN nodes : nodes[i].kind # "custom" => nodes[i].kids \cap S = {}
         \/ Picked(nodes') \subseteq slips',
         slips' \cap {"parted", "plucked"} = {} =>
           \A i \in DOMAIN nodes : /\ nodes[i].kind # "custom" /\ nodes[i].kids \cap S # {}
                                     => nodes[i].open
  PROVE  More'
<1>1. /\ DOMAIN nodes' = DOMAIN nodes
      /\ \A i \in DOMAIN nodes :
           /\ nodes'[i].kind = nodes[i].kind /\ nodes'[i].status = nodes[i].status
           /\ nodes[i].kind # "custom" => nodes'[i].open = nodes[i].open
           /\ nodes[i].kind = "custom" => ~nodes'[i].open
           /\ nodes'[i].kids = IF i \in S THEN nodes[i].kids
                               ELSE IF i = target THEN nodes[i].kids \cup S ELSE nodes[i].kids \ S
           /\ \/ nodes'[i].main = nodes[i].main /\ nodes'[i].pic = nodes[i].pic
              \/ /\ nodes[i].kind # "custom" /\ nodes[i].kids \cap S # {} /\ i # target
                 /\ \A m \in DOMAIN nodes : nodes'[i].main = m => nodes'[i].pic = nodes[m].pic
  <2>1. Rearranged(S, target)
    BY MovesSay DEF More
  <2> QED BY <2>1 DEF Rearranged
<1>2. made \in Nat /\ made <= made' /\ made' \in Nat
  BY Made DEF Inv
<1>3. \A i \in DOMAIN nodes : i = target => nodes[i].kind = "custom"
  <2>1. \A i \in DOMAIN nodes : i # None
    BY IdsAreNaturals DEF Inv, NodesInv, Canvas
  <2> QED BY <2>1
<1>8. ASSUME NEW i \in DOMAIN nodes
      PROVE  /\ nodes'[i].kids \subseteq nodes[i].kids \cup S
             /\ nodes[i].kind # "custom" => nodes'[i].kids \subseteq nodes[i].kids
             /\ nodes[i].kind # "custom" /\ nodes[i].kids \cap S = {} => nodes'[i].kids = nodes[i].kids
             /\ nodes[i].kind = "custom" => nodes'[i].main = nodes[i].main
  <2>1. i = target => nodes[i].kind = "custom"
    BY <1>3
  <2>2. nodes'[i].kids = IF i \in S THEN nodes[i].kids
                         ELSE IF i = target THEN nodes[i].kids \cup S ELSE nodes[i].kids \ S
    BY <1>1
  <2>3. nodes[i].kind = "custom" => nodes'[i].main = nodes[i].main
    BY <1>1
  <2> QED BY <2>1, <2>2, <2>3
<1>4. KindsInv'
  <2>1. ASSUME NEW i \in DOMAIN nodes'
        PROVE  /\ nodes'[i].kind = "custom" => Plain(nodes'[i])
               /\ nodes'[i].kind = "config" => nodes'[i].kids = {}
    <3>1. /\ i \in DOMAIN nodes
          /\ nodes[i].kind = "custom" => Plain(nodes[i])
          /\ nodes[i].kind = "config" => nodes[i].kids = {}
      BY <1>1 DEF More, KindsInv
    <3>2. nodes[i].kind = "custom" => ~nodes'[i].open
      BY <1>1, <3>1
    <3>3. nodes'[i].kind = nodes[i].kind /\ nodes'[i].status = nodes[i].status
      BY <1>1, <3>1
    <3> QED BY <1>8, <3>1, <3>2, <3>3 DEF Plain
  <2> QED BY <1>1, <1>2, <2>1, KindsEdit DEF More
<1>5. FlatInv' /\ ShownInv'
  <2>1. "parted" \notin slips' => Arranged(S)
    BY MovesArranged DEF More
  <2> QED BY <1>1, <1>2, <2>1, ArrangedKept DEF More
<1>6. WholeInv'
  <2>1. ASSUME slips' \cap {"parted", "plucked"} = {}, NEW i \in DOMAIN nodes'
        PROVE  nodes'[i].kids \subseteq DOMAIN nodes' /\ Seen(nodes'[i])
    <3>1. nodes[i].kids \subseteq DOMAIN nodes /\ Seen(nodes[i]) /\ i \in DOMAIN nodes
      BY <1>1, <2>1 DEF More, WholeInv, Whole
    <3>2. nodes'[i].kids \subseteq DOMAIN nodes'
      BY <1>1, <1>8, <3>1
    <3>6. nodes'[i].kind = nodes[i].kind /\ (nodes[i].kind # "custom" => nodes'[i].open = nodes[i].open)
      BY <1>1, <3>1
    <3>3. CASE nodes[i].kind = "custom"
      BY <3>2, <3>3, <3>6 DEF Seen
    <3>4. CASE nodes[i].kind # "custom" /\ nodes[i].kids \cap S # {}
      BY <2>1, <3>1, <3>2, <3>4, <3>6 DEF Seen
    <3>5. CASE nodes[i].kind # "custom" /\ nodes[i].kids \cap S = {}
      <4>1. nodes'[i].kids = nodes[i].kids
        BY <1>8, <3>1, <3>5
      <4> QED BY <3>1, <3>2, <3>5, <3>6, <4>1 DEF Seen
    <3> QED BY <3>2, <3>3, <3>4, <3>5
  <2> QED BY <2>1, WholeStep DEF More
<1>7. AwaitInv'
  <2>1. ASSUME "picked" \notin slips', NEW i \in DOMAIN nodes'
        PROVE  nodes'[i].main \in {nodes[i].main, None} \/ \A j \in jobs : j.root # i
    <3>1. CASE \A k \in DOMAIN nodes : nodes[k].kind # "custom" => nodes[k].kids \cap S = {}
      <4>1. i \in DOMAIN nodes /\ (nodes[i].kind # "custom" => nodes[i].kids \cap S = {})
        BY <1>1, <3>1
      <4>2. nodes'[i].main = nodes[i].main
        BY <1>1, <4>1
      <4> QED BY <4>2
    <3>2. CASE Picked(nodes') \subseteq slips'
      <4>1. ASSUME NEW j \in jobs, j.root = i PROVE nodes'[i].main = nodes[i].main
        BY <1>1, <2>1, <3>2, <4>1, PickedSays
      <4> QED BY <4>1
    <3> QED BY <3>1, <3>2
  <2> QED BY <1>1, <2>1, AwaitEdit DEF More
<1> QED BY <1>4, <1>5, <1>6, <1>7 DEF More

LEMMA DropOnMore ==
  ASSUME Inv, Inv', More, NEW S \in SUBSET DOMAIN nodes, NEW target \in DOMAIN nodes, DropOn(S, target)
  PROVE  More'
<1> DEFINE dragged == (S \cup Kids(S)) \cap DOMAIN nodes
           joining == {i \in dragged : /\ nodes[i].kind = "image" /\ nodes[i].pic # NoPic
                                       /\ ~nodes[i].rooted /\ nodes[i].root \notin dragged}
<1>1. /\ nodes[target].kind = "custom" /\ target \notin dragged
      /\ nodes' = Moved(nodes, joining, target) /\ made' = made /\ jobs' = jobs /\ tries' = tries
      /\ slips' = slips \cup Picked(nodes') \cup Plucked(joining)
  BY DEF DropOn, chainVars
<1>2. /\ joining \in SUBSET DOMAIN nodes /\ target \in (DOMAIN nodes \ joining) \cup {None}
      /\ \A i \in joining : nodes[i].kind = "image" /\ ~nodes[i].rooted
  <2>1. joining \subseteq dragged /\ dragged \subseteq DOMAIN nodes
    OBVIOUS
  <2>2. \A i \in joining : nodes[i].kind = "image" /\ ~nodes[i].rooted
    OBVIOUS
  <2> HIDE DEF joining, dragged
  <2> QED BY <1>1, <2>1, <2>2
<1> HIDE DEF joining, dragged
<1>3. \A i \in joining : nodes[i].kids = {} /\ nodes[i].kind # "custom"
  BY <1>2 DEF Inv, NodesInv, Grouped
<1>4. ASSUME slips' \cap {"parted", "plucked"} = {}, NEW i \in DOMAIN nodes,
             nodes[i].kids \cap joining # {}
      PROVE  nodes[i].open
  <2>1. PICK k \in joining : k \in nodes[i].kids
    BY <1>4
  <2>2. nodes[k].root = i
    BY <1>1, <1>2, <1>4, <2>1 DEF Inv, NodesInv, Agree
  <2>3. ~Hidden(k)
    BY <1>1, <1>3, <1>4, <2>1, <2>2 DEF Plucked
  <2> QED BY <2>2, <2>3 DEF Hidden
<1>5. Picked(nodes') \subseteq slips' /\ slips \subseteq slips'
  BY <1>1
<1> QED BY <1>1, <1>2, <1>3, <1>4, <1>5, MovesKept

LEMMA DragOutMore ==
  ASSUME Inv, Inv', More, NEW i \in DOMAIN nodes, NEW target \in DOMAIN nodes \cup {None},
         DragOut(i, target)
  PROVE  More'
<1>1. /\ nodes[i].kind = "image"
      /\ target # None => nodes[target].kind = "custom"
      /\ nodes' = Moved(nodes, {i}, target) /\ made' = made /\ jobs' = jobs /\ tries' = tries
      /\ slips' = slips
  BY DEF DragOut, chainVars
<1>2. PICK g \in DOMAIN nodes : nodes[g].kind = "custom" /\ i \in nodes[g].kids
  BY DEF DragOut
<1>3. target \in (DOMAIN nodes \ {i}) \cup {None}
  BY <1>1
<1>4. \A q \in DOMAIN nodes : nodes[q].kind # "custom" => nodes[q].kids \cap {i} = {}
  BY <1>2 DEF Inv, NodesInv, Grouped
<1>5. "parted" \notin slips => nodes[i].kids = {}
  BY <1>2 DEF More, FlatInv, Flat
<1> QED BY <1>1, <1>3, <1>4, <1>5, MovesKept

LEMMA AddImagesMore ==
  ASSUME Inv, Inv', More, NEW n \in Nat \ {0}, NEW pics \in [1..n -> Pics],
         NEW target \in DOMAIN nodes \cup {None}, target # None => nodes[target].kind = "custom",
         AddImages(pics, target)
  PROVE  More'
<1> DEFINE S == (made + 1)..(made + n)
<1>1. /\ made \in Nat /\ made' \in Nat /\ made <= made'
      /\ DOMAIN nodes' = DOMAIN nodes \cup (made + 1)..made'
      /\ \A i \in DOMAIN nodes :
           /\ nodes'[i].kind = nodes[i].kind /\ nodes'[i].status = nodes[i].status
           /\ nodes'[i].main = nodes[i].main /\ nodes'[i].pic = nodes[i].pic
           /\ nodes[i].kind # "custom" => nodes'[i].kids = nodes[i].kids /\ nodes'[i].open = nodes[i].open
           /\ nodes[i].kind = "custom" => ~nodes'[i].open /\ nodes'[i].kids \subseteq nodes[i].kids \cup S
      /\ \A i \in (made + 1)..made' :
           /\ nodes'[i].main = None /\ nodes'[i].status = "idle" /\ ~nodes'[i].open
           /\ \/ nodes'[i].kind = "image" /\ nodes'[i].kids = {}
              \/ nodes'[i].kind = "custom" /\ i \notin S /\ nodes'[i].kids \subseteq S
      /\ S \subseteq (made + 1)..made'
  BY AddImagesSays DEF More
<1>2. Arranged(S)
  BY AddImagesArranged DEF More
<1>3. slips' = slips /\ jobs' = jobs /\ tries' = tries
  BY DEF AddImages, chainVars
<1> HIDE DEF S
<1>4. KindsInv'
  <2>1. \A i \in DOMAIN nodes' : /\ nodes'[i].kind = "custom" => Plain(nodes'[i])
                                 /\ nodes'[i].kind = "config" => nodes'[i].kids = {}
    BY <1>1 DEF More, KindsInv, Plain
  <2> QED BY <1>1, <1>3, <2>1, KindsEdit DEF More
<1>5. FlatInv' /\ ShownInv'
  BY <1>1, <1>2, <1>3, ArrangedKept DEF More
<1>6. WholeInv'
  <2>1. ASSUME slips' \cap {"parted", "plucked"} = {}, NEW i \in DOMAIN nodes'
        PROVE  nodes'[i].kids \subseteq DOMAIN nodes' /\ Seen(nodes'[i])
    <3>1. CASE i \in DOMAIN nodes
      <4>1. nodes[i].kids \subseteq DOMAIN nodes /\ Seen(nodes[i])
        BY <1>3, <2>1, <3>1 DEF More, WholeInv, Whole
      <4>2. nodes'[i].kids \subseteq DOMAIN nodes'
        BY <1>1, <3>1, <4>1
      <4>3. /\ nodes'[i].kind = nodes[i].kind
            /\ nodes[i].kind # "custom" => nodes'[i].kids = nodes[i].kids /\ nodes'[i].open = nodes[i].open
        BY <1>1, <3>1
      <4> QED BY <4>1, <4>2, <4>3 DEF Seen
    <3>2. CASE i \notin DOMAIN nodes
      BY <1>1, <2>1, <3>2 DEF Seen
    <3> QED BY <3>1, <3>2
  <2> QED BY <1>3, <2>1, WholeStep DEF More
<1>7. AwaitInv'
  BY <1>1, <1>3, AwaitEdit DEF More
<1> QED BY <1>4, <1>5, <1>6, <1>7 DEF More

(* Two images at least are in a stack. *)
LEMMA TwoCounted ==
  ASSUME NEW S, IsFiniteSet(S)
  PROVE  Cardinality(S) > 1 <=> Two(S)
<1>1. Cardinality(S) \in Nat
  BY FS_CardinalityType
<1>2. CASE S = {}
  <2>1. Cardinality(S) = 0
    BY <1>2, FS_EmptySet
  <2> QED BY <1>2, <2>1 DEF Two
<1>3. ASSUME NEW a \in S
      PROVE  Cardinality(S) > 1 <=> Two(S)
  <2>1. IsFiniteSet(S \ {a}) /\ Cardinality(S \ {a}) = Cardinality(S) - 1
    BY FS_RemoveElement
  <2>2. Cardinality(S \ {a}) = 0 <=> S \ {a} = {}
    BY <2>1, FS_EmptySet
  <2>3. Cardinality(S) > 1 <=> S \ {a} # {}
    BY <1>1, <2>1, <2>2, FS_CardinalityType
  <2>4. S \ {a} # {} <=> Two(S)
    BY DEF Two
  <2> QED BY <2>3, <2>4
<1> QED BY <1>2, <1>3

LEMMA ToggleMore ==
  ASSUME Inv, Inv', More, NEW r \in DOMAIN nodes, ToggleBatch(r)
  PROVE  More'
<1>1. /\ DOMAIN nodes' = DOMAIN nodes /\ made' = made /\ slips' = slips /\ jobs' = jobs /\ tries' = tries
      /\ \A i \in DOMAIN nodes :
           /\ nodes'[i].kind = nodes[i].kind /\ nodes'[i].status = nodes[i].status
           /\ nodes'[i].kids = nodes[i].kids /\ nodes'[i].root = nodes[i].root
           /\ nodes'[i].main = nodes[i].main /\ nodes'[i].pic = nodes[i].pic
           /\ i # r => nodes'[i].open = nodes[i].open
      /\ nodes'[r].open = ~nodes[r].open /\ nodes[r].kind = "image"
  <2>1. nodes[r].kind = "image"
    BY DEF ToggleBatch
  <2> QED BY <2>1, ToggleSays DEF chainVars
<1>2. made \in Nat /\ made <= made' /\ made' \in Nat
  BY <1>1, Made DEF Inv
<1>3. KindsInv'
  <2>1. \A i \in DOMAIN nodes' : /\ nodes'[i].kind = "custom" => Plain(nodes'[i])
                                 /\ nodes'[i].kind = "config" => nodes'[i].kids = {}
    BY <1>1 DEF More, KindsInv, Plain
  <2> QED BY <1>1, <1>2, <2>1, KindsEdit DEF More
<1>4. FlatInv' /\ ShownInv'
  <2>1. Arranged({})
    BY ToggleArranged
  <2> QED BY <1>1, <1>2, <2>1, ArrangedKept DEF More
<1>5. nodes'[r].open \/ Two(nodes[r].kids)
  <2>1. CASE Stacked(r)
    <3>1. IsFiniteSet(1..made)
      BY <1>2, FS_Interval
    <3>2. nodes[r].kids \subseteq 1..made
      BY DEF Inv, NodesInv, Grouped
    <3>3. IsFiniteSet(nodes[r].kids)
      BY <3>1, <3>2, FS_Subset
    <3> QED BY <2>1, <3>3, TwoCounted DEF Stacked
  <2>2. CASE \E i \in DOMAIN nodes : nodes[i].root = r /\ Hidden(i)
    BY <1>1, <2>2 DEF Hidden
  <2> QED BY <2>1, <2>2 DEF ToggleBatch
<1>6. WholeInv'
  <2>1. ASSUME slips' \cap {"parted", "plucked"} = {}, NEW i \in DOMAIN nodes'
        PROVE  nodes'[i].kids \subseteq DOMAIN nodes' /\ Seen(nodes'[i])
    <3>1. nodes[i].kids \subseteq DOMAIN nodes /\ Seen(nodes[i])
      BY <1>1, <2>1 DEF More, WholeInv, Whole
    <3> QED BY <1>1, <1>5, <2>1, <3>1 DEF Seen
  <2> QED BY <1>1, <2>1, WholeStep DEF More
<1>7. AwaitInv'
  BY <1>1, AwaitEdit DEF More
<1> QED BY <1>3, <1>4, <1>6, <1>7 DEF More

LEMMA PrimaryMore ==
  ASSUME Inv, Inv', More, NEW i \in DOMAIN nodes, SetBatchPrimary(i)
  PROVE  More'
<1>1. PICK r : r = nodes[i].root
  OBVIOUS
<1>2. /\ DOMAIN nodes' = DOMAIN nodes /\ made' = made /\ jobs' = jobs /\ tries' = tries
      /\ slips' = slips \cup Picked(nodes')
      /\ r \in DOMAIN nodes /\ nodes[r].open
      /\ \A k \in DOMAIN nodes : k # r => nodes'[k] = nodes[k]
      /\ nodes'[r].kind = nodes[r].kind /\ nodes'[r].status = nodes[r].status
      /\ nodes'[r].kids = nodes[r].kids /\ nodes'[r].open = nodes[r].open
  BY <1>1, PrimarySays DEF chainVars
<1>3. made \in Nat /\ made <= made' /\ made' \in Nat
  BY <1>2, Made DEF Inv
<1>4. KindsInv'
  <2>1. \A k \in DOMAIN nodes' : /\ nodes'[k].kind = nodes[k].kind
                                 /\ nodes'[k].kind = "custom" => Plain(nodes'[k])
                                 /\ nodes'[k].kind = "config" => nodes'[k].kids = {}
    BY <1>2 DEF More, KindsInv, Plain
  <2> QED BY <1>2, <1>3, <2>1, KindsEdit DEF More
<1>5. FlatInv' /\ ShownInv'
  <2>1. "parted" \notin slips' => Agree(nodes)
    BY <1>2 DEF Inv, NodesInv
  <2>2. "parted" \notin slips' => Arranged({})
    BY <2>1, PrimaryArranged DEF More
  <2> QED BY <1>2, <1>3, <2>2, ArrangedKept DEF More
<1>6. WholeInv'
  <2>1. \A k \in DOMAIN nodes' : nodes'[k].kids = nodes[k].kids /\ nodes'[k].kind = nodes[k].kind
                                 /\ nodes'[k].open = nodes[k].open
    BY <1>2
  <2> QED BY <1>2, <2>1, WholeStep DEF More
<1>7. AwaitInv'
  <2>1. \A k \in DOMAIN nodes', j \in jobs :
          "picked" \notin slips' /\ j.root = k => nodes'[k].main = nodes[k].main
    BY <1>2, PickedSays
  <2>2. \A k \in DOMAIN nodes' : nodes'[k].status = nodes[k].status
    BY <1>2
  <2> QED BY <1>2, <2>1, <2>2, AwaitEdit DEF More
<1> QED BY <1>4, <1>5, <1>6, <1>7 DEF More

LEMMA ForgetMore ==
  ASSUME Inv, Inv', More, NEW i \in DOMAIN nodes, nodes[i].kind = "image", NEW node,
         node.kids = {}, node.main = None, node.kind = "image", node.status \in {"idle", nodes[i].status},
         nodes' = [nodes EXCEPT ![i] = node], slips' = slips \cup Parted(i), made' = made,
         jobs' = jobs, tries' = tries
  PROVE  More'
<1>1. /\ DOMAIN nodes' = DOMAIN nodes /\ nodes'[i] = node
      /\ \A k \in DOMAIN nodes : k # i => nodes'[k] = nodes[k]
      /\ slips \subseteq slips'
  OBVIOUS
<1>2. made \in Nat /\ made <= made' /\ made' \in Nat
  BY Made DEF Inv
<1>3. KindsInv'
  <2>1. \A k \in DOMAIN nodes' : /\ nodes'[k].kind = nodes[k].kind
                                 /\ nodes'[k].kind = "custom" => Plain(nodes'[k])
                                 /\ nodes'[k].kind = "config" => nodes'[k].kids = {}
    BY <1>1 DEF More, KindsInv
  <2> QED BY <1>1, <1>2, <2>1, KindsEdit DEF More
<1>4. FlatInv' /\ ShownInv'
  <2>1. ASSUME "parted" \notin slips'
        PROVE  Arranged({})
    <3>1. Agree(nodes) /\ "parted" \notin Parted(i)
      BY <2>1 DEF Inv, NodesInv
    <3>2. \A r \in DOMAIN nodes : i \notin nodes[r].kids
      BY <3>1, NoGroup
    <3> QED BY <3>2, ForgetArranged
  <2> QED BY <1>1, <1>2, <2>1, ArrangedKept DEF More
<1>5. WholeInv'
  <2>1. \A k \in DOMAIN nodes' : nodes'[k] = nodes[k] \/ nodes'[k].kids = {}
    BY <1>1
  <2> QED BY <1>1, <2>1, WholeStep DEF More, Seen
<1>6. AwaitInv'
  <2>1. \A k \in DOMAIN nodes' :
          nodes'[k].status = "loading" =>
            /\ k \in DOMAIN nodes /\ nodes[k].status = "loading"
            /\ nodes'[k].main \in {nodes[k].main, None}
    BY <1>1
  <2> QED BY <1>1, <2>1, AwaitEdit DEF More
<1> QED BY <1>3, <1>4, <1>5, <1>6 DEF More

LEMMA ReplaceMore ==
  ASSUME Inv, Inv', More, NEW i \in DOMAIN nodes, NEW p \in Pics, ReplaceImage(i, p)
  PROVE  More'
<1>1. /\ Picture(p).kids = {} /\ Picture(p).main = None /\ Picture(p).kind = "image"
      /\ Picture(p).status = "idle"
  BY PictureSays DEF Single
<1> QED BY <1>1, ForgetMore DEF ReplaceImage, chainVars

LEMMA AgentUpdateMore ==
  ASSUME Inv, Inv', More, NEW i \in DOMAIN nodes, AgentUpdate(i)
  PROVE  More'
<1> DEFINE node == [Blank("image") EXCEPT !.status = nodes[i].status]
<1>1. node.kids = {} /\ node.main = None /\ node.kind = "image" /\ node.status = nodes[i].status
  <2>1. nodes[i] \in Node
    BY SourceOf
  <2>2. nodes[i].status \in {"idle", "loading", "error"}
    BY <2>1 DEF Node
  <2> QED BY <2>2, BlankSays DEF Kinds, Single
<1>2. nodes' = [nodes EXCEPT ![i] = node]
  BY DEF AgentUpdate, At
<1> HIDE DEF node
<1> QED BY <1>1, <1>2, ForgetMore DEF AgentUpdate, chainVars

LEMMA AgentDeleteMore ==
  ASSUME Inv, Inv', More, NEW S \in SUBSET DOMAIN nodes, AgentDelete(S)
  PROVE  More'
<1>1. /\ DOMAIN nodes' = DOMAIN nodes \ S /\ \A i \in DOMAIN nodes' : nodes'[i] = nodes[i]
      /\ made' = made /\ jobs' = jobs /\ tries' = tries /\ slips \subseteq slips'
      /\ "plucked" \notin slips' => \A i \in S : nodes[i].root \notin DOMAIN nodes \ S
  BY DEF AgentDelete, chainVars
<1>2. made \in Nat /\ made <= made' /\ made' \in Nat
  BY <1>1, Made DEF Inv
<1>3. KindsInv'
  <2>1. \A i \in DOMAIN nodes' : /\ nodes'[i].kind = "custom" => Plain(nodes'[i])
                                 /\ nodes'[i].kind = "config" => nodes'[i].kids = {}
    BY <1>1 DEF More, KindsInv
  <2> QED BY <1>1, <1>2, <2>1, KindsEdit DEF More
<1>4. FlatInv' /\ ShownInv'
  BY <1>1, <1>2, AgentDeleteArranged, ArrangedKept DEF More
<1>5. WholeInv'
  <2>1. ASSUME slips' \cap {"parted", "plucked"} = {}, NEW i \in DOMAIN nodes'
        PROVE  nodes[i].kids \cap S = {}
    <3>1. Agree(nodes)
      BY <1>1, <2>1 DEF Inv, NodesInv
    <3>2. \A k \in S : nodes[k].root \notin DOMAIN nodes \ S
      BY <1>1, <2>1
    <3> QED BY <1>1, <2>1, <3>1, <3>2 DEF Agree
  <2>2. slips' \cap {"parted", "plucked"} = {} =>
          \A i \in DOMAIN nodes' : nodes'[i].kids \cap DOMAIN nodes \subseteq DOMAIN nodes'
    BY <1>1, <2>1
  <2> QED BY <1>1, <2>2, WholeStep DEF More
<1>6. AwaitInv'
  BY <1>1, AwaitEdit DEF More
<1> QED BY <1>3, <1>4, <1>5, <1>6 DEF More

-----------------------------------------------------------------------------
(* One more step of a generation, and what it leaves to be awaited          *)

(* What is asked for, or is being drawn. *)
LEMMA AwaitStep ==
  ASSUME AwaitInv, slips \subseteq slips',
         \A i \in DOMAIN nodes' :
           nodes'[i].status = "loading" =>
             \/ i \in tries' \/ \E j \in jobs' : Awaits(j, i)'
             \/ /\ i \in DOMAIN nodes /\ nodes[i].status = "loading"
                /\ nodes'[i].main = nodes[i].main
                /\ i \in tries => i \in tries'
                /\ \A j \in jobs : j \notin jobs' => ~Awaits(j, i)
  PROVE  AwaitInv'
<1> SUFFICES ASSUME "picked" \notin slips', NEW i \in DOMAIN nodes', nodes'[i].status = "loading",
                    /\ i \in DOMAIN nodes /\ nodes[i].status = "loading"
                    /\ nodes'[i].main = nodes[i].main
                    /\ i \in tries => i \in tries'
                    /\ \A j \in jobs : j \notin jobs' => ~Awaits(j, i)
             PROVE  i \in tries' \/ \E j \in jobs' : Awaits(j, i)'
  BY DEF AwaitInv, Awaited
<1>1. i \in tries \/ \E j \in jobs : Awaits(j, i)
  BY DEF AwaitInv, Awaited
<1>2. ASSUME NEW j \in jobs, Awaits(j, i)
      PROVE  j \in jobs' /\ Awaits(j, i)'
  BY <1>2 DEF Awaits
<1> QED BY <1>1, <1>2

LEMMA GenerateMore ==
  ASSUME Inv, Inv', More, NEW s \in DOMAIN nodes, Generate(s)
  PROVE  More'
<1>1. PICK job : /\ jobs' = jobs \cup {job}
                 /\ job.source = s /\ job.at = "asked" /\ job.root = None /\ job.left = {} /\ ~job.won
                 /\ job.of = IF nodes[s].kind = "config" THEN "config"
                             ELSE IF nodes[s].pic = NoPic THEN "empty" ELSE "image"
  <2> DEFINE of == IF nodes[s].kind = "config" THEN "config"
                   ELSE IF nodes[s].pic = NoPic THEN "empty" ELSE "image"
             job == [source |-> s, at |-> "asked", root |-> None, left |-> {}, won |-> FALSE,
                     of |-> of]
  <2>1. jobs' = jobs \cup {job}
    BY DEF Generate
  <2>2. /\ job.source = s /\ job.at = "asked" /\ job.root = None /\ job.left = {} /\ ~job.won
        /\ job.of = of
    OBVIOUS
  <2> HIDE DEF job
  <2> QED BY <2>1, <2>2
<1>2. /\ nodes[s].kind # "custom" /\ tries' = tries /\ made' = made /\ slips' = slips
      /\ nodes' = IF nodes[s].kind = "config" THEN Status(s, "loading") ELSE nodes
  BY DEF Generate
<1>3. Calm
  BY GenerateCalm DEF More
<1>4. KindsInv'
  <2>1. \A t \in Targets' : t \in Targets \/ t = None \/ t = s
    BY <1>1, <1>2 DEF Targets
  <2>2. nodes[s].kind \in {"image", "config"}
    <3>1. nodes[s] \in Node
      BY SourceOf
    <3> QED BY <1>2, <3>1 DEF Node, Kinds
  <2>3. \A j \in jobs' : /\ j \in jobs \/ j = job
                         /\ j.at = "asked" => j.root = None /\ j.left = {} /\ ~j.won
    BY <1>1 DEF More, KindsInv
  <2>4. job.of = "empty" => nodes[s].kind = "image"
    BY <1>1, <2>2
  <2>5. \A j \in jobs' : j.of = "empty" =>
          \/ \E o \in jobs : o.of = "empty" /\ o.source = j.source
          \/ j.source \in DOMAIN nodes /\ nodes[j.source].kind = "image"
    BY <1>1, <2>3, <2>4
  <2> QED BY <1>2, <1>3, <2>1, <2>3, <2>5, KindsCalm DEF More
<1>5. FlatInv' /\ ShownInv' /\ WholeInv'
  <2>1. None \notin DOMAIN nodes'
    BY IdsAreNaturals DEF Inv, NodesInv, Canvas
  <2>2. \A j \in jobs' : j.root \in DOMAIN nodes' => \E o \in jobs : o.root = j.root
    BY <1>1, <2>1
  <2> QED BY <1>3, <2>2, CalmKept
<1>6. AwaitInv'
  <2>1. /\ DOMAIN nodes' = DOMAIN nodes
        /\ \A i \in DOMAIN nodes :
             /\ nodes'[i].main = nodes[i].main
             /\ i # s => nodes'[i].status = nodes[i].status
             /\ nodes[s].kind # "config" => nodes'[i].status = nodes[i].status
    <3>1. CASE nodes[s].kind = "config"
      <4>1. nodes' = Status(s, "loading")
        BY <1>2, <3>1
      <4> QED BY <3>1, <4>1, StatusSays DEF Same
    <3>2. CASE nodes[s].kind # "config"
      BY <1>2, <3>2
    <3> QED BY <3>1, <3>2
  <2>2. nodes[s].kind = "config" => job \in jobs' /\ Awaits(job, s)'
    BY <1>1 DEF Awaits
  <2> QED BY <1>1, <1>2, <2>1, <2>2, AwaitStep DEF More
<1> QED BY <1>4, <1>5, <1>6 DEF More

LEMMA GatherFailsMore ==
  ASSUME Inv, Inv', More, NEW j \in jobs, GatherFails(j)
  PROVE  More'
<1>1. /\ j.at = "asked" /\ jobs' = jobs \ {j} /\ tries' = tries /\ made' = made /\ slips' = slips
      /\ nodes' = IF j.of = "config" THEN Status(j.source, "error") ELSE nodes
      /\ j.root = None /\ j.left = {} /\ j.source \in Targets
  BY JobTargets DEF GatherFails, More, KindsInv
<1>2. Calm
  <2>1. CASE j.of = "config"
    BY <1>1, <2>1, FailsCalm DEF More
  <2>2. CASE j.of # "config"
    BY <1>1, <2>2, CalmStill
  <2> QED BY <2>1, <2>2
<1>3. KindsInv'
  <2>1. Targets' \subseteq Targets
    BY <1>1 DEF Targets
  <2>2. \A o \in jobs' : o.at = "asked" => o.root = None /\ o.left = {} /\ ~o.won
    BY <1>1 DEF More, KindsInv
  <2> QED BY <1>1, <1>2, <2>1, <2>2, KindsCalm DEF More
<1>4. FlatInv' /\ ShownInv' /\ WholeInv'
  BY <1>1, <1>2, CalmKept
<1>5. AwaitInv'
  <2>1. /\ DOMAIN nodes' = DOMAIN nodes
        /\ \A i \in DOMAIN nodes :
             /\ nodes'[i].main = nodes[i].main
             /\ nodes'[i].status = IF j.of = "config" /\ i = j.source THEN "error" ELSE nodes[i].status
    <3>1. CASE j.of = "config"
      <4>1. nodes' = Status(j.source, "error")
        BY <1>1, <3>1
      <4>2. /\ DOMAIN nodes' = DOMAIN nodes
            /\ \A k \in DOMAIN nodes :
                 /\ Same(nodes'[k], nodes[k])
                 /\ nodes'[k].status = IF k = j.source THEN "error" ELSE nodes[k].status
        BY <4>1, StatusSays
      <4> QED BY <3>1, <4>2 DEF Same
    <3>2. CASE j.of # "config"
      BY <1>1, <3>2
    <3> QED BY <3>1, <3>2
  <2>2. None \notin DOMAIN nodes
    BY IdsAreNaturals DEF Inv, NodesInv, Canvas
  <2>3. \A i \in DOMAIN nodes : Awaits(j, i) => j.of = "config" /\ i = j.source
    BY <1>1, <2>2 DEF Awaits
  <2> QED BY <1>1, <2>1, <2>3, AwaitStep DEF More
<1> QED BY <1>3, <1>4, <1>5 DEF More

LEMMA RetryMore ==
  ASSUME Inv, Inv', More, NEW i \in DOMAIN nodes, Retry(i)
  PROVE  More'
<1>1. /\ nodes[i].status = "error" /\ nodes' = Status(i, "loading") /\ tries' = tries \cup {i}
      /\ jobs' = jobs /\ made' = made /\ slips' = slips
  BY DEF Retry
<1>2. Calm /\ nodes[i].kind # "custom"
  BY <1>1, RetryCalm DEF More, KindsInv, Plain
<1>3. KindsInv'
  <2>1. \A t \in Targets' : t \in Targets \/ t = i
    BY <1>1 DEF Targets
  <2>2. \A o \in jobs' : o.at = "asked" => o.root = None /\ o.left = {} /\ ~o.won
    BY <1>1 DEF More, KindsInv
  <2> QED BY <1>1, <1>2, <2>1, <2>2, KindsCalm DEF More
<1>4. FlatInv' /\ ShownInv' /\ WholeInv'
  BY <1>1, <1>2, CalmKept
<1>5. AwaitInv'
  <2>1. /\ DOMAIN nodes' = DOMAIN nodes
        /\ \A k \in DOMAIN nodes :
             /\ Same(nodes'[k], nodes[k])
             /\ nodes'[k].status = IF k = i THEN "loading" ELSE nodes[k].status
    BY <1>1, StatusSays
  <2> QED BY <1>1, <2>1, AwaitStep DEF More, Same
<1> QED BY <1>3, <1>4, <1>5 DEF More

LEMMA TryFailsMore ==
  ASSUME Inv, Inv', More, NEW i \in tries, TryFails(i)
  PROVE  More'
<1>1. /\ nodes' = Status(i, "error") /\ tries' = tries \ {i}
      /\ jobs' = jobs /\ made' = made /\ slips' = slips /\ i \in Targets
  BY DEF TryFails, Targets
<1>2. Calm
  BY <1>1, FailsCalm DEF More
<1>3. KindsInv'
  <2>1. \A t \in Targets' : t \in Targets
    BY <1>1 DEF Targets
  <2>2. \A o \in jobs' : o.at = "asked" => o.root = None /\ o.left = {} /\ ~o.won
    BY <1>1 DEF More, KindsInv
  <2> QED BY <1>1, <1>2, <2>1, <2>2, KindsCalm DEF More
<1>4. FlatInv' /\ ShownInv' /\ WholeInv'
  BY <1>1, <1>2, CalmKept
<1>5. AwaitInv'
  <2>1. /\ DOMAIN nodes' = DOMAIN nodes
        /\ \A k \in DOMAIN nodes :
             /\ Same(nodes'[k], nodes[k])
             /\ nodes'[k].status = IF k = i THEN "error" ELSE nodes[k].status
    BY <1>1, StatusSays
  <2> QED BY <1>1, <2>1, AwaitStep DEF More, Same
<1> QED BY <1>3, <1>4, <1>5 DEF More

LEMMA AngleMore ==
  ASSUME Inv, Inv', More, NEW i, Angle(i)
  PROVE  More'
<1> DEFINE node == [Blank("image") EXCEPT !.status = "loading"]
<1>1. /\ Fresh(1) /\ nodes' = Added(nodes, [k \in {made'} |-> node]) /\ tries' = tries \cup {made'}
      /\ jobs' = jobs /\ slips' = slips
  BY DEF Angle
<1>2. node \in Sound /\ node.kind = "image"
  BY BlankSays DEF Kinds
<1> HIDE DEF node
<1>3. /\ made \in Nat /\ made' = made + 1 /\ DOMAIN nodes' = DOMAIN nodes \cup {made'}
      /\ made' \notin DOMAIN nodes /\ nodes'[made'] = node
      /\ \A k \in DOMAIN nodes : nodes'[k] = nodes[k]
  BY <1>1, <1>2, NewSays
<1>4. Calm
  BY AngleCalm
<1>5. KindsInv'
  <2>1. \A t \in Targets' : t \in Targets \/ t = made'
    BY <1>1 DEF Targets
  <2>2. made' \in (made + 1)..made' /\ nodes'[made'].kind # "custom"
    BY <1>2, <1>3
  <2>3. \A o \in jobs' : o.at = "asked" => o.root = None /\ o.left = {} /\ ~o.won
    BY <1>1 DEF More, KindsInv
  <2> QED BY <1>1, <1>4, <2>1, <2>2, <2>3, KindsCalm DEF More
<1>6. FlatInv' /\ ShownInv' /\ WholeInv'
  BY <1>1, <1>4, CalmKept
<1>7. AwaitInv'
  BY <1>1, <1>3, AwaitStep DEF More
<1> QED BY <1>5, <1>6, <1>7 DEF More

(* What a job becomes: all but what is left to answer stays. *)
LEMMA ResultFailsMore ==
  ASSUME Inv, Inv', More, NEW j \in jobs, NEW t \in j.left, ResultFails(j, t)
  PROVE  More'
<1>1. PICK job : /\ jobs' = (jobs \ {j}) \cup {job} /\ job.left = j.left \ {t}
                 /\ job.source = j.source /\ job.of = j.of /\ job.at = j.at /\ job.root = j.root
                 /\ job.won = j.won
  <2> DEFINE job == [j EXCEPT !.left = @ \ {t}]
  <2>1. jobs' = (jobs \ {j}) \cup {job}
    BY DEF ResultFails
  <2>2. /\ job.left = j.left \ {t}
        /\ job.source = j.source /\ job.of = j.of /\ job.at = j.at /\ job.root = j.root
        /\ job.won = j.won
    BY JobOf DEF Job
  <2> HIDE DEF job
  <2> QED BY <2>1, <2>2
<1>2. /\ nodes' = Status(t, "error") /\ tries' = tries /\ made' = made /\ slips' = slips
      /\ t \in Targets
  BY JobTargets DEF ResultFails
<1>3. Calm
  BY <1>2, FailsCalm DEF More
<1>4. KindsInv'
  <2>1. \A k \in Targets' : k \in Targets
    BY <1>1, <1>2 DEF Targets
  <2>2. \A o \in jobs' : o.at = "asked" => o.root = None /\ o.left = {} /\ ~o.won
    BY <1>1 DEF More, KindsInv
  <2> QED BY <1>1, <1>3, <2>1, <2>2, KindsCalm DEF More
<1>5. FlatInv' /\ ShownInv' /\ WholeInv'
  BY <1>1, <1>3, CalmKept
<1>6. AwaitInv'
  <2>1. /\ DOMAIN nodes' = DOMAIN nodes
        /\ \A k \in DOMAIN nodes :
             /\ Same(nodes'[k], nodes[k])
             /\ nodes'[k].status = IF k = t THEN "error" ELSE nodes[k].status
    BY <1>2, StatusSays
  <2>2. ASSUME NEW i \in DOMAIN nodes, i # t, Awaits(j, i)
        PROVE  job \in jobs' /\ Awaits(job, i)'
    BY <1>1, <2>1, <2>2 DEF Awaits, Same
  <2>3. \A i \in DOMAIN nodes' : nodes'[i].status = "loading" =>
          /\ i \in DOMAIN nodes /\ i # t /\ nodes[i].status = "loading"
          /\ nodes'[i].main = nodes[i].main
    BY <2>1 DEF Same
  <2> QED BY <1>1, <1>2, <2>2, <2>3, AwaitStep DEF More
<1> QED BY <1>4, <1>5, <1>6 DEF More

LEMMA EndJobMore ==
  ASSUME Inv, Inv', More, NEW j \in jobs, EndJob(j)
  PROVE  More'
<1>1. /\ Calm /\ DOMAIN nodes' = DOMAIN nodes
      /\ \A i \in DOMAIN nodes :
           nodes'[i].status = IF i = j.source /\ j.of \in {"config", "empty"}
                              THEN IF j.won THEN "idle" ELSE "error"
                              ELSE IF i = j.root /\ ~j.won THEN "error" ELSE nodes[i].status
  BY EndJobSays DEF More
<1>2. j.at = "drawing" /\ j.left = {} /\ jobs' = jobs \ {j} /\ tries' = tries
  BY DEF EndJob
<1>3. KindsInv'
  <2>1. \A k \in Targets' : k \in Targets
    BY <1>2 DEF Targets
  <2>2. \A o \in jobs' : o.at = "asked" => o.root = None /\ o.left = {} /\ ~o.won
    BY <1>2 DEF More, KindsInv
  <2> QED BY <1>1, <1>2, <2>1, <2>2, KindsCalm DEF More
<1>4. FlatInv' /\ ShownInv' /\ WholeInv'
  BY <1>1, <1>2, CalmKept
<1>5. AwaitInv'
  <2>1. \A i \in DOMAIN nodes : nodes'[i].status = "loading" =>
          nodes[i].status = "loading" /\ ~Awaits(j, i)
    BY <1>1, <1>2 DEF Awaits
  <2>2. \A i \in DOMAIN nodes : nodes'[i].main = nodes[i].main
    <3>1. ASSUME NEW i \in DOMAIN nodes
          PROVE  i \notin (made + 1)..made'
      BY Made DEF Inv, NodesInv, Grouped
    <3> QED BY <1>1, <3>1 DEF Calm, Same
  <2>3. slips \subseteq slips'
    BY <1>1 DEF Calm
  <2> QED BY <1>1, <1>2, <2>1, <2>2, <2>3, AwaitStep DEF More
<1> QED BY <1>3, <1>4, <1>5 DEF More

(* A picture comes for a node by itself. *)
LEMMA TryDoneMore ==
  ASSUME Inv, Inv', More, NEW i \in tries, NEW p \in Pics, TryDone(i, p)
  PROVE  More'
<1> DEFINE node == [nodes[i] EXCEPT !.kind = "image", !.pic = p, !.file = p, !.status = "idle"]
<1>1. /\ nodes' = At(i, node) /\ tries' = tries \ {i} /\ jobs' = jobs /\ made' = made
      /\ slips' = slips \cup Redrawn(i) /\ i \in Targets
  BY DEF TryDone, Targets
<1>2. i \in DOMAIN nodes =>
        /\ node.kind = "image" /\ node.status = "idle" /\ node.kids = nodes[i].kids
        /\ node.open = nodes[i].open /\ node.main = nodes[i].main /\ nodes[i].kind # "custom"
  BY <1>1, SourceOf, TargetSays DEF More, Node
<1> HIDE DEF node
<1>3. /\ DOMAIN nodes' = DOMAIN nodes
      /\ \A k \in DOMAIN nodes :
           /\ k # i => nodes'[k] = nodes[k]
           /\ k = i => /\ nodes'[k].kind = "image" /\ nodes'[k].status = "idle"
                       /\ nodes[k].kind # "custom"
           /\ nodes'[k].kids = nodes[k].kids /\ nodes'[k].open = nodes[k].open
           /\ nodes'[k].main = nodes[k].main
  BY <1>1, <1>2 DEF At
<1>4. made \in Nat /\ made <= made' /\ made' \in Nat
  BY <1>1, Made DEF Inv
<1>5. KindsInv'
  <2>1. \A t \in Targets' : t \in Targets
    BY <1>1 DEF Targets
  <2>2. \A o \in jobs' : o.at = "asked" => o.root = None /\ o.left = {} /\ ~o.won
    BY <1>1 DEF More, KindsInv
  <2>3. \A k \in DOMAIN nodes :
          /\ \/ nodes'[k].kind = nodes[k].kind
             \/ nodes[k].kind # "custom" /\ nodes'[k].kind = "image"
          /\ nodes'[k].kind = "custom" => Plain(nodes'[k])
          /\ nodes'[k].kind = "config" => nodes'[k].kids = {}
    BY <1>3 DEF More, KindsInv
  <2> QED BY <1>1, <1>3, <1>4, <2>1, <2>2, <2>3, KindsStep DEF More
<1>6. FlatInv'
  BY <1>1, <1>3, KeptFlat DEF More
<1>7. ShownInv'
  <2>1. ASSUME slips' \cap {"parted", "redrawn"} = {}, NEW r \in DOMAIN nodes', NEW m \in DOMAIN nodes',
               nodes'[r].main = m, m \in nodes'[r].kids, nodes'[m].pic # NoPic
        PROVE  nodes'[r].pic = nodes'[m].pic
    <3>1. m # None
      BY <1>3, IdsAreNaturals DEF Inv, NodesInv, Canvas
    <3>2. i # r /\ i # m
      BY <1>1, <1>3, <2>1, <3>1 DEF Redrawn
    <3>3. Shown(nodes)
      BY <1>1, <2>1 DEF More, ShownInv
    <3> QED BY <1>3, <2>1, <3>2, <3>3 DEF Shown, MainOf
  <2> QED BY <2>1 DEF ShownInv, Shown, MainOf
<1>8. WholeInv'
  BY <1>1, <1>3, WholeStep DEF More
<1>9. AwaitInv'
  BY <1>1, <1>3, AwaitStep DEF More
<1> QED BY <1>5, <1>6, <1>7, <1>8, <1>9 DEF More

LEMMA ResultSays ==
  ASSUME Inv, NEW j \in jobs, NEW t \in j.left, NEW p \in Pics, Result(j, t, p)
  PROVE  /\ DOMAIN nodes' = DOMAIN nodes
         /\ \A i \in DOMAIN nodes :
              /\ nodes'[i].kind = nodes[i].kind /\ nodes'[i].kids = nodes[i].kids
              /\ nodes'[i].open = nodes[i].open
              /\ nodes'[i].status \in {"idle", nodes[i].status}
              /\ nodes'[i].pic = IF (i = j.root /\ ShownFirst(j.root, t)) \/ i = t THEN p
                                 ELSE nodes[i].pic
              /\ nodes'[i].main = IF i = j.root /\ ShownFirst(j.root, t) THEN t ELSE nodes[i].main
              /\ i = j.root /\ ShownFirst(j.root, t) => nodes'[i].status = "idle"
              /\ i = t \/ (i = j.source /\ j.of = "config") => nodes'[i].status = "idle"
<1>1. DOMAIN nodes' = DOMAIN nodes
  BY DEF Result
<1>2. ASSUME NEW i \in DOMAIN nodes
      PROVE  /\ nodes'[i].kind = nodes[i].kind /\ nodes'[i].kids = nodes[i].kids
             /\ nodes'[i].open = nodes[i].open
             /\ nodes'[i].status \in {"idle", nodes[i].status}
             /\ nodes'[i].pic = IF (i = j.root /\ ShownFirst(j.root, t)) \/ i = t THEN p
                                ELSE nodes[i].pic
             /\ nodes'[i].main = IF i = j.root /\ ShownFirst(j.root, t) THEN t ELSE nodes[i].main
             /\ i = j.root /\ ShownFirst(j.root, t) => nodes'[i].status = "idle"
             /\ i = t \/ (i = j.source /\ j.of = "config") => nodes'[i].status = "idle"
  <2> DEFINE pictured == [nodes[i] EXCEPT !.pic = p, !.file = p, !.status = "idle"]
             shown == i = j.root /\ ShownFirst(j.root, t)
  <2>1. nodes[i] \in Node
    BY SourceOf
  <2>2. nodes'[i] = IF shown THEN [pictured EXCEPT !.main = t]
                    ELSE IF i = t THEN pictured
                    ELSE IF i = j.source /\ j.of = "config" THEN [nodes[i] EXCEPT !.status = "idle"]
                    ELSE nodes[i]
    BY DEF Result
  <2> HIDE DEF shown
  <2>3. CASE shown
    BY <2>1, <2>2, <2>3 DEF Node, shown
  <2>4. CASE ~shown /\ i = t
    BY <2>1, <2>2, <2>4 DEF Node, shown
  <2>5. CASE ~shown /\ i # t /\ i = j.source /\ j.of = "config"
    BY <2>1, <2>2, <2>5 DEF Node, shown
  <2>6. CASE ~shown /\ i # t /\ ~(i = j.source /\ j.of = "config")
    BY <2>2, <2>6 DEF shown
  <2> QED BY <2>3, <2>4, <2>5, <2>6
<1> QED BY <1>1, <1>2

(* An answer of a batch: its root, which no stack lists, shows the first.   *)
LEMMA ResultMore ==
  ASSUME Inv, Inv', More, NEW j \in jobs, NEW t \in j.left, NEW p \in Pics, Result(j, t, p)
  PROVE  More'
<1>1. PICK job : /\ jobs' = (jobs \ {j}) \cup {job} /\ job.left = j.left \ {t}
                 /\ job.source = j.source /\ job.of = j.of /\ job.at = j.at /\ job.root = j.root
  <2> DEFINE job == [j EXCEPT !.left = @ \ {t}, !.won = TRUE]
  <2>1. jobs' = (jobs \ {j}) \cup {job}
    BY DEF Result
  <2>2. /\ job.left = j.left \ {t}
        /\ job.source = j.source /\ job.of = j.of /\ job.at = j.at /\ job.root = j.root
    BY JobOf DEF Job
  <2> HIDE DEF job
  <2> QED BY <2>1, <2>2
<1>2. /\ tries' = tries /\ made' = made /\ slips' = slips \cup Redrawn(t) /\ t \in Targets
      /\ j.at # "asked"
  BY JobTargets DEF Result, More, KindsInv
<1>3. /\ DOMAIN nodes' = DOMAIN nodes
      /\ \A i \in DOMAIN nodes :
           /\ nodes'[i].kind = nodes[i].kind /\ nodes'[i].kids = nodes[i].kids
           /\ nodes'[i].open = nodes[i].open
           /\ nodes'[i].status \in {"idle", nodes[i].status}
           /\ nodes'[i].pic = IF (i = j.root /\ ShownFirst(j.root, t)) \/ i = t THEN p
                              ELSE nodes[i].pic
           /\ nodes'[i].main = IF i = j.root /\ ShownFirst(j.root, t) THEN t ELSE nodes[i].main
           /\ i = j.root /\ ShownFirst(j.root, t) => nodes'[i].status = "idle"
           /\ i = t \/ (i = j.source /\ j.of = "config") => nodes'[i].status = "idle"
  BY ResultSays
<1>4. made \in Nat /\ made <= made' /\ made' \in Nat
  BY <1>2, Made DEF Inv
<1>5. \A i \in DOMAIN nodes : i = j.root => nodes[i].kind # "custom"
  BY JobTargets, TargetSays DEF More
<1>6. KindsInv'
  <2>1. \A k \in Targets' : k \in Targets
    BY <1>1, <1>2 DEF Targets
  <2>2. \A o \in jobs' : o.at = "asked" => o.root = None /\ o.left = {} /\ ~o.won
    BY <1>1, <1>2 DEF More, KindsInv
  <2>3. \A k \in DOMAIN nodes : /\ nodes'[k].kind = "custom" => Plain(nodes'[k])
                                /\ nodes'[k].kind = "config" => nodes'[k].kids = {}
    BY <1>3, <1>5 DEF More, KindsInv, Plain
  <2> QED BY <1>1, <1>3, <1>4, <2>1, <2>2, <2>3, KindsStep DEF More
<1>7. FlatInv'
  <2>1. slips \subseteq slips' /\ \A o \in jobs' : \E q \in jobs : q.root = o.root
    BY <1>1, <1>2
  <2>2. \A i \in DOMAIN nodes : nodes'[i].kind = nodes[i].kind /\ nodes'[i].kids = nodes[i].kids
    BY <1>3
  <2> QED BY <1>2, <1>3, <2>1, <2>2, KeptFlat DEF More
<1>8. ShownInv'
  <2>1. ASSUME slips' \cap {"parted", "redrawn"} = {}, NEW r \in DOMAIN nodes', NEW m \in DOMAIN nodes',
               nodes'[r].main = m, m \in nodes'[r].kids, nodes'[m].pic # NoPic
        PROVE  nodes'[r].pic = nodes'[m].pic
    <3>1. m # None /\ r \in DOMAIN nodes /\ m \in DOMAIN nodes /\ m \in nodes[r].kids
      BY <1>3, <2>1, IdsAreNaturals DEF Inv, NodesInv, Canvas
    <3>2. Shown(nodes) /\ Free
      BY <1>2, <2>1 DEF More, ShownInv, FlatInv
    <3>3. CASE r = j.root /\ ShownFirst(j.root, t)
      BY <1>3, <2>1, <3>1, <3>3
    <3>4. CASE ~(r = j.root /\ ShownFirst(j.root, t))
      <4>1. nodes[r].main = m
        BY <1>3, <2>1, <3>1, <3>4
      <4>2. t # r /\ t # m
        BY <1>2, <2>1, <3>1, <4>1 DEF Redrawn
      <4>3. nodes[r].kind # "custom"
        BY <3>1, <4>1 DEF More, KindsInv, Plain
      <4>4. m # j.root
        BY <3>1, <3>2, <4>3 DEF Free
      <4>5. nodes'[r].pic = nodes[r].pic /\ nodes'[m].pic = nodes[m].pic
        BY <1>3, <3>1, <3>4, <4>2, <4>4
      <4> QED BY <2>1, <3>1, <3>2, <4>1, <4>5 DEF Shown, MainOf
    <3> QED BY <3>3, <3>4
  <2> QED BY <2>1 DEF ShownInv, Shown, MainOf
<1>9. WholeInv'
  <2>1. \A i \in DOMAIN nodes : /\ nodes'[i].kind = nodes[i].kind /\ nodes'[i].kids = nodes[i].kids
                                /\ nodes'[i].open = nodes[i].open
    BY <1>3
  <2> QED BY <1>2, <1>3, <2>1, WholeStep DEF More
<1>10. AwaitInv'
  <2>1. ASSUME NEW i \in DOMAIN nodes, nodes'[i].status = "loading"
        PROVE  /\ nodes[i].status = "loading" /\ nodes'[i].main = nodes[i].main
               /\ i # t /\ ~(i = j.source /\ j.of = "config")
               /\ ~(i = j.root /\ nodes[i].main = None)
    <3>1. ~(i = j.root /\ ShownFirst(j.root, t)) /\ i # t /\ ~(i = j.source /\ j.of = "config")
      BY <1>3, <2>1
    <3>2. nodes[i].status = "loading" /\ nodes'[i].main = nodes[i].main
      BY <1>3, <2>1, <3>1
    <3> QED BY <3>1, <3>2 DEF ShownFirst
  <2>2. ASSUME NEW i \in DOMAIN nodes, nodes'[i].status = "loading", Awaits(j, i)
        PROVE  job \in jobs' /\ Awaits(job, i)'
    BY <1>1, <1>2, <2>1, <2>2 DEF Awaits
  <2> QED BY <1>1, <1>2, <1>3, <2>1, <2>2, AwaitStep DEF More
<1> QED BY <1>6, <1>7, <1>8, <1>9, <1>10 DEF More

(* The nodes of a batch of j: its root r and, if several are asked for, K,  *)
(* which the root lists; it is job then.                                   *)
LaidOut(j, job, r, K) ==
  /\ made \in Nat /\ made' \in Nat /\ made <= made' /\ tries' = tries
  /\ slips' = slips \cup (IF j.of = "empty" THEN Parted(j.source) ELSE {})
  /\ K \subseteq (made + 1)..made' /\ r \notin K
  /\ IF j.of = "empty" THEN r = j.source ELSE r \in (made + 1)..made'
  /\ jobs' = (jobs \ {j}) \cup {job}
  /\ job.source = j.source /\ job.of = j.of /\ job.won = j.won /\ job.at = "drawing" /\ job.root = r
  /\ job.left = IF K = {} THEN {r} ELSE K
  /\ DOMAIN nodes' = DOMAIN nodes \cup K \cup ({r} \ {j.source})
  /\ \A i \in K : /\ nodes'[i].kind = "image" /\ nodes'[i].kids = {} /\ nodes'[i].main = None
                  /\ nodes'[i].pic = NoPic /\ ~nodes'[i].open
  /\ r \in DOMAIN nodes' => /\ nodes'[r].kids = K /\ (K # {} => nodes'[r].open)
                            /\ nodes'[r].kind = IF r \in DOMAIN nodes THEN nodes[r].kind ELSE "image"
                            /\ nodes'[r].main = IF r \in DOMAIN nodes THEN nodes[r].main ELSE None
  /\ \A i \in DOMAIN nodes \ {r} :
       /\ Same(nodes'[i], nodes[i])
       /\ nodes'[i].status = IF i # j.source THEN nodes[i].status
                             ELSE IF j.of = "config" THEN "loading" ELSE "idle"

LEMMA LayOutSays ==
  ASSUME Inv, NEW j \in jobs, NEW count \in Nat \ {0}, LayOut(j, count)
  PROVE  \E job, r, K : LaidOut(j, job, r, K)
<1> DEFINE empty == j.of = "empty"
           root == IF empty THEN j.source ELSE made + 1
           rest == IF empty THEN made ELSE made + 1
           last == IF count = 1 THEN rest ELSE rest + count
           kids == (rest + 1)..last
           Drawn(n) == [n EXCEPT !.status = "loading", !.rooted = (count > 1), !.kids = kids,
                                 !.open = (count > 1)]
           child == [Blank("image") EXCEPT !.status = "loading", !.root = root]
           new == [i \in kids \cup ({root} \ {j.source}) |->
                     IF i = root THEN Drawn(Blank("image")) ELSE child]
           its == IF empty THEN Drawn(nodes[j.source])
                  ELSE [nodes[j.source] EXCEPT !.status =
                          IF j.of = "config" THEN "loading" ELSE "idle"]
           job == [j EXCEPT !.at = "drawing", !.root = root,
                            !.left = IF count = 1 THEN {root} ELSE kids]
           f == At(j.source, its)
<1>1. /\ Fresh(last - made) /\ nodes' = Added(f, new) /\ jobs' = (jobs \ {j}) \cup {job}
      /\ slips' = slips \cup (IF empty THEN Parted(j.source) ELSE {}) /\ tries' = tries
  BY DEF LayOut
<1>2. /\ made \in Nat /\ DOMAIN nodes \subseteq 1..made /\ j \in Job /\ j.source \in 1..made
  BY Made, JobOf DEF Inv, NodesInv, Grouped
<1>3. /\ last \in Nat /\ rest \in Nat /\ made <= rest /\ rest <= last /\ rest <= made + 1
      /\ made' = last
      /\ count = 1 => last = rest
      /\ count # 1 => rest < last
  <2>1. rest \in Nat /\ made <= rest /\ rest <= made + 1
    BY <1>2
  <2>2. /\ last \in Nat /\ rest <= last
        /\ count = 1 => last = rest
        /\ count # 1 => rest < last
    <3> HIDE DEF rest
    <3> QED BY <2>1
  <2>3. made' = last
    <3> HIDE DEF last, rest
    <3> QED BY <1>1, <1>2, <2>1, <2>2 DEF Fresh
  <2> QED BY <2>1, <2>2, <2>3
<1>4. /\ kids \subseteq (made + 1)..made' /\ root \notin kids
      /\ count = 1 <=> kids = {}
      /\ ~empty => root \in (made + 1)..made' /\ root # j.source /\ root \notin DOMAIN nodes
      /\ empty => root = j.source
      /\ \A i \in kids : i \notin DOMAIN nodes
  <2>1. /\ root \in Nat /\ root <= rest /\ (empty => root = j.source)
        /\ ~empty => root = made + 1 /\ rest = made + 1
    <3> HIDE DEF last, kids
    <3> QED BY <1>2, <1>3
  <2> HIDE DEF last, rest, root
  <2>2. ASSUME NEW i \in kids
        PROVE  i \in (made + 1)..made' /\ i # root /\ i \notin DOMAIN nodes
    <3>1. i \in Nat /\ i > rest /\ i <= last
      BY <1>3
    <3> QED BY <1>2, <1>3, <2>1, <3>1
  <2>3. count = 1 <=> kids = {}
    <3>1. count # 1 => last \in kids
      BY <1>3
    <3>2. count = 1 => kids = {}
      BY <1>3
    <3> HIDE DEF kids
    <3> QED BY <3>1, <3>2
  <2>4. ~empty => root \in (made + 1)..made' /\ root # j.source /\ root \notin DOMAIN nodes
    BY <1>2, <1>3, <2>1
  <2> HIDE DEF kids, empty
  <2> QED BY <2>1, <2>2, <2>3, <2>4
<1>5. count > 1 <=> kids # {}
  <2>1. count = 1 <=> kids = {}
    BY <1>4
  <2>2. count > 1 <=> count # 1
    OBVIOUS
  <2> HIDE DEF kids
  <2> QED BY <2>1, <2>2
<1> HIDE DEF root, rest, last, kids
<1>6. ASSUME NEW n \in Node
      PROVE  /\ Drawn(n).kids = kids /\ (kids # {} => Drawn(n).open) /\ Drawn(n).kind = n.kind
             /\ Drawn(n).main = n.main
  BY <1>5, <1>6 DEF Node
<1>7. Drawn(Blank("image")).kind = "image" /\ Drawn(Blank("image")).main = None
      /\ Drawn(Blank("image")).kids = kids /\ (kids # {} => Drawn(Blank("image")).open)
  <2>1. Blank("image") \in Node /\ Blank("image").kind = "image" /\ Blank("image").main = None
    BY BlankIsSound DEF Kinds, Sound, Blank
  <2> HIDE DEF Drawn
  <2> QED BY <1>6, <2>1
<1>8. /\ child.kind = "image" /\ child.kids = {} /\ child.main = None /\ child.pic = NoPic
      /\ ~child.open
  BY DEF Blank
<1>9. /\ job.source = j.source /\ job.of = j.of /\ job.won = j.won /\ job.at = "drawing"
      /\ job.root = root /\ job.left = IF kids = {} THEN {root} ELSE kids
  <2>1. /\ job.source = j.source /\ job.of = j.of /\ job.won = j.won /\ job.at = "drawing"
        /\ job.root = root /\ job.left = IF count = 1 THEN {root} ELSE kids
    BY <1>2 DEF Job
  <2> HIDE DEF job
  <2> QED BY <1>4, <2>1
<1>10. j.source \in DOMAIN nodes =>
         /\ empty => /\ its.kids = kids /\ (kids # {} => its.open) /\ its.kind = nodes[j.source].kind
                     /\ its.main = nodes[j.source].main
         /\ ~empty => /\ Same(its, nodes[j.source])
                      /\ its.status = IF j.of = "config" THEN "loading" ELSE "idle"
  <2>1. j.source \in DOMAIN nodes => nodes[j.source] \in Node
    BY SourceOf
  <2>2. CASE empty
    <3> HIDE DEF Drawn, empty
    <3> QED BY <1>6, <2>1, <2>2
  <2>3. CASE ~empty
    <3> HIDE DEF empty, Drawn
    <3>1. its = [nodes[j.source] EXCEPT !.status = IF j.of = "config" THEN "loading" ELSE "idle"]
      BY <2>3
    <3> HIDE DEF its
    <3> QED BY <2>1, <2>3, <3>1 DEF Node, Same
  <2> QED BY <2>2, <2>3
<1> HIDE DEF Drawn, child, its, job
<1>11. DOMAIN new = kids \cup ({root} \ {j.source})
       /\ \A i \in DOMAIN new : new[i] = IF i = root THEN Drawn(Blank("image")) ELSE child
  OBVIOUS
<1>12. DOMAIN f = DOMAIN nodes
       /\ \A k \in DOMAIN nodes : f[k] = IF k = j.source THEN its ELSE nodes[k]
  BY DEF At
<1> HIDE DEF new, f
<1>13. /\ DOMAIN nodes' = DOMAIN nodes \cup kids \cup ({root} \ {j.source})
       /\ \A i \in DOMAIN new : nodes'[i] = new[i]
       /\ \A i \in DOMAIN nodes \ DOMAIN new : nodes'[i] = f[i]
  BY <1>1, <1>11, <1>12 DEF Added
<1> HIDE DEF empty
<1>14. ASSUME NEW i \in kids
       PROVE  /\ nodes'[i].kind = "image" /\ nodes'[i].kids = {} /\ nodes'[i].main = None
              /\ nodes'[i].pic = NoPic /\ ~nodes'[i].open
  <2>1. nodes'[i] = child
    BY <1>4, <1>11, <1>13
  <2> QED BY <1>8, <2>1
<1>15. ASSUME root \in DOMAIN nodes'
       PROVE  /\ nodes'[root].kids = kids /\ (kids # {} => nodes'[root].open)
              /\ nodes'[root].kind = IF root \in DOMAIN nodes THEN nodes[root].kind ELSE "image"
              /\ nodes'[root].main = IF root \in DOMAIN nodes THEN nodes[root].main ELSE None
  <2>1. CASE empty
    <3>1. root = j.source /\ root \in DOMAIN nodes /\ root \notin DOMAIN new
      BY <1>4, <1>11, <1>13, <1>15, <2>1
    <3>2. nodes'[root] = its
      BY <1>12, <1>13, <3>1
    <3> QED BY <1>10, <2>1, <3>1, <3>2
  <2>2. CASE ~empty
    <3>1. nodes'[root] = Drawn(Blank("image")) /\ root \notin DOMAIN nodes
      BY <1>4, <1>11, <1>13, <2>2
    <3> QED BY <1>7, <3>1
  <2> QED BY <2>1, <2>2
<1>16. ASSUME NEW i \in DOMAIN nodes \ {root}
       PROVE  /\ Same(nodes'[i], nodes[i])
              /\ nodes'[i].status = IF i # j.source THEN nodes[i].status
                                    ELSE IF j.of = "config" THEN "loading" ELSE "idle"
  <2>1. i \notin DOMAIN new
    BY <1>4, <1>11
  <2>2. nodes'[i] = IF i = j.source THEN its ELSE nodes[i]
    BY <1>12, <1>13, <2>1
  <2>3. CASE i = j.source
    <3>1. ~empty
      BY <1>4, <2>3
    <3> QED BY <1>10, <2>2, <2>3, <3>1
  <2>4. CASE i # j.source
    BY <2>2, <2>4 DEF Same
  <2> QED BY <2>3, <2>4
<1>17. made' \in Nat /\ made <= made'
  BY <1>2, <1>3
<1>18. IF j.of = "empty" THEN root = j.source ELSE root \in (made + 1)..made'
  BY <1>4 DEF empty
<1>19. slips' = slips \cup (IF j.of = "empty" THEN Parted(j.source) ELSE {})
  BY <1>1 DEF empty
<1>20. LaidOut(j, job, root, kids)
  BY <1>1, <1>2, <1>4, <1>9, <1>13, <1>14, <1>15, <1>16, <1>17, <1>18, <1>19 DEF LaidOut
<1> QED BY <1>20

(* A generation is put on the canvas: several results are the stack of a    *)
(* node in no group, and are seen.                                         *)
LEMMA LayOutMore ==
  ASSUME Inv, Inv', More, NEW j \in jobs, NEW count \in Nat \ {0}, LayOut(j, count)
  PROVE  More'
<1>1. PICK job, r, K : LaidOut(j, job, r, K)
  BY LayOutSays
<1>2. /\ made \in Nat /\ made' \in Nat /\ made <= made' /\ tries' = tries
      /\ slips' = slips \cup (IF j.of = "empty" THEN Parted(j.source) ELSE {})
      /\ K \subseteq (made + 1)..made' /\ r \notin K
      /\ IF j.of = "empty" THEN r = j.source ELSE r \in (made + 1)..made'
      /\ jobs' = (jobs \ {j}) \cup {job}
      /\ job.source = j.source /\ job.of = j.of /\ job.won = j.won /\ job.at = "drawing" /\ job.root = r
      /\ job.left = IF K = {} THEN {r} ELSE K
  BY <1>1 DEF LaidOut
<1>3. /\ DOMAIN nodes' = DOMAIN nodes \cup K \cup ({r} \ {j.source})
      /\ \A i \in K : /\ nodes'[i].kind = "image" /\ nodes'[i].kids = {} /\ nodes'[i].main = None
                      /\ nodes'[i].pic = NoPic /\ ~nodes'[i].open
      /\ r \in DOMAIN nodes' => /\ nodes'[r].kids = K /\ (K # {} => nodes'[r].open)
                                /\ nodes'[r].kind = IF r \in DOMAIN nodes THEN nodes[r].kind ELSE "image"
                                /\ nodes'[r].main = IF r \in DOMAIN nodes THEN nodes[r].main ELSE None
      /\ \A i \in DOMAIN nodes \ {r} :
           /\ Same(nodes'[i], nodes[i])
           /\ nodes'[i].status = IF i # j.source THEN nodes[i].status
                                 ELSE IF j.of = "config" THEN "loading" ELSE "idle"
  BY <1>1 DEF LaidOut
<1>4. /\ DOMAIN nodes \subseteq 1..made /\ \A q \in DOMAIN nodes : nodes[q].kids \subseteq 1..made
      /\ Targets \subseteq 0..made
      /\ \A i \in (made + 1)..made' : i \notin DOMAIN nodes /\ i \notin 0..made
  BY <1>2 DEF Inv, NodesInv, Grouped, More, KindsInv
<1>5. r \in DOMAIN nodes => r = j.source /\ j.of = "empty" /\ nodes[r].kind = "image"
  BY <1>2, <1>4 DEF More, KindsInv
<1>6. \A i \in DOMAIN nodes' : i \in K \/ i = r \/ i \in DOMAIN nodes \ {r}
  BY <1>3
<1>7. j.source \in Targets /\ \A i \in DOMAIN nodes : i = j.source => nodes[i].kind # "custom"
  BY JobTargets, TargetSays DEF More
<1>8. r \in DOMAIN nodes' => nodes'[r].kind = "image"
  BY <1>3, <1>5
<1>9. KindsInv'
  <2>1. \A t \in Targets' : \/ t \in Targets \/ t = None \/ t \in (made + 1)..made'
                            \/ t \in DOMAIN nodes /\ nodes[t].kind # "custom"
    <3>1. r \in Targets \cup (made + 1)..made' /\ job.left \subseteq {r} \cup K
      BY <1>2, <1>7
    <3> QED BY <1>2, <1>7, <3>1 DEF Targets
  <2>2. \A o \in jobs' : o.at = "asked" => o.root = None /\ o.left = {} /\ ~o.won
    BY <1>2 DEF More, KindsInv
  <2>3. \A o \in jobs' : \E q \in jobs : q.of = o.of /\ q.source = o.source
    BY <1>2
  <2>4. ASSUME NEW i \in DOMAIN nodes'
        PROVE  /\ \/ i \in DOMAIN nodes /\ nodes'[i].kind = nodes[i].kind
                  \/ i \in (made + 1)..made' /\ (nodes'[i].kind = "custom" => i \notin Targets')
               /\ nodes'[i].kind = "custom" => Plain(nodes'[i])
               /\ nodes'[i].kind = "config" => nodes'[i].kids = {}
    <3>1. CASE i \in K
      BY <1>2, <1>3, <3>1
    <3>2. CASE i = r
      <4>1. nodes'[i].kind = "image"
        BY <1>8, <2>4, <3>2
      <4>2. i \in DOMAIN nodes => nodes'[i].kind = nodes[i].kind
        BY <1>5, <3>2, <4>1
      <4>3. i \notin DOMAIN nodes => i \in (made + 1)..made'
        BY <1>2, <1>3, <2>4, <3>2
      <4> QED BY <4>1, <4>2, <4>3
    <3>3. CASE i \in DOMAIN nodes \ {r}
      <4>1. /\ Same(nodes'[i], nodes[i])
            /\ i # j.source => nodes'[i].status = nodes[i].status
            /\ nodes[i].kind = "custom" => i # j.source
        BY <1>3, <1>7, <3>3
      <4>2. /\ nodes[i].kind = "custom" => Plain(nodes[i])
            /\ nodes[i].kind = "config" => nodes[i].kids = {}
        BY <3>3 DEF More, KindsInv
      <4> QED BY <3>3, <4>1, <4>2 DEF Same, Plain
    <3> QED BY <1>6, <3>1, <3>2, <3>3
  <2> QED BY <1>2, <2>1, <2>2, <2>3, <2>4, KindsStep DEF More
<1>10. ASSUME "parted" \notin slips', NEW q \in DOMAIN nodes', r \in DOMAIN nodes'
       PROVE  r \notin nodes'[q].kids
  <2>1. CASE q \in K \/ q = r
    BY <1>2, <1>3, <1>10, <2>1
  <2>2. CASE q \in DOMAIN nodes \ {r}
    <3>1. nodes'[q].kids = nodes[q].kids
      BY <1>3, <2>2 DEF Same
    <3>2. CASE r \in DOMAIN nodes
      <4>1. Agree(nodes) /\ "parted" \notin Parted(r)
        BY <1>2, <1>5, <1>10, <3>2 DEF Inv, NodesInv
      <4> QED BY <2>2, <3>1, <3>2, <4>1, NoGroup
    <3>3. CASE r \notin DOMAIN nodes
      <4>1. r \in (made + 1)..made'
        BY <1>2, <1>3, <1>10, <3>3
      <4> QED BY <1>4, <2>2, <3>1, <4>1
    <3> QED BY <3>2, <3>3
  <2> QED BY <1>6, <2>1, <2>2
<1>11. FlatInv'
  <2> SUFFICES ASSUME "parted" \notin slips'
               PROVE  Flat(nodes') /\ Free'
    BY DEF FlatInv
  <2>1. Flat(nodes) /\ Free
    BY <1>2 DEF More, FlatInv
  <2>2. ASSUME NEW q \in DOMAIN nodes', NEW k \in nodes'[q].kids \cap DOMAIN nodes'
        PROVE  nodes'[k].kids = {} /\ nodes'[k].kind # "custom"
    <3>1. k # r
      BY <1>10, <2>2
    <3>2. CASE k \in K
      BY <1>3, <3>2
    <3>3. CASE k \in DOMAIN nodes \ {r}
      <4>1. q \in DOMAIN nodes \ {r} /\ k \in nodes[q].kids
        BY <1>2, <1>3, <1>4, <1>6, <2>2, <3>3 DEF Same
      <4> QED BY <1>3, <2>1, <3>3, <4>1 DEF Flat, Same
    <3> QED BY <1>6, <3>1, <3>2, <3>3
  <2>3. ASSUME NEW o \in jobs', NEW q \in DOMAIN nodes', nodes'[q].kind # "custom",
               o.root \in DOMAIN nodes'
        PROVE  o.root \notin nodes'[q].kids
    <3>1. CASE o.root = r
      BY <1>10, <2>3, <3>1
    <3>2. CASE o.root # r
      <4>1. o \in jobs /\ o.root \in Targets
        BY <1>2, <2>3, <3>2, JobTargets
      <4>2. o.root \in DOMAIN nodes /\ o.root \notin K
        BY <1>2, <1>3, <1>4, <2>3, <3>2, <4>1
      <4>3. CASE q \in K \/ q = r
        BY <1>3, <2>3, <4>2, <4>3
      <4>4. CASE q \in DOMAIN nodes \ {r}
        <5>1. nodes'[q].kids = nodes[q].kids /\ nodes'[q].kind = nodes[q].kind
          BY <1>3, <4>4 DEF Same
        <5> QED BY <2>1, <2>3, <4>1, <4>2, <4>4, <5>1 DEF Free
      <4> QED BY <1>6, <4>3, <4>4
    <3> QED BY <3>1, <3>2
  <2> QED BY <2>2, <2>3 DEF Flat, Free
<1>12. ShownInv'
  <2>1. ASSUME slips' \cap {"parted", "redrawn"} = {}, NEW q \in DOMAIN nodes', NEW m \in DOMAIN nodes',
               nodes'[q].main = m, m \in nodes'[q].kids, nodes'[m].pic # NoPic
        PROVE  nodes'[q].pic = nodes'[m].pic
    <3>1. Shown(nodes) /\ m # r /\ m \notin K
      BY <1>2, <1>3, <1>10, <2>1 DEF More, ShownInv
    <3>2. m \in DOMAIN nodes \ {r} /\ q \in DOMAIN nodes \ {r}
      BY <1>3, <1>6, <2>1, <3>1
    <3>3. Same(nodes'[q], nodes[q]) /\ Same(nodes'[m], nodes[m])
      BY <1>3, <3>2
    <3> QED BY <2>1, <3>1, <3>2, <3>3 DEF Shown, MainOf, Same
  <2> QED BY <2>1 DEF ShownInv, Shown, MainOf
<1>13. WholeInv'
  <2>1. ASSUME NEW i \in DOMAIN nodes'
        PROVE  \/ i \in DOMAIN nodes /\ Same(nodes'[i], nodes[i])
               \/ nodes'[i].kids \subseteq DOMAIN nodes' /\ Seen(nodes'[i])
    <3>1. CASE i \in K
      BY <1>3, <3>1 DEF Seen
    <3>2. CASE i = r
      BY <1>3, <2>1, <3>2 DEF Seen
    <3> QED BY <1>3, <1>6, <3>1, <3>2
  <2>2. DOMAIN nodes \subseteq DOMAIN nodes' /\ slips \subseteq slips'
    BY <1>2, <1>3
  <2> QED BY <2>1, <2>2, WholeStep DEF More, Same
<1>14. AwaitInv'
  <2>1. ASSUME NEW i \in K \cup {r}, i \in DOMAIN nodes'
        PROVE  Awaits(job, i)'
    <3>1. CASE i \in K
      BY <1>2, <3>1 DEF Awaits
    <3>2. CASE i = r /\ K = {}
      BY <1>2, <3>2 DEF Awaits
    <3>3. CASE i = r /\ r \in DOMAIN nodes
      BY <1>2, <1>5, <3>3 DEF Awaits
    <3>4. CASE i = r /\ r \notin DOMAIN nodes
      <4>1. ~job.won /\ nodes'[r].main = None
        <5>1. nodes'[r].main = None
          BY <1>3, <2>1, <3>4
        <5>2. j.at = "asked" /\ job.won = j.won
          BY <1>2 DEF LayOut
        <5> QED BY <5>1, <5>2 DEF More, KindsInv
      <4> QED BY <1>2, <3>4, <4>1 DEF Awaits
    <3> QED BY <2>1, <3>1, <3>2, <3>3, <3>4
  <2>2. ASSUME NEW i \in DOMAIN nodes \ {r}, i = j.source, nodes'[i].status = "loading"
        PROVE  Awaits(job, i)'
    <3>1. j.of = "config"
      BY <1>3, <2>2
    <3> QED BY <1>2, <2>2, <3>1 DEF Awaits
  <2>3. ASSUME NEW i \in DOMAIN nodes \ {r}, i # j.source
        PROVE  nodes'[i].status = nodes[i].status /\ nodes'[i].main = nodes[i].main /\ ~Awaits(j, i)
    <3>1. j.at = "asked" /\ j.root = None /\ j.left = {} /\ i # None
      BY <2>3, IdsAreNaturals DEF LayOut, More, KindsInv, Inv, NodesInv, Canvas
    <3>2. ~Awaits(j, i)
      BY <2>3, <3>1 DEF Awaits
    <3> QED BY <1>3, <2>3, <3>2 DEF Same
  <2>4. job \in jobs' /\ slips \subseteq slips' /\ \A o \in jobs : o \notin jobs' => o = j
    BY <1>2
  <2> QED BY <1>2, <1>6, <2>1, <2>2, <2>3, <2>4, AwaitStep DEF More
<1> QED BY <1>9, <1>11, <1>12, <1>13, <1>14 DEF More

-----------------------------------------------------------------------------

LEMMA InitMore ==
  ASSUME Init
  PROVE  More
<1>1. /\ jobs = {} /\ tries = {} /\ slips = {} /\ made = Given /\ DOMAIN nodes = 1..Given
      /\ nodes \in [1..Given -> {Blank(k) : k \in Kinds} \cup {Picture(p) : p \in Pics}]
  BY DEF Init
<1>2. ASSUME NEW i \in DOMAIN nodes
      PROVE  nodes[i].kids = {} /\ ~nodes[i].open /\ nodes[i].main = None /\ nodes[i].status = "idle"
  <2>1. CASE \E k \in Kinds : nodes[i] = Blank(k)
    BY <2>1 DEF Blank
  <2>2. CASE \E p \in Pics : nodes[i] = Picture(p)
    BY <2>2 DEF Blank, Picture
  <2> QED BY <1>1, <2>1, <2>2
<1>3. Targets = {}
  BY <1>1 DEF Targets
<1>4. KindsInv
  BY <1>1, <1>2, <1>3 DEF KindsInv, Plain
<1>5. FlatInv /\ ShownInv /\ WholeInv /\ AwaitInv
  BY <1>1, <1>2 DEF FlatInv, Flat, Free, ShownInv, Shown, MainOf, WholeInv, Whole, Seen, AwaitInv, Awaited
<1> QED BY <1>4, <1>5 DEF More

LEMMA StepMore ==
  ASSUME Inv, More, [Next]_vars
  PROVE  Inv' /\ More'
<1>1. Inv'
  BY StepInv
<1>2. CASE Edit
  <2>1. ASSUME NEW k \in Kinds, Create(k) PROVE More'
    BY <1>1, <2>1, CreateMore
  <2>2. ASSUME NEW a \in DOMAIN nodes, NEW b \in DOMAIN nodes, NEW h \in {"source", "target"},
               ConnectNodes(a, b, h)
        PROVE  More'
    BY <1>1, <2>2, StillMore DEF ConnectNodes, chainVars
  <2>3. ASSUME NEW a \in DOMAIN nodes, NEW k \in Kinds, NEW h \in {"source", "target"},
               CreateConnected(a, k, h)
        PROVE  More'
    BY <1>1, <2>3, CreateMore
  <2>4. ASSUME NEW S \in SUBSET DOMAIN nodes, DeleteNodes(S) PROVE More'
    BY <1>1, <2>4, DeleteMore
  <2>5. ASSUME NEW S \in SUBSET DOMAIN nodes, Paste(S) PROVE More'
    BY <1>1, <2>5, PasteMore
  <2>6. ASSUME NEW w \in wires, DeleteWire(w) PROVE More'
    BY <1>1, <2>6, StillMore DEF DeleteWire, chainVars
  <2>7. ASSUME NEW i \in DOMAIN nodes, DuplicateNode(i) PROVE More'
    BY <1>1, <2>7, DuplicateMore
  <2> QED BY <1>1, <1>2, <2>1, <2>2, <2>3, <2>4, <2>5, <2>6, <2>7 DEF Edit
<1>3. CASE Group
  <2>1. ASSUME NEW n \in 1..CountBound, NEW pics \in [1..n -> Pics],
               NEW t \in DOMAIN nodes \cup {None}, AddImages(pics, t),
               t # None => nodes[t].kind = "custom"
        PROVE  More'
    <3>1. n \in Nat \ {0}
      BY OpAssumption
    <3> QED BY <1>1, <2>1, <3>1, AddImagesMore
  <2>2. ASSUME NEW S \in SUBSET DOMAIN nodes, NEW t \in DOMAIN nodes, DropOn(S, t) PROVE More'
    BY <1>1, <2>2, DropOnMore
  <2>3. ASSUME NEW i \in DOMAIN nodes, NEW t \in DOMAIN nodes \cup {None}, DragOut(i, t)
        PROVE  More'
    BY <1>1, <2>3, DragOutMore
  <2>4. ASSUME NEW i \in DOMAIN nodes, ToggleBatch(i) PROVE More'
    BY <1>1, <2>4, ToggleMore
  <2>5. ASSUME NEW i \in DOMAIN nodes, SetBatchPrimary(i) PROVE More'
    BY <1>1, <2>5, PrimaryMore
  <2>6. ASSUME NEW i \in DOMAIN nodes, NEW p \in Pics, ReplaceImage(i, p) PROVE More'
    BY <1>1, <2>6, ReplaceMore
  <2>7. \A t : t \in {i \in DOMAIN nodes : nodes[i].kind = "custom"} \cup {None}
          => t \in DOMAIN nodes \cup {None} /\ (t # None => nodes[t].kind = "custom")
    OBVIOUS
  <2> QED BY <1>1, <1>3, <2>1, <2>2, <2>3, <2>4, <2>5, <2>6, <2>7 DEF Group
<1>4. CASE Draw
  <2>1. ASSUME NEW i, Crop(i) PROVE More'
    BY <1>1, <2>1, StillMore DEF Crop
  <2> QED BY <1>1, <1>4, <2>1, GenerateMore, RetryMore, AngleMore DEF Draw
<1>5. CASE Answers
  <2>1. ASSUME NEW j \in jobs, GatherFails(j) \/ EndJob(j) PROVE More'
    BY <1>1, <2>1, GatherFailsMore, EndJobMore
  <2>2. ASSUME NEW j \in jobs, NEW n \in 1..CountBound, LayOut(j, n) PROVE More'
    <3>1. n \in Nat \ {0}
      BY OpAssumption
    <3> QED BY <1>1, <2>2, <3>1, LayOutMore
  <2>3. ASSUME NEW j \in jobs, NEW t \in j.left, ResultFails(j, t) PROVE More'
    BY <1>1, <2>3, ResultFailsMore
  <2>4. ASSUME NEW j \in jobs, NEW t \in j.left, NEW p \in Pics, Result(j, t, p) PROVE More'
    BY <1>1, <2>4, ResultMore
  <2>5. ASSUME NEW i \in tries, TryFails(i) PROVE More'
    BY <1>1, <2>5, TryFailsMore
  <2>6. ASSUME NEW i \in tries, NEW p \in Pics, TryDone(i, p) PROVE More'
    BY <1>1, <2>6, TryDoneMore
  <2>7. ASSUME NEW i \in crops, NEW p \in Pics, Cropped(i, p) PROVE More'
    BY <1>1, <2>7, CroppedMore
  <2> QED BY <1>1, <1>5, <2>1, <2>2, <2>3, <2>4, <2>5, <2>6, <2>7 DEF Answers
<1>6. CASE Agent
  <2>1. ASSUME NEW i \in DOMAIN nodes, AgentUpdate(i) PROVE More'
    BY <1>1, <2>1, AgentUpdateMore
  <2>2. ASSUME NEW S \in SUBSET DOMAIN nodes, AgentDelete(S) PROVE More'
    BY <1>1, <2>2, AgentDeleteMore
  <2>3. ASSUME NEW a \in DOMAIN nodes, NEW b \in DOMAIN nodes, AgentConnect(a, b) PROVE More'
    BY <1>1, <2>3, StillMore DEF AgentConnect, chainVars
  <2> QED BY <1>1, <1>6, <2>1, <2>2, <2>3 DEF Agent
<1>7. CASE UNCHANGED vars
  BY <1>1, <1>7, StillMore DEF vars, chainVars
<1> QED BY <1>1, <1>2, <1>3, <1>4, <1>5, <1>6, <1>7 DEF Next

(* Whatever is edited while requests go on, groups stay flat, and what is   *)
(* shown and awaited is what More says.                                    *)
THEOREM GroupsInvariance == Spec => [](Inv /\ More)
<1>1. Init => Inv /\ More
  BY InitInv, InitMore
<1>2. (Inv /\ More) /\ [Next]_vars => (Inv /\ More)'
  BY StepMore
<1> QED BY <1>1, <1>2, PTL DEF Spec

(* The root of a group shows its main image, whichever was chosen by hand,  *)
(* came first or was left when others were deleted or moved away.          *)
THEOREM MainsShown == Spec => []MainIsShown
<1>1. More => MainIsShown
  BY DEF More, ShownInv, Shown, MainOf, MainIsShown
<1> QED BY <1>1, GroupsInvariance, PTL

(* No node says for ever that it is being drawn: while it does, a request   *)
(* goes on whose answer will change it.                                    *)
THEOREM DrawingAwaited == Spec => []LoadingIsAwaited
<1>1. More => LoadingIsAwaited
  BY DEF More, AwaitInv, Awaited, Awaits, LoadingIsAwaited
<1> QED BY <1>1, GroupsInvariance, PTL

(* An image hidden in a group is shown by its custom node, or the button    *)
(* of its stack opens that: a closed stack never has a single image.       *)
THEOREM StacksOpen == Spec => []HiddenCanBeShown
<1>1. Inv /\ More => HiddenCanBeShown
  <2> SUFFICES ASSUME Inv, More, slips \cap {"parted", "plucked"} = {}, NEW i \in DOMAIN nodes, Hidden(i)
               PROVE  /\ i \in nodes[nodes[i].root].kids
                      /\ nodes[nodes[i].root].kind = "custom" \/ Stacked(nodes[i].root)
    BY DEF HiddenCanBeShown
  <2>1. PICK r \in DOMAIN nodes : r = nodes[i].root
    BY DEF Hidden
  <2>2. i \in nodes[r].kids
    BY <2>1 DEF Inv, NodesInv, Agree
  <2>3. nodes[r].kind = "custom" \/ Two(nodes[r].kids)
    BY <2>1, <2>2 DEF Hidden, More, WholeInv, Whole, Seen
  <2>4. nodes[r].rooted /\ nodes[r].kind \in Kinds /\ nodes[r].kind # "config"
    <3>1. nodes[r] \in Node
      BY SourceOf
    <3> QED BY <2>2, <3>1 DEF Inv, NodesInv, Grouped, More, KindsInv, Node
  <2>5. IsFiniteSet(nodes[r].kids)
    <3>1. IsFiniteSet(1..made)
      BY Made, FS_Interval DEF Inv
    <3>2. nodes[r].kids \subseteq 1..made
      BY DEF Inv, NodesInv, Grouped
    <3> QED BY <3>1, <3>2, FS_Subset
  <2> QED BY <2>1, <2>2, <2>3, <2>4, <2>5, TwoCounted DEF Stacked, Kinds
<1> QED BY <1>1, GroupsInvariance, PTL
=============================================================================
