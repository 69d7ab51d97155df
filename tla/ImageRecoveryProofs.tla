------------------------ MODULE ImageRecoveryProofs -------------------------
(***************************************************************************)
(* Theorems of ImageRecovery for any number of images, batches, visits,    *)
(* failures and chains.                                                    *)
(***************************************************************************)
EXTENDS ImageRecovery, FiniteSetTheorems, SequenceTheorems, TLAPS

-----------------------------------------------------------------------------
(* The entries that are kept of a list, in their order *)

LEMMA RankFacts ==
  ASSUME NEW N \in Nat, NEW at \in SUBSET (1..N)
  PROVE  LET rank(n) == Cardinality({j \in at : j <= n})
         IN /\ Cardinality(at) \in Nat /\ Cardinality(at) <= N
            /\ \A m \in 1..Cardinality(at) : \E n \in at : rank(n) = m
            /\ \A n \in at : rank(n) \in 1..Cardinality(at)
            /\ \A n, m \in at : rank(n) = rank(m) => n = m
<1> DEFINE upto(n) == {j \in at : j <= n}
           rank(n) == Cardinality(upto(n))
           c == Cardinality(at)
<1>1. /\ IsFiniteSet(at) /\ c \in Nat /\ c <= N
  <2>1. IsFiniteSet(1..N) /\ Cardinality(1..N) = N
    BY FS_Interval
  <2> QED BY <2>1, FS_Subset, FS_CardinalityType
<1>2. ASSUME NEW n \in at
      PROVE  /\ IsFiniteSet(upto(n)) /\ rank(n) \in 1..c
  <2>1. upto(n) \in SUBSET at /\ n \in upto(n)
    OBVIOUS
  <2>2. IsFiniteSet(upto(n)) /\ rank(n) <= c
    BY <1>1, <2>1, FS_Subset
  <2>3. rank(n) \in Nat /\ rank(n) # 0
    BY <2>1, <2>2, FS_CardinalityType, FS_EmptySet
  <2> HIDE DEF rank, upto, c
  <2> QED BY <1>1, <2>2, <2>3
<1>3. ASSUME NEW n \in at, NEW m \in at, n < m
      PROVE  rank(n) < rank(m)
  <2>1. upto(n) \in SUBSET upto(m) /\ m \in upto(m) /\ m \notin upto(n)
    <3>1. n \in Nat /\ m \in Nat /\ \A j \in at : j \in Nat
      OBVIOUS
    <3>2. \A j \in at : j <= n => j <= m
      BY <1>3, <3>1
    <3>3. m <= m /\ ~(m <= n)
      BY <1>3, <3>1
    <3> QED BY <3>2, <3>3
  <2>2. IsFiniteSet(upto(m)) /\ rank(n) \in Nat /\ rank(m) \in Nat
    BY <1>2
  <2>3. rank(n) <= rank(m) /\ (rank(m) = rank(n) => upto(m) = upto(n))
    <3> HIDE DEF upto
    <3> QED BY <2>1, <2>2, FS_Subset
  <2>4. upto(m) # upto(n)
    <3> HIDE DEF upto
    <3> QED BY <2>1
  <2> HIDE DEF rank, upto
  <2> QED BY <2>2, <2>3, <2>4
<1>4. \A n, m \in at : rank(n) = rank(m) => n = m
  <2> SUFFICES ASSUME NEW n \in at, NEW m \in at, rank(n) = rank(m) PROVE n = m
    OBVIOUS
  <2>1. rank(n) \in Nat /\ rank(m) \in Nat
    BY <1>2
  <2>2. ~(n < m) /\ ~(m < n)
    <3> HIDE DEF rank
    <3> QED BY <1>3, <2>1
  <2> QED BY <2>2
<1>5. ASSUME NEW m \in 1..c
      PROVE  \E n \in at : rank(n) = m
  <2> DEFINE f == [n \in at |-> rank(n)]
  <2>1. f \in Injection(at, 1..c)
    <3>1. f \in [at -> 1..c]
      <4> HIDE DEF rank, c
      <4> QED BY <1>2
    <3>2. \A n, o \in at : f[n] = f[o] => n = o
      <4> HIDE DEF rank, c
      <4> QED BY <1>4
    <3> HIDE DEF f
    <3> QED BY <3>1, <3>2 DEF Injection, IsInjective
  <2>2. IsFiniteSet(1..c) /\ Cardinality(1..c) = c
    <3> HIDE DEF c
    <3> QED BY <1>1, FS_Interval
  <2>3. f \in Surjection(at, 1..c)
    <3> HIDE DEF f
    <3> QED BY <1>1, <2>1, <2>2, FS_Injection
  <2>4. \E n \in at : f[n] = m
    <3> HIDE DEF f, c
    <3> QED BY <2>3 DEF Surjection
  <2> HIDE DEF rank
  <2> QED BY <2>4
<1> QED BY <1>1, <1>2, <1>4, <1>5

LEMMA KeptFacts ==
  ASSUME NEW X, NEW ids \in Seq(X), NEW kept
  PROVE  /\ Kept(ids, kept) \in Seq(X)
         /\ Len(Kept(ids, kept)) <= Len(ids)
         /\ \A n \in DOMAIN Kept(ids, kept) :
              \E j \in DOMAIN ids : Kept(ids, kept)[n] = ids[j] /\ ids[j] \in kept
         /\ \A j \in DOMAIN ids :
              ids[j] \in kept => \E n \in DOMAIN Kept(ids, kept) : Kept(ids, kept)[n] = ids[j]
         /\ \A m, n \in DOMAIN Kept(ids, kept) : m # n =>
              \E i, j \in DOMAIN ids : /\ i # j /\ Kept(ids, kept)[m] = ids[i]
                                       /\ Kept(ids, kept)[n] = ids[j]
<1> DEFINE at == {n \in DOMAIN ids : ids[n] \in kept}
           rank(n) == Cardinality({j \in at : j <= n})
           c == Cardinality(at)
           q == [m \in 1..c |-> ids[CHOOSE n \in at : rank(n) = m]]
           pick(m) == CHOOSE n \in at : rank(n) = m
<1>1. Len(ids) \in Nat /\ DOMAIN ids = 1..Len(ids) /\ \A n \in DOMAIN ids : ids[n] \in X
  BY LenProperties, ElementOfSeq
<1>2. at \in SUBSET (1..Len(ids))
  BY <1>1
<1>3. /\ c \in Nat /\ c <= Len(ids)
      /\ \A m \in 1..c : \E n \in at : rank(n) = m
      /\ \A n \in at : rank(n) \in 1..c
      /\ \A n, m \in at : rank(n) = rank(m) => n = m
  <2> HIDE DEF at
  <2> QED BY <1>1, <1>2, RankFacts
<1>4. Kept(ids, kept) = q
  BY DEF Kept
<1>5. \A m \in 1..c : pick(m) \in at /\ rank(pick(m)) = m /\ q[m] = ids[pick(m)]
  <2> HIDE DEF at, rank, c
  <2> QED BY <1>3
<1>6. DOMAIN q = 1..c
  <2> HIDE DEF c
  <2> QED OBVIOUS
<1>7. \A n \in at : n \in DOMAIN ids /\ ids[n] \in kept
  OBVIOUS
<1>8. \A n \in DOMAIN ids : ids[n] \in kept => n \in at
  OBVIOUS
<1> HIDE DEF at, rank, c, pick
<1>9. q \in [1..c -> X]
  BY <1>1, <1>5, <1>7
<1> HIDE DEF q
<1>10. q \in Seq(X)
  BY <1>3, <1>9, SeqDef
<1>11. Len(q) = c
  BY <1>3, <1>6, <1>10, LenProperties
<1>12. ASSUME NEW j \in DOMAIN ids, ids[j] \in kept
       PROVE  \E n \in 1..c : q[n] = ids[j]
  <2>1. j \in at /\ rank(j) \in 1..c
    BY <1>3, <1>8, <1>12
  <2>2. pick(rank(j)) = j
    BY <1>3, <1>5, <2>1
  <2> QED BY <1>5, <2>1, <2>2
<1>13. ASSUME NEW m \in 1..c, NEW n \in 1..c, m # n
       PROVE  \E i, j \in DOMAIN ids : i # j /\ q[m] = ids[i] /\ q[n] = ids[j]
  <2>1. pick(m) # pick(n)
    BY <1>5, <1>13
  <2> QED BY <1>5, <1>7, <2>1
<1>14. \A n \in 1..c : \E j \in DOMAIN ids : q[n] = ids[j] /\ ids[j] \in kept
  BY <1>5, <1>7
<1>15. /\ q \in Seq(X) /\ Len(q) <= Len(ids)
       /\ \A n \in DOMAIN q : \E j \in DOMAIN ids : q[n] = ids[j] /\ ids[j] \in kept
       /\ \A j \in DOMAIN ids : ids[j] \in kept => \E n \in DOMAIN q : q[n] = ids[j]
  BY <1>3, <1>6, <1>10, <1>11, <1>12, <1>14
<1>16. \A m, n \in DOMAIN q : m # n =>
         \E i, j \in DOMAIN ids : i # j /\ q[m] = ids[i] /\ q[n] = ids[j]
  BY <1>6, <1>13
<1> QED BY <1>4, <1>15, <1>16

-----------------------------------------------------------------------------
(* What holds of every chain whatever runs beside it: a slot's task is one *)
(* submitted for that slot, and it is known to the server once it is noted; *)
(* a list of tasks names each slot once, with such a task.                 *)

Pairs == [slot : Slots, task : Tasks]
Sound(ids) ==
  \A n \in DOMAIN ids :
    /\ ids[n].task[2] = ids[n].slot /\ task[ids[n].task] # "none"
    /\ \A m \in DOMAIN ids : ids[m].slot = ids[n].slot => m = n
Fit(e, i) ==
  /\ e.at # "off" => e.task \in Tasks /\ e.task[2] = i
  /\ e.at \in {"note", "write", "poll", "result", "done"} => task[e.task] # "none"
  /\ e.at = "write" => e.read # None
  /\ e.read # None => Sound(e.read.ids)
  /\ e.at # "off" /\ ~shifted => e.place = i
Fits(c) ==
  Sound(c.pending) /\ c.mount <= mount /\ \A i \in Slots : Fit(c.entry[i], i)
RecordSound == record # None => Sound(record.ids)
ChainsFit == \A k \in DOMAIN chains : Fits(chains[k])
Sane == RecordSound /\ ChainsFit

(* A submitted task stays so, the mounts count up, what shifted stays.     *)
Onward ==
  /\ \A t \in Tasks : task[t] # "none" => task'[t] # "none"
  /\ mount <= mount' /\ (shifted => shifted')

LEMMA RecordTypes ==
  /\ \A r \in Records : r.batch \in 1..BatchBound /\ r.ids \in Seq(Pairs) /\ r # None
  /\ \A p \in Pairs : p.slot \in Slots /\ p.task \in Tasks
  /\ \A ids \in Seq(Pairs) : \A n \in DOMAIN ids :
       ids[n] \in Pairs /\ ids[n].slot \in Slots /\ ids[n].task \in Tasks
<1>1. \A p \in Pairs : p.slot \in Slots /\ p.task \in Tasks
  BY DEF Pairs
<1>2. \A r \in Records : r.batch \in 1..BatchBound /\ r.ids \in Seq(Pairs) /\ r # None
  BY NoneAssumption DEF Records, Pairs
<1>3. \A ids \in Seq(Pairs) : \A n \in DOMAIN ids : ids[n] \in Pairs
  BY ElementOfSeq, LenProperties
<1> QED BY <1>1, <1>2, <1>3

LEMMA ChainTypes ==
  /\ \A c \in Chains :
       /\ c.kind \in {"generate", "restore", "over"}
       /\ c.mount \in 0..MountBound /\ c.batch \in 0..BatchBound
       /\ c.at \in {"record", "histories", "tasks", "slots", "saving", "saved", "over"}
       /\ c.entry \in [Slots -> Entries] /\ c.pending \in Seq(Pairs) /\ c.ids \in SUBSET Tasks
       /\ \A i \in Slots : c.entry[i] \in Entries
  /\ \A e \in Entries :
       /\ e.at \in {"off", "post", "note", "write", "poll", "result", "done", "error"}
       /\ e.task \in Tasks \cup {None} /\ e.heard \in {"active", "succeeded", "failed"}
       /\ e.read \in Records \cup {None} /\ e.place \in Slots
BY DEF Chains, Entries, Pairs

LEMMA OffTypes == Off \in Entries /\ Over \in Chains /\ Off.at = "off" /\ \A i : Fit(Off, i)
<1>1. 1 \in Slots
  BY CountAssumption DEF Slots
<1>2. Off \in Entries
  BY <1>1 DEF Off, Entries
<1>3. <<>> \in Seq(Pairs)
  BY EmptySeq
<1>4. [i \in Slots |-> Off] \in [Slots -> Entries]
  BY <1>2
<1>5. Over \in Chains
  BY <1>3, <1>4, BoundAssumption DEF Over, Chains, Pairs
<1>6. \A i : Fit(Off, i)
  BY DEF Off, Fit
<1> QED BY <1>2, <1>5, <1>6 DEF Off

(* One chain takes the place of another. *)
LEMMA TurnFacts ==
  ASSUME chains \in Seq(Chains), NEW k \in DOMAIN chains, NEW c \in Chains,
         chains' = [chains EXCEPT ![k] = c]
  PROVE  /\ chains' \in Seq(Chains) /\ DOMAIN chains' = DOMAIN chains
         /\ chains'[k] = c /\ \A j \in DOMAIN chains : j # k => chains'[j] = chains[j]
<1>1. Len(chains) \in Nat /\ DOMAIN chains = 1..Len(chains)
  BY LenProperties
<1>2. chains' \in Seq(Chains)
  BY <1>1, ExceptSeq
<1> QED BY <1>2

(* The chain k once its slot i is at e. *)
Moved(k, i, e) == [chains[k] EXCEPT !.entry[i] = e]

LEMMA PutFacts ==
  ASSUME chains \in Seq(Chains), NEW k \in DOMAIN chains, NEW i \in Slots, NEW e \in Entries,
         Put(k, i, e)
  PROVE  /\ Moved(k, i, e) \in Chains /\ chains' = [chains EXCEPT ![k] = Moved(k, i, e)]
         /\ Moved(k, i, e).kind = chains[k].kind /\ Moved(k, i, e).mount = chains[k].mount
         /\ Moved(k, i, e).batch = chains[k].batch /\ Moved(k, i, e).at = chains[k].at
         /\ Moved(k, i, e).pending = chains[k].pending /\ Moved(k, i, e).ids = chains[k].ids
         /\ Moved(k, i, e).entry[i] = e
         /\ \A j \in Slots : j # i => Moved(k, i, e).entry[j] = chains[k].entry[j]
<1> DEFINE d == Moved(k, i, e)
<1>1. chains[k] \in Chains /\ chains[k].entry \in [Slots -> Entries]
  BY ElementOfSeq, LenProperties, ChainTypes
<1>2. /\ d.kind = chains[k].kind /\ d.mount = chains[k].mount
      /\ d.batch = chains[k].batch /\ d.at = chains[k].at
      /\ d.pending = chains[k].pending /\ d.ids = chains[k].ids
      /\ d.entry = [chains[k].entry EXCEPT ![i] = e]
  BY <1>1 DEF Chains, Moved
<1>3. d \in Chains
  BY <1>1 DEF Chains, Moved
<1>4. chains' = [chains EXCEPT ![k] = d]
  BY DEF Put, Moved
<1> HIDE DEF d
<1>5. d.entry[i] = e /\ \A j \in Slots : j # i => d.entry[j] = chains[k].entry[j]
  BY <1>1, <1>2
<1> QED BY <1>2, <1>3, <1>4, <1>5 DEF d

LEMMA SoundOnward ==
  ASSUME Onward
  PROVE  \A ids \in Seq(Pairs) : Sound(ids) => Sound(ids)'
BY RecordTypes DEF Onward, Sound

LEMMA FitOnward ==
  ASSUME Onward
  PROVE  \A e \in Entries, i \in Slots : Fit(e, i) => Fit(e, i)'
<1> SUFFICES ASSUME NEW e \in Entries, NEW i \in Slots, Fit(e, i) PROVE Fit(e, i)'
  OBVIOUS
<1>1. e.at # "off" => e.task \in Tasks /\ e.task[2] = i
  BY DEF Fit
<1>2. e.at \in {"note", "write", "poll", "result", "done"} => task'[e.task] # "none"
  BY <1>1 DEF Fit, Onward
<1>3. e.read # None => Sound(e.read.ids)'
  BY SoundOnward, RecordTypes, ChainTypes DEF Fit
<1>4. (e.at = "write" => e.read # None) /\ (e.at # "off" /\ ~shifted' => e.place = i)
  BY DEF Fit, Onward
<1> QED BY <1>1, <1>2, <1>3, <1>4 DEF Fit

LEMMA FitsOnward ==
  ASSUME Onward, mount \in Nat, mount' \in Nat
  PROVE  \A c \in Chains : Fits(c) => Fits(c)'
<1> SUFFICES ASSUME NEW c \in Chains, Fits(c) PROVE Fits(c)'
  OBVIOUS
<1>1. Sound(c.pending)'
  BY SoundOnward, ChainTypes DEF Fits
<1>2. c.mount <= mount'
  <2>1. c.mount \in Nat
    BY ChainTypes, BoundAssumption
  <2> QED BY <2>1 DEF Fits, Onward
<1>3. \A i \in Slots : Fit(c.entry[i], i)'
  BY FitOnward, ChainTypes DEF Fits
<1> QED BY <1>1, <1>2, <1>3 DEF Fits

(* What is there of a chain is that of the chain.                           *)
LEMMA FitsThere ==
  ASSUME NEW k, NEW c, chains'[k] = c, Fits(c)'
  PROVE  Fits(chains[k])'
<1>1. Sound(chains[k].pending)'
  <2>1. PICK p : p = c.pending /\ Sound(p)'
    BY DEF Fits
  <2> QED BY <2>1 DEF Sound
<1>2. ASSUME NEW i \in Slots PROVE Fit(chains[k].entry[i], i)'
  <2>1. PICK e : e = c.entry[i] /\ Fit(e, i)'
    BY DEF Fits
  <2>2. chains'[k].entry[i] = e
    BY <2>1
  <2> QED BY <2>1, <2>2 DEF Fit, Sound
<1>3. (chains[k].mount <= mount)'
  BY DEF Fits
<1> QED BY <1>1, <1>2, <1>3 DEF Fits

LEMMA TurnKeeps ==
  ASSUME chains \in Seq(Chains), ChainsFit, Onward, mount \in Nat, mount' \in Nat,
         NEW k \in DOMAIN chains, NEW c \in Chains, Fits(c)', chains' = [chains EXCEPT ![k] = c]
  PROVE  chains' \in Seq(Chains) /\ ChainsFit'
<1>1. /\ chains' \in Seq(Chains) /\ DOMAIN chains' = DOMAIN chains
      /\ chains'[k] = c /\ \A j \in DOMAIN chains : j # k => chains'[j] = chains[j]
  BY TurnFacts
<1>2. ASSUME NEW j \in DOMAIN chains PROVE Fits(chains[j])'
  <2>1. CASE j = k
    BY <1>1, <2>1, FitsThere
  <2>2. CASE j # k
    <3>1. chains[j] \in Chains /\ Fits(chains[j])
      BY ElementOfSeq, LenProperties DEF ChainsFit
    <3> DEFINE d == chains[j]
    <3>2. d \in Chains /\ Fits(d)
      BY <3>1
    <3>3. chains'[j] = d
      BY <1>1, <2>2
    <3> HIDE DEF d
    <3>4. PICK b \in Chains : b = d
      BY <3>2
    <3>5. Fits(b)'
      BY FitsOnward, <3>2, <3>4
    <3> QED BY <3>3, <3>4, <3>5, FitsThere
  <2> QED BY <2>1, <2>2
<1> QED BY <1>1, <1>2 DEF ChainsFit

LEMMA PutKeeps ==
  ASSUME chains \in Seq(Chains), ChainsFit, Onward, mount \in Nat, mount' \in Nat,
         NEW k \in DOMAIN chains, NEW i \in Slots, NEW e \in Entries, Fit(e, i)', Put(k, i, e)
  PROVE  chains' \in Seq(Chains) /\ ChainsFit'
<1>1. chains[k] \in Chains /\ Fits(chains[k])
  BY ElementOfSeq, LenProperties DEF ChainsFit
<1>2. PICK d \in Chains :
        /\ chains' = [chains EXCEPT ![k] = d]
        /\ d.mount = chains[k].mount /\ d.pending = chains[k].pending
        /\ d.entry[i] = e /\ \A j \in Slots : j # i => d.entry[j] = chains[k].entry[j]
  <2> DEFINE m == Moved(k, i, e)
  <2>1. /\ m \in Chains /\ chains' = [chains EXCEPT ![k] = m]
        /\ m.mount = chains[k].mount /\ m.pending = chains[k].pending
        /\ m.entry[i] = e /\ \A j \in Slots : j # i => m.entry[j] = chains[k].entry[j]
    BY PutFacts
  <2> HIDE DEF m
  <2> QED BY <2>1
<1>3. PICK b \in Chains : b = chains[k]
  BY <1>1
<1>4. Fits(b)'
  BY <1>1, <1>3, FitsOnward
<1>5. Sound(d.pending)' /\ d.mount <= mount'
  BY <1>2, <1>3, <1>4 DEF Fits
<1>6. \A j \in Slots : Fit(d.entry[j], j)'
  <2> SUFFICES ASSUME NEW j \in Slots PROVE Fit(d.entry[j], j)'
    OBVIOUS
  <2>1. j # i => Fit(b.entry[j], j)' /\ d.entry[j] = b.entry[j]
    BY <1>2, <1>3, <1>4 DEF Fits
  <2> QED BY <1>2, <2>1
<1>7. Fits(d)'
  BY <1>5, <1>6 DEF Fits
<1> QED BY <1>2, <1>7, TurnKeeps

(* A chain begins. *)
LEMMA BeginKeeps ==
  ASSUME chains \in Seq(Chains), ChainsFit, Onward, mount \in Nat, mount' \in Nat,
         NEW c \in Chains, Fits(c)', chains' = Append(chains, c)
  PROVE  /\ chains' \in Seq(Chains) /\ ChainsFit'
         /\ Len(chains) \in Nat /\ Len(chains') = Len(chains) + 1
         /\ chains'[Len(chains) + 1] = c /\ \A j \in DOMAIN chains : chains'[j] = chains[j]
         /\ DOMAIN chains' = DOMAIN chains \cup {Len(chains) + 1}
         /\ Len(chains) + 1 \notin DOMAIN chains
<1> DEFINE n == Len(chains)
<1>1. n \in Nat /\ DOMAIN chains = 1..n
  BY LenProperties
<1>2. /\ chains' \in Seq(Chains) /\ Len(chains') = n + 1
      /\ \A j \in 1..n : chains'[j] = chains[j]
      /\ chains'[n + 1] = c
  BY AppendProperties
<1>3. DOMAIN chains' = 1..(n + 1)
  BY <1>2, LenProperties
<1>4. ASSUME NEW j \in DOMAIN chains' PROVE Fits(chains[j])'
  <2>1. CASE j = n + 1
    BY <1>2, <2>1, FitsThere
  <2>2. CASE j # n + 1
    <3>0. j \in 1..n
      <4> HIDE DEF n
      <4> QED BY <1>1, <1>3, <2>2
    <3>1. chains[j] \in Chains /\ Fits(chains[j])
      BY <1>1, <3>0, ElementOfSeq DEF ChainsFit
    <3>2. PICK b \in Chains : b = chains[j]
      BY <3>1
    <3>3. Fits(b)'
      BY FitsOnward, <3>1, <3>2
    <3> QED BY <1>2, <3>0, <3>2, <3>3, FitsThere
  <2> QED BY <2>1, <2>2
<1>5. 1..(n + 1) = (1..n) \cup {n + 1} /\ n + 1 \notin 1..n
  <2> HIDE DEF n
  <2> QED BY <1>1
<1>6. ChainsFit'
  BY <1>4 DEF ChainsFit
<1> QED BY <1>1, <1>2, <1>3, <1>5, <1>6

-----------------------------------------------------------------------------
(* The types, and what makes sense of every chain, step by step *)

Base == TypeOK /\ Sane

LEMMA BaseTypes ==
  ASSUME Base
  PROVE  /\ chains \in Seq(Chains) /\ ChainsFit /\ RecordSound
         /\ mount \in Nat /\ mount \in 0..MountBound
         /\ \A k \in DOMAIN chains : chains[k] \in Chains /\ Fits(chains[k])
         /\ \A k \in DOMAIN chains, i \in Slots :
              chains[k].entry[i] \in Entries /\ Fit(chains[k].entry[i], i)
         /\ screen \in [Slots -> Shown] /\ record \in Records \cup {None}
         /\ task \in [Tasks -> {"none", "active", "succeeded", "failed"}]
<1>1. chains \in Seq(Chains) /\ ChainsFit /\ RecordSound
  BY DEF Base, TypeOK, Sane
<1>2. mount \in Nat /\ mount \in 0..MountBound
  BY BoundAssumption DEF Base, TypeOK
<1>3. \A k \in DOMAIN chains : chains[k] \in Chains /\ Fits(chains[k])
  BY <1>1, ElementOfSeq, LenProperties DEF ChainsFit
<1>4. \A k \in DOMAIN chains, i \in Slots :
        chains[k].entry[i] \in Entries /\ Fit(chains[k].entry[i], i)
  BY <1>3, ChainTypes DEF Fits
<1>5. /\ screen \in [Slots -> Shown] /\ record \in Records \cup {None}
      /\ task \in [Tasks -> {"none", "active", "succeeded", "failed"}]
  BY DEF Base, TypeOK
<1> QED BY <1>1, <1>2, <1>3, <1>4, <1>5

LEMMA RecordOnward ==
  ASSUME Base, Onward, UNCHANGED record
  PROVE  RecordSound'
<1>1. record # None => record.ids \in Seq(Pairs)
  BY BaseTypes, RecordTypes
<1>2. PICK r : r = record
  OBVIOUS
<1>3. r # None => Sound(r.ids)
  BY <1>2 DEF Base, Sane, RecordSound
<1>4. r # None => Sound(r.ids)'
  BY <1>1, <1>2, <1>3, SoundOnward
<1> QED BY <1>2, <1>4 DEF RecordSound, Sound

LEMMA ChainsOnward ==
  ASSUME Base, Onward, mount' \in Nat, UNCHANGED chains
  PROVE  ChainsFit'
<1>1. ASSUME NEW k \in DOMAIN chains PROVE Fits(chains[k])'
  <2>1. PICK c \in Chains : c = chains[k] /\ Fits(c)
    BY BaseTypes
  <2>2. Fits(c)'
    BY <2>1, FitsOnward, BaseTypes
  <2> QED BY <2>1, <2>2, FitsThere
<1> QED BY <1>1 DEF ChainsFit

LEMMA SameOnward ==
  ASSUME Base, UNCHANGED task, UNCHANGED mount, shifted => shifted'
  PROVE  Onward /\ mount' \in Nat
BY BaseTypes DEF Onward

LEMMA ShowTypes ==
  ASSUME Base, NEW k, NEW i \in Slots, NEW v \in Shown, Show(k, i, v)
  PROVE  screen' \in [Slots -> Shown]
BY BaseTypes DEF Show

LEMMA HeardKeeps ==
  ASSUME Base, Onward, mount' \in Nat, NEW k \in DOMAIN chains, NEW i \in Slots,
         NEW e \in Entries, e.task \in Tasks, e.task[2] = i, task'[e.task] # "none",
         ~shifted' => e.place = i, Heard(k, i, e)
  PROVE  chains' \in Seq(Chains) /\ ChainsFit' /\ screen' \in [Slots -> Shown]
<1> DEFINE d == [e EXCEPT !.at = After(e), !.heard = "active", !.read = None]
<1>1. After(e) \in {"poll", "result", "error"}
  BY ChainTypes DEF After
<1>2. /\ d \in Entries /\ d.at = After(e) /\ d.task = e.task /\ d.place = e.place
      /\ d.read = None
  BY <1>1 DEF Entries
<1>3. Put(k, i, d) /\ Show(k, e.place, Outcome(e))
  BY DEF Heard
<1> HIDE DEF d
<1>4. Fit(d, i)'
  BY <1>1, <1>2 DEF Fit
<1>5. chains' \in Seq(Chains) /\ ChainsFit'
  BY <1>2, <1>3, <1>4, BaseTypes, PutKeeps
<1>6. e.place \in Slots /\ Outcome(e) \in Shown
  BY ChainTypes DEF Outcome, Shown
<1>7. screen' \in [Slots -> Shown]
  BY <1>3, <1>6, ShowTypes
<1> QED BY <1>5, <1>7

LEMMA TaskEndsBase ==
  ASSUME Base, NEW t \in Tasks, NEW s \in {"succeeded", "failed"}, TaskEnds(t, s)
  PROVE  Base'
<1>1. task' \in [Tasks -> {"none", "active", "succeeded", "failed"}]
  BY BaseTypes DEF TaskEnds
<1>2. Onward /\ mount' \in Nat
  BY BaseTypes DEF TaskEnds, Onward, pageVars, ghostVars
<1>3. ChainsFit'
  BY <1>2, ChainsOnward DEF TaskEnds
<1>4. RecordSound'
  BY <1>2, RecordOnward DEF TaskEnds
<1> QED BY <1>1, <1>3, <1>4 DEF Base, Sane, TypeOK, TaskEnds, pageVars, ghostVars

LEMMA CancelBase ==
  ASSUME Base, NEW k \in DOMAIN chains, NEW i \in Slots, Cancel(k, i)
  PROVE  Base'
<1>1. task' \in [Tasks -> {"none", "active", "succeeded", "failed"}]
  BY BaseTypes DEF Cancel
<1>2. Onward /\ mount' \in Nat
  BY BaseTypes DEF Cancel, Onward, pageVars, ghostVars
<1>3. ChainsFit'
  BY <1>2, ChainsOnward DEF Cancel
<1>4. RecordSound'
  BY <1>2, RecordOnward DEF Cancel
<1>5. screen' \in [Slots -> Shown]
  <2>1. chains[k].entry[i].place \in Slots
    BY BaseTypes, ChainTypes
  <2>2. Failed \in Shown
    BY DEF Shown
  <2> QED BY <2>1, <2>2, ShowTypes DEF Cancel
<1> QED BY <1>1, <1>3, <1>4, <1>5 DEF Base, Sane, TypeOK, Cancel, pageVars, ghostVars

LEMMA RunningFacts ==
  ASSUME Base, NEW k \in DOMAIN chains, NEW i \in Slots,
         chains[k].entry[i].at \notin {"off"}
  PROVE  /\ Of(k, i) \in Tasks /\ Of(k, i)[2] = i /\ Of(k, i) = chains[k].entry[i].task
         /\ chains[k].entry[i] \in Entries /\ Fit(chains[k].entry[i], i)
BY BaseTypes DEF Of, Fit

LEMMA SubmittedBase ==
  ASSUME Base, NEW k \in DOMAIN chains, NEW i \in Slots, Submitted(k, i)
  PROVE  Base'
<1> DEFINE e == chains[k].entry[i]
           d == [e EXCEPT !.at = "note"]
<1>1. e.at = "post" /\ Put(k, i, d) /\ task' = [task EXCEPT ![Of(k, i)] = "active"]
  BY DEF Submitted, Running, Step
<1>2. /\ Of(k, i) \in Tasks /\ Of(k, i)[2] = i /\ Of(k, i) = e.task
      /\ e \in Entries /\ Fit(e, i)
  BY <1>1, RunningFacts
<1>3. /\ d \in Entries /\ d.at = "note" /\ d.task = e.task /\ d.place = e.place
      /\ d.read = e.read
  BY <1>2 DEF Entries
<1>4. /\ task' \in [Tasks -> {"none", "active", "succeeded", "failed"}]
      /\ task'[Of(k, i)] = "active"
  BY <1>1, <1>2, BaseTypes
<1>5. UNCHANGED <<mount, shifted, record, screen>>
  BY DEF Submitted, pageVars, ghostVars
<1>6. Onward /\ mount' \in Nat
  BY <1>1, <1>2, <1>5, BaseTypes DEF Onward
<1>7. PICK b \in Entries : b = e
  BY <1>2
<1>8. PICK c \in Entries : c = d
  BY <1>3
<1>9. Fit(b, i)'
  BY <1>2, <1>6, <1>7, FitOnward
<1> HIDE DEF d, e
<1>10. Fit(c, i)'
  BY <1>1, <1>2, <1>3, <1>4, <1>7, <1>8, <1>9 DEF Fit
<1>11. chains' \in Seq(Chains) /\ ChainsFit'
  BY <1>1, <1>6, <1>8, <1>10, BaseTypes, PutKeeps
<1>12. RecordSound'
  BY <1>5, <1>6, RecordOnward
<1> QED BY <1>4, <1>11, <1>12 DEF Base, Sane, TypeOK, Submitted, pageVars, ghostVars

LEMMA NoteReadBase ==
  ASSUME Base, NEW k \in DOMAIN chains, NEW i \in Slots, NoteRead(k, i)
  PROVE  Base'
<1>1. UNCHANGED <<task, mount, shifted, record>>
  BY DEF NoteRead, pageVars, ghostVars
<1>2. Onward /\ mount' \in Nat
  BY <1>1, SameOnward
<1>3. RecordSound'
  BY <1>1, <1>2, RecordOnward
<1>4. PICK e \in Entries : e = chains[k].entry[i]
  BY BaseTypes
<1>5. e.at = "note" /\ e.task \in Tasks /\ e.task[2] = i /\ Fit(e, i)
  BY <1>4, RunningFacts DEF NoteRead, Running
<1>6. task'[e.task] # "none" /\ (~shifted' => e.place = i)
  BY <1>1, <1>5 DEF Fit
<1>7. chains' \in Seq(Chains) /\ ChainsFit' /\ screen' \in [Slots -> Shown]
  <2>1. CASE record = None
    BY <2>1, <1>2, <1>4, <1>5, <1>6, HeardKeeps DEF NoteRead
  <2>2. CASE record # None
    <3>1. PICK r \in Records : r = record /\ Sound(r.ids)
      BY <2>2, BaseTypes DEF RecordSound
    <3> DEFINE d == [e EXCEPT !.at = "write", !.read = r]
    <3>2. d \in Entries /\ d.at = "write" /\ d.read = r /\ d.task = e.task /\ d.place = e.place
      BY DEF Entries
    <3>3. Put(k, i, d) /\ screen' = screen
      BY <1>4, <2>2, <3>1 DEF NoteRead
    <3> HIDE DEF d
    <3>4. PICK c \in Entries : c = d
      BY <3>2
    <3>5. Sound(r.ids)' /\ r # None
      BY <1>2, <3>1, SoundOnward, RecordTypes
    <3>6. Fit(c, i)'
      BY <1>1, <1>5, <1>6, <3>2, <3>4, <3>5 DEF Fit
    <3>7. chains' \in Seq(Chains) /\ ChainsFit'
      BY <1>2, <3>3, <3>4, <3>6, BaseTypes, PutKeeps
    <3> QED BY <3>3, <3>7, BaseTypes
  <2> QED BY <2>1, <2>2
<1> QED BY <1>1, <1>3, <1>7 DEF Base, Sane, TypeOK, NoteRead, pageVars, ghostVars

(* The record with the task of a slot. *)
LEMMA WithFacts ==
  ASSUME NEW ids \in Seq(Pairs), NEW i \in Slots, NEW t \in Tasks
  PROVE  /\ With(ids, i, t) \in Seq(Pairs)
         /\ DOMAIN With(ids, i, t) \in SUBSET Nat
         /\ \A n \in DOMAIN With(ids, i, t) :
              \/ With(ids, i, t)[n] = [slot |-> i, task |-> t]
              \/ n \in DOMAIN ids /\ With(ids, i, t)[n] = ids[n] /\ ids[n].slot # i
         /\ \E n \in DOMAIN With(ids, i, t) : With(ids, i, t)[n] = [slot |-> i, task |-> t]
         /\ \A n \in DOMAIN ids : n \in DOMAIN With(ids, i, t)
              /\ (ids[n].slot # i => With(ids, i, t)[n] = ids[n])
         /\ (\A m, n \in DOMAIN ids : ids[m].slot = ids[n].slot => m = n) =>
              \A m, n \in DOMAIN With(ids, i, t) :
                With(ids, i, t)[m].slot = With(ids, i, t)[n].slot => m = n
<1> DEFINE its == [slot |-> i, task |-> t]
           len == Len(ids)
           w == With(ids, i, t)
<1>1. its \in Pairs /\ its.slot = i
  BY DEF Pairs
<1>2. len \in Nat /\ DOMAIN ids = 1..len /\ \A n \in DOMAIN ids : ids[n] \in Pairs
  BY LenProperties, RecordTypes
<1>3. CASE \E n \in DOMAIN ids : ids[n].slot = i
  <2>1. w = [n \in DOMAIN ids |-> IF ids[n].slot = i THEN its ELSE ids[n]]
    BY <1>3 DEF With
  <2>2. w \in [1..len -> Pairs]
    <3> HIDE DEF its, w, len
    <3> QED BY <1>1, <1>2, <2>1
  <2>3. w \in Seq(Pairs)
    <3> HIDE DEF w, len
    <3> QED BY <1>2, <2>2, SeqDef
  <2>4. DOMAIN w = DOMAIN ids
    BY <2>1
  <2>5. \A n \in DOMAIN ids : w[n] = IF ids[n].slot = i THEN its ELSE ids[n]
    BY <2>1
  <2> HIDE DEF w, its, len
  <2>6. /\ DOMAIN w \in SUBSET Nat
        /\ \A n \in DOMAIN w : w[n] = its \/ (n \in DOMAIN ids /\ w[n] = ids[n] /\ ids[n].slot # i)
        /\ \E n \in DOMAIN w : w[n] = its
        /\ \A n \in DOMAIN ids : n \in DOMAIN w /\ (ids[n].slot # i => w[n] = ids[n])
    BY <1>2, <1>3, <2>4, <2>5
  <2>7. \A n \in DOMAIN ids : w[n].slot = ids[n].slot
    BY <1>1, <2>5
  <2> QED BY <2>3, <2>4, <2>6, <2>7 DEF w, its
<1>4. CASE \A n \in DOMAIN ids : ids[n].slot # i
  <2>1. w = Append(ids, its)
    BY <1>4 DEF With
  <2>2. /\ w \in Seq(Pairs) /\ Len(w) = len + 1
        /\ \A n \in 1..len : w[n] = ids[n]
        /\ w[len + 1] = its
    <3> HIDE DEF w, its
    <3> QED BY <1>1, <2>1, AppendProperties
  <2>3. DOMAIN w = 1..(len + 1)
    BY <2>2, LenProperties
  <2> HIDE DEF w, its, len
  <2>4. DOMAIN w = (1..len) \cup {len + 1} /\ DOMAIN w \in SUBSET Nat /\ len + 1 \in DOMAIN w
    BY <1>2, <2>3
  <2>5. /\ \A n \in DOMAIN w : w[n] = its \/ (n \in DOMAIN ids /\ w[n] = ids[n] /\ ids[n].slot # i)
        /\ \E n \in DOMAIN w : w[n] = its
        /\ \A n \in DOMAIN ids : n \in DOMAIN w /\ (ids[n].slot # i => w[n] = ids[n])
    BY <1>2, <1>4, <2>2, <2>4
  <2>6. ASSUME \A m, n \in DOMAIN ids : ids[m].slot = ids[n].slot => m = n,
               NEW m \in DOMAIN w, NEW n \in DOMAIN w, w[m].slot = w[n].slot
        PROVE  m = n
    BY <1>1, <1>2, <1>4, <2>2, <2>4, <2>6
  <2> QED BY <2>2, <2>4, <2>5, <2>6 DEF w, its
<1> QED BY <1>3, <1>4

LEMMA NoteWriteBase ==
  ASSUME Base, NEW k \in DOMAIN chains, NEW i \in Slots, NoteWrite(k, i)
  PROVE  Base'
<1>1. UNCHANGED <<task, mount, shifted>>
  BY DEF NoteWrite, pageVars
<1>2. Onward /\ mount' \in Nat
  BY <1>1, SameOnward
<1>3. PICK e \in Entries : e = chains[k].entry[i]
  BY BaseTypes
<1>4. e.at = "write" /\ e.task \in Tasks /\ e.task[2] = i /\ Fit(e, i) /\ e.task = Of(k, i)
  BY <1>3, RunningFacts DEF NoteWrite, Running
<1>5. task'[e.task] # "none" /\ (~shifted' => e.place = i)
  BY <1>1, <1>4 DEF Fit
<1>6. Heard(k, i, e) /\ record' = [e.read EXCEPT !.ids = With(@, i, e.task)]
      /\ raced' = (raced \/ record # e.read \/ e.read.batch # chains[k].batch)
  BY <1>3 DEF NoteWrite
<1>7. chains' \in Seq(Chains) /\ ChainsFit' /\ screen' \in [Slots -> Shown]
  BY <1>2, <1>3, <1>4, <1>5, <1>6, HeardKeeps
<1>8. e.read \in Records /\ Sound(e.read.ids) /\ e.read.ids \in Seq(Pairs)
  BY <1>4, ChainTypes, RecordTypes DEF Fit
<1> DEFINE w == With(e.read.ids, i, e.task)
<1>9. w \in Seq(Pairs) /\ record' \in Records /\ record'.ids = w
  <2>1. w \in Seq(Pairs)
    BY <1>4, <1>8, WithFacts
  <2> HIDE DEF w
  <2>2. record' = [e.read EXCEPT !.ids = w]
    BY <1>6 DEF w
  <2> QED BY <1>8, <2>1, <2>2 DEF Records, Pairs
<1>10. Sound(w)'
  <2>1. \A n \in DOMAIN w : w[n].task[2] = w[n].slot /\ task[w[n].task] # "none"
    <3> SUFFICES ASSUME NEW n \in DOMAIN w
                 PROVE  w[n].task[2] = w[n].slot /\ task[w[n].task] # "none"
      OBVIOUS
    <3>1. \/ w[n] = [slot |-> i, task |-> e.task]
          \/ n \in DOMAIN e.read.ids /\ w[n] = e.read.ids[n]
      BY <1>4, <1>8, WithFacts
    <3> HIDE DEF w
    <3> QED BY <1>1, <1>4, <1>5, <1>8, <3>1 DEF Sound
  <2>2. \A m, n \in DOMAIN w : w[m].slot = w[n].slot => m = n
    <3>1. PICK ids \in Seq(Pairs) : ids = e.read.ids
      BY <1>8
    <3>2. PICK t \in Tasks : t = e.task
      BY <1>4
    <3>3. \A m, n \in DOMAIN ids : ids[m].slot = ids[n].slot => m = n
      BY <1>8, <3>1 DEF Sound
    <3>4. \A m, n \in DOMAIN With(ids, i, t) :
            With(ids, i, t)[m].slot = With(ids, i, t)[n].slot => m = n
      BY <3>3, WithFacts
    <3> QED BY <3>1, <3>2, <3>4
  <2> HIDE DEF w
  <2> QED BY <1>1, <2>1, <2>2 DEF Sound
<1>11. RecordSound'
  <2> HIDE DEF w
  <2> QED BY <1>9, <1>10 DEF RecordSound, Sound
<1>12. raced' \in BOOLEAN
  BY <1>6
<1> QED BY <1>4, <1>7, <1>9, <1>11, <1>12 DEF Base, Sane, TypeOK, NoteWrite, pageVars

LEMMA PollBase ==
  ASSUME Base, NEW k \in DOMAIN chains, NEW i \in Slots, Poll(k, i)
  PROVE  Base'
<1>1. UNCHANGED <<task, mount, shifted, record>>
  BY DEF Poll, pageVars, ghostVars
<1>2. Onward /\ mount' \in Nat
  BY <1>1, SameOnward
<1>3. RecordSound'
  BY <1>1, <1>2, RecordOnward
<1>4. PICK b \in Entries : b = chains[k].entry[i]
  BY BaseTypes
<1>5. b.at = "poll" /\ b.task \in Tasks /\ b.task[2] = i /\ Fit(b, i) /\ b.task = Of(k, i)
  BY <1>4, RunningFacts DEF Poll, Running
<1>6. task[b.task] \in {"active", "succeeded", "failed"} /\ (~shifted' => b.place = i)
  BY <1>1, <1>5, BaseTypes DEF Fit
<1>7. PICK h \in {"active", "succeeded", "failed"} : h = task[b.task]
  BY <1>6
<1> DEFINE d == [b EXCEPT !.heard = h]
<1>8. /\ d \in Entries /\ d.at = "poll" /\ d.read = b.read /\ d.task = b.task
      /\ d.place = b.place
  BY <1>5 DEF Entries
<1>9. IF chains[k].kind = "generate"
      THEN Put(k, i, [d EXCEPT !.at = "note"]) /\ UNCHANGED screen
      ELSE Heard(k, i, d)
  BY <1>4, <1>5, <1>7 DEF Poll
<1> HIDE DEF d
<1>10. PICK e \in Entries : e = d
  BY <1>8
<1>11. chains' \in Seq(Chains) /\ ChainsFit' /\ screen' \in [Slots -> Shown]
  <2>1. CASE chains[k].kind # "generate"
    BY <1>1, <1>2, <1>5, <1>6, <1>8, <1>9, <1>10, <2>1, HeardKeeps
  <2>2. CASE chains[k].kind = "generate"
    <3> DEFINE n == [e EXCEPT !.at = "note"]
    <3>1. /\ n \in Entries /\ n.at = "note" /\ n.read = b.read /\ n.task = b.task
          /\ n.place = b.place
      BY <1>8, <1>10 DEF Entries
    <3>2. Put(k, i, n) /\ screen' = screen
      BY <1>9, <1>10, <2>2
    <3> HIDE DEF n
    <3>3. PICK c \in Entries : c = n
      BY <3>1
    <3>4. Fit(b, i)'
      BY <1>2, <1>5, FitOnward
    <3>5. Fit(c, i)'
      BY <1>1, <1>5, <1>6, <3>1, <3>3, <3>4 DEF Fit
    <3>6. chains' \in Seq(Chains) /\ ChainsFit'
      BY <1>2, <3>2, <3>3, <3>5, BaseTypes, PutKeeps
    <3> QED BY <3>2, <3>6, BaseTypes
  <2> QED BY <2>1, <2>2
<1> QED BY <1>1, <1>3, <1>11 DEF Base, Sane, TypeOK, Poll, pageVars, ghostVars

(* A slot that has come to the end of its work keeps its types. *)
LEMMA EndKeeps ==
  ASSUME Base, Onward, mount' \in Nat, NEW k \in DOMAIN chains, NEW i \in Slots,
         NEW at \in {"done", "error"}, chains[k].entry[i].at # "off",
         at = "done" => task'[Of(k, i)] # "none", Step(k, i, at)
  PROVE  chains' \in Seq(Chains) /\ ChainsFit'
<1>1. PICK e \in Entries : e = chains[k].entry[i] /\ Fit(e, i) /\ e.task = Of(k, i)
  BY RunningFacts
<1> DEFINE d == [e EXCEPT !.at = at]
<1>2. /\ d \in Entries /\ d.at = at /\ d.read = e.read /\ d.task = e.task
      /\ d.place = e.place
  BY DEF Entries
<1>3. Put(k, i, d)
  BY <1>1 DEF Step
<1> HIDE DEF d
<1>4. PICK c \in Entries : c = d
  BY <1>2
<1>5. Fit(e, i)'
  BY <1>1, FitOnward
<1>6. Fit(c, i)'
  BY <1>1, <1>2, <1>4, <1>5 DEF Fit
<1> QED BY <1>3, <1>4, <1>6, BaseTypes, PutKeeps

LEMMA ResultBase ==
  ASSUME Base, NEW k \in DOMAIN chains, NEW i \in Slots, Result(k, i)
  PROVE  Base'
<1>1. UNCHANGED <<task, mount, shifted, record>>
  BY DEF Result, pageVars, ghostVars
<1>2. Onward /\ mount' \in Nat
  BY <1>1, SameOnward
<1>3. RecordSound'
  BY <1>1, <1>2, RecordOnward
<1>4. chains[k].entry[i].at = "result" /\ Step(k, i, "done")
  BY DEF Result, Running
<1>5. /\ Of(k, i) \in Tasks /\ task'[Of(k, i)] # "none"
      /\ chains[k].entry[i].place \in Slots
  BY <1>1, <1>4, RunningFacts, ChainTypes DEF Fit
<1>6. chains' \in Seq(Chains) /\ ChainsFit'
  BY <1>2, <1>4, <1>5, EndKeeps
<1>7. screen' \in [Slots -> Shown]
  BY <1>5, ShowTypes DEF Result, Shown
<1> QED BY <1>1, <1>3, <1>6, <1>7 DEF Base, Sane, TypeOK, Result, pageVars, ghostVars

LEMMA FailTypes ==
  ASSUME Base, Fail
  PROVE  fails' \in 0..FailBound
BY BoundAssumption DEF Base, TypeOK, Fail

LEMMA SlotFailsBase ==
  ASSUME Base, NEW k \in DOMAIN chains, NEW i \in Slots, SlotFails(k, i)
  PROVE  Base'
<1>1. UNCHANGED <<task, mount, shifted, record>>
  BY DEF SlotFails, pageVars
<1>2. Onward /\ mount' \in Nat
  BY <1>1, SameOnward
<1>3. RecordSound'
  BY <1>1, <1>2, RecordOnward
<1>4. chains[k].entry[i].at \in {"post", "poll", "result"} /\ Step(k, i, "error")
  BY DEF SlotFails, Running
<1>5. Of(k, i) \in Tasks
  BY <1>4, RunningFacts
<1>6. chains' \in Seq(Chains) /\ ChainsFit'
  BY <1>2, <1>4, EndKeeps
<1>7. screen' \in [Slots -> Shown]
  <2>1. CASE chains[k].kind = "generate"
    BY <2>1, ShowTypes DEF SlotFails, Shown
  <2>2. CASE chains[k].kind # "generate"
    BY <2>2, BaseTypes DEF SlotFails
  <2> QED BY <2>1, <2>2
<1>8. fails' \in 0..FailBound
  BY FailTypes DEF SlotFails
<1>9. givenUp' \subseteq Tasks
  BY <1>5 DEF SlotFails, Base, TypeOK
<1> QED BY <1>1, <1>3, <1>6, <1>7, <1>8, <1>9 DEF Base, Sane, TypeOK, SlotFails, pageVars

(* The stage of a chain changes, its slots do not. *)
LEMMA StageKeeps ==
  ASSUME Base, Onward, mount' \in Nat, NEW k \in DOMAIN chains, NEW c \in Chains,
         c.mount = chains[k].mount, c.entry = chains[k].entry, Sound(c.pending)',
         chains' = [chains EXCEPT ![k] = c]
  PROVE  chains' \in Seq(Chains) /\ ChainsFit'
<1>1. PICK b \in Chains : b = chains[k] /\ Fits(b)
  BY BaseTypes
<1>2. Fits(b)'
  BY <1>1, FitsOnward, BaseTypes
<1>3. Fits(c)'
  BY <1>1, <1>2 DEF Fits
<1> QED BY <1>3, TurnKeeps, BaseTypes

LEMMA FinishKeeps ==
  ASSUME Base, Onward, mount' \in Nat, NEW k \in DOMAIN chains, Finish(k)
  PROVE  /\ chains' \in Seq(Chains) /\ ChainsFit'
         /\ running' \in BOOLEAN /\ submitting' \in BOOLEAN /\ restoring' \in BOOLEAN
<1>1. Over \in Chains /\ \A i : Fit(Off, i)'
  BY OffTypes DEF Off, Fit
<1>2. Fits(Over)'
  BY <1>1 DEF Over, Fits, Sound
<1>3. chains' = [chains EXCEPT ![k] = Over]
  BY DEF Finish
<1>4. chains' \in Seq(Chains) /\ ChainsFit'
  BY <1>1, <1>2, <1>3, TurnKeeps, BaseTypes
<1>5. running' \in BOOLEAN /\ submitting' \in BOOLEAN /\ restoring' \in BOOLEAN
  BY DEF Finish, Base, TypeOK
<1> QED BY <1>4, <1>5

LEMMA HeldTypes ==
  ASSUME Base
  PROVE  Held \in SUBSET Tasks
<1>1. CASE record = None
  BY <1>1 DEF Held
<1>2. CASE record # None
  <2>1. record.ids \in Seq(Pairs)
    BY <1>2, BaseTypes, RecordTypes
  <2>2. \A p \in ToSet(record.ids) : p.task \in Tasks
    BY <2>1, RecordTypes DEF ToSet
  <2> QED BY <1>2, <2>2 DEF Held, Named
<1> QED BY <1>1, <1>2

LEMMA ImageTypes ==
  ASSUME Base, NEW k \in DOMAIN chains
  PROVE  Images(k) \in SUBSET Tasks
BY RunningFacts DEF Images

LEMMA SettleBase ==
  ASSUME Base, NEW k \in DOMAIN chains, Settle(k)
  PROVE  Base'
<1>1. UNCHANGED <<task, mount, shifted, record>>
  BY DEF Settle, pageVars, ghostVars
<1>2. Onward /\ mount' \in Nat
  BY <1>1, SameOnward
<1>3. RecordSound'
  BY <1>1, <1>2, RecordOnward
<1>4. PICK b \in Chains : b = chains[k] /\ Fits(b)
  BY BaseTypes
<1>5. PICK its \in SUBSET Tasks :
        its = IF chains[k].kind = "generate" THEN Held
              ELSE {Of(k, i) : i \in {j \in Slots : chains[k].entry[j].at # "off"}}
  BY HeldTypes, RunningFacts
<1>6. PICK at \in {"saved", "saving"} : at = IF Images(k) = {} THEN "saved" ELSE "saving"
  OBVIOUS
<1> DEFINE c == [b EXCEPT !.at = at, !.ids = its]
<1>7. c \in Chains /\ c.mount = b.mount /\ c.entry = b.entry /\ c.pending = b.pending
  BY DEF Chains
<1>8. chains' = [chains EXCEPT ![k] = c]
  BY <1>4, <1>5, <1>6 DEF Settle
<1> HIDE DEF c
<1>9. PICK d \in Chains : d = c
  BY <1>7
<1>10. Sound(d.pending)'
  BY <1>1, <1>4, <1>7, <1>9 DEF Fits, Sound
<1>11. chains' \in Seq(Chains) /\ ChainsFit'
  BY <1>2, <1>4, <1>7, <1>8, <1>9, <1>10, StageKeeps
<1> QED BY <1>1, <1>3, <1>11 DEF Base, Sane, TypeOK, Settle, pageVars, ghostVars

LEMMA SavedAtKeeps ==
  ASSUME Base, UNCHANGED <<task, mount, shifted>>, NEW k \in DOMAIN chains,
         chains' = [chains EXCEPT ![k].at = "saved"]
  PROVE  chains' \in Seq(Chains) /\ ChainsFit'
<1>1. Onward /\ mount' \in Nat
  BY SameOnward
<1>2. PICK b \in Chains : b = chains[k] /\ Fits(b)
  BY BaseTypes
<1> DEFINE c == [b EXCEPT !.at = "saved"]
<1>3. c \in Chains /\ c.mount = b.mount /\ c.entry = b.entry /\ c.pending = b.pending
  BY DEF Chains
<1>4. chains' = [chains EXCEPT ![k] = c]
  BY <1>2
<1> HIDE DEF c
<1>5. PICK d \in Chains : d = c
  BY <1>3
<1>6. Sound(d.pending)'
  BY <1>2, <1>3, <1>5 DEF Fits, Sound
<1> QED BY <1>1, <1>2, <1>3, <1>4, <1>5, <1>6, StageKeeps

LEMMA SavedBase ==
  ASSUME Base, NEW k \in DOMAIN chains, Saved(k)
  PROVE  Base'
<1>1. UNCHANGED <<task, mount, shifted, record>>
  BY DEF Saved, pageVars, ghostVars
<1>2. RecordSound'
  BY <1>1, SameOnward, RecordOnward
<1>3. chains' \in Seq(Chains) /\ ChainsFit'
  BY <1>1, SavedAtKeeps DEF Saved
<1>4. chains[k].ids \in SUBSET Tasks /\ Images(k) \in SUBSET Tasks
  BY BaseTypes, ChainTypes, ImageTypes
<1>5. history' \in Seq([tasks : SUBSET Tasks, images : SUBSET Tasks])
  <2> DEFINE h == [tasks |-> chains[k].ids, images |-> Images(k)]
  <2>1. h \in [tasks : SUBSET Tasks, images : SUBSET Tasks]
    BY <1>4
  <2>2. history' = Append(history, h)
    BY DEF Saved
  <2> HIDE DEF h
  <2> QED BY <2>1, <2>2, AppendProperties DEF Base, TypeOK
<1> QED BY <1>1, <1>2, <1>3, <1>5 DEF Base, Sane, TypeOK, Saved, pageVars, ghostVars

LEMMA SaveFailsBase ==
  ASSUME Base, NEW k \in DOMAIN chains, SaveFails(k)
  PROVE  Base'
<1>1. UNCHANGED <<task, mount, shifted, record>>
  BY DEF SaveFails, pageVars
<1>2. RecordSound'
  BY <1>1, SameOnward, RecordOnward
<1>3. chains' \in Seq(Chains) /\ ChainsFit'
  BY <1>1, SavedAtKeeps DEF SaveFails
<1>4. fails' \in 0..FailBound
  BY FailTypes DEF SaveFails
<1>5. givenUp' \subseteq Tasks
  BY ImageTypes DEF SaveFails, Base, TypeOK
<1> QED BY <1>1, <1>2, <1>3, <1>4, <1>5 DEF Base, Sane, TypeOK, SaveFails, pageVars

LEMMA ForgetBase ==
  ASSUME Base, NEW k \in DOMAIN chains, Forget(k)
  PROVE  Base'
<1>1. UNCHANGED <<task, mount, shifted>> /\ open' = open /\ record' = None /\ Finish(k)
  BY DEF Forget, Finish
<1>2. Onward /\ mount' \in Nat
  BY <1>1, SameOnward
<1>3. /\ chains' \in Seq(Chains) /\ ChainsFit'
      /\ running' \in BOOLEAN /\ submitting' \in BOOLEAN /\ restoring' \in BOOLEAN
  BY <1>1, <1>2, FinishKeeps
<1>4. RecordSound'
  BY <1>1 DEF RecordSound
<1>5. raced' \in BOOLEAN
  BY DEF Forget
<1> QED BY <1>1, <1>3, <1>4, <1>5 DEF Base, Sane, TypeOK, Forget

LEMMA ReadRecordBase ==
  ASSUME Base, NEW k \in DOMAIN chains, ReadRecord(k)
  PROVE  Base'
<1>1. UNCHANGED <<task, mount, shifted, record, open>>
  BY DEF ReadRecord, pageVars, ghostVars, Finish
<1>2. Onward /\ mount' \in Nat
  BY <1>1, SameOnward
<1>3. RecordSound'
  BY <1>1, <1>2, RecordOnward
<1>4. /\ chains' \in Seq(Chains) /\ ChainsFit'
      /\ running' \in BOOLEAN /\ submitting' \in BOOLEAN /\ restoring' \in BOOLEAN
  <2>1. CASE record = None \/ record.ids = <<>>
    BY <1>2, <2>1, FinishKeeps DEF ReadRecord
  <2>2. CASE ~(record = None \/ record.ids = <<>>)
    <3>1. PICK r \in Records : r = record /\ Sound(r.ids)
      BY <2>2, BaseTypes DEF RecordSound
    <3>2. PICK b \in Chains : b = chains[k]
      BY BaseTypes
    <3> DEFINE c == [b EXCEPT !.at = "histories", !.batch = r.batch, !.pending = r.ids]
    <3>3. c \in Chains /\ c.mount = b.mount /\ c.entry = b.entry /\ c.pending = r.ids
      <4>1. r.batch \in 0..BatchBound /\ r.ids \in Seq(Pairs)
        BY RecordTypes, BoundAssumption
      <4> QED BY <4>1 DEF Chains, Pairs
    <3>4. chains' = [chains EXCEPT ![k] = c]
      BY <2>2, <3>1, <3>2 DEF ReadRecord
    <3> HIDE DEF c
    <3>5. PICK d \in Chains : d = c
      BY <3>3
    <3>6. Sound(d.pending)'
      BY <1>1, <3>1, <3>3, <3>5 DEF Sound
    <3>7. chains' \in Seq(Chains) /\ ChainsFit'
      BY <1>2, <3>2, <3>3, <3>4, <3>5, <3>6, StageKeeps
    <3>8. UNCHANGED <<running, submitting, restoring>>
      BY <2>2 DEF ReadRecord, pageVars
    <3> QED BY <3>7, <3>8 DEF Base, TypeOK
  <2> QED BY <2>1, <2>2
<1> QED BY <1>1, <1>3, <1>4 DEF Base, Sane, TypeOK, ReadRecord, ghostVars

(* A list with its order kept is as sound as it was. *)
LEMMA KeptSound ==
  ASSUME NEW ids \in Seq(Pairs), Sound(ids), NEW kept
  PROVE  Kept(ids, kept) \in Seq(Pairs) /\ Sound(Kept(ids, kept))
<1> DEFINE q == Kept(ids, kept)
<1>1. /\ q \in Seq(Pairs)
      /\ \A n \in DOMAIN q : \E j \in DOMAIN ids : q[n] = ids[j] /\ ids[j] \in kept
      /\ \A m, n \in DOMAIN q : m # n =>
           \E i, j \in DOMAIN ids : i # j /\ q[m] = ids[i] /\ q[n] = ids[j]
  BY KeptFacts
<1> HIDE DEF q
<1>2. \A n \in DOMAIN q : q[n].task[2] = q[n].slot /\ task[q[n].task] # "none"
  BY <1>1 DEF Sound
<1>3. ASSUME NEW m \in DOMAIN q, NEW n \in DOMAIN q, q[m].slot = q[n].slot
      PROVE  m = n
  <2> SUFFICES ASSUME m # n PROVE FALSE
    OBVIOUS
  <2>1. PICK i \in DOMAIN ids, j \in DOMAIN ids : i # j /\ q[m] = ids[i] /\ q[n] = ids[j]
    BY <1>1
  <2> QED BY <1>3, <2>1 DEF Sound
<1>4. Sound(q)
  BY <1>2, <1>3 DEF Sound
<1> QED BY <1>1, <1>4 DEF q

LEMMA ReadHistoriesBase ==
  ASSUME Base, NEW k \in DOMAIN chains, ReadHistories(k)
  PROVE  Base'
<1>1. UNCHANGED <<task, mount, shifted, record>>
  BY DEF ReadHistories, pageVars, ghostVars
<1>2. Onward /\ mount' \in Nat
  BY <1>1, SameOnward
<1>3. RecordSound'
  BY <1>1, <1>2, RecordOnward
<1>4. PICK b \in Chains : b = chains[k] /\ Fits(b)
  BY BaseTypes
<1>5. Unsaved(b.pending) \in Seq(Pairs) /\ Sound(Unsaved(b.pending))
  BY <1>4, ChainTypes, KeptSound DEF Fits, Unsaved
<1>6. PICK left \in Seq(Pairs) : left = Unsaved(b.pending) /\ Sound(left)
  BY <1>5
<1>7. PICK at \in {"saved", "tasks"} : at = IF left = <<>> THEN "saved" ELSE "tasks"
  OBVIOUS
<1> DEFINE c == [b EXCEPT !.at = at, !.pending = left]
<1>8. c \in Chains /\ c.mount = b.mount /\ c.entry = b.entry /\ c.pending = left
  BY DEF Chains, Pairs
<1>9. chains' = [chains EXCEPT ![k] = c]
  BY <1>4, <1>6, <1>7 DEF ReadHistories
<1> HIDE DEF c
<1>10. PICK d \in Chains : d = c
  BY <1>8
<1>11. Sound(d.pending)'
  BY <1>1, <1>6, <1>8, <1>10 DEF Sound
<1>12. chains' \in Seq(Chains) /\ ChainsFit'
  BY <1>2, <1>4, <1>8, <1>9, <1>10, <1>11, StageKeeps
<1> QED BY <1>1, <1>3, <1>12 DEF Base, Sane, TypeOK, ReadHistories, pageVars, ghostVars

LEMMA RestoreFailsBase ==
  ASSUME Base, NEW k \in DOMAIN chains, RestoreFails(k)
  PROVE  Base'
<1>1. UNCHANGED <<task, mount, shifted, record, open>> /\ Finish(k)
  BY DEF RestoreFails, Finish
<1>2. Onward /\ mount' \in Nat
  BY <1>1, SameOnward
<1>3. /\ chains' \in Seq(Chains) /\ ChainsFit'
      /\ running' \in BOOLEAN /\ submitting' \in BOOLEAN /\ restoring' \in BOOLEAN
  BY <1>1, <1>2, FinishKeeps
<1>4. RecordSound'
  BY <1>1, <1>2, RecordOnward
<1>5. fails' \in 0..FailBound
  BY FailTypes DEF RestoreFails
<1> QED BY <1>1, <1>3, <1>4, <1>5 DEF Base, Sane, TypeOK, RestoreFails

(* The slots of a chain that resumes the tasks found. *)
Resumed(k, found) ==
  LET pending == chains[k].pending
      active == Kept(pending, found)
      resumed(e) == [Off EXCEPT !.at = "poll", !.task = e.task, !.place = Place(pending, active, e)]
  IN [i \in Slots |-> IF \E e \in found : e.slot = i
                      THEN resumed(CHOOSE e \in found : e.slot = i) ELSE Off]

LEMMA PlaceFacts ==
  ASSUME NEW ids \in Seq(Pairs), NEW found \in SUBSET ToSet(ids), NEW p \in found
  PROVE  /\ Place(ids, Kept(ids, found), p) \in Slots
         /\ Kept(ids, found) = ids => Place(ids, Kept(ids, found), p) = p.slot
<1> DEFINE q == Kept(ids, found)
           n == CHOOSE m \in DOMAIN q : q[m] = p
<1>1. /\ q \in Seq(Pairs) /\ Len(q) <= Len(ids)
      /\ \A j \in DOMAIN ids : ids[j] \in found => \E m \in DOMAIN q : q[m] = ids[j]
  BY KeptFacts
<1>2. PICK j \in DOMAIN ids : ids[j] = p
  BY DEF ToSet
<1> HIDE DEF q
<1>3. n \in DOMAIN q /\ q[n] = p
  <2>1. \E m \in DOMAIN q : q[m] = p
    BY <1>1, <1>2
  <2> QED BY <2>1
<1>4. n \in DOMAIN ids
  <2>1. /\ Len(q) \in Nat /\ Len(ids) \in Nat
        /\ DOMAIN q = 1..Len(q) /\ DOMAIN ids = 1..Len(ids)
    BY <1>1, LenProperties
  <2> HIDE DEF n
  <2> QED BY <1>1, <1>3, <2>1
<1>5. Place(ids, q, p) = ids[n].slot
  BY DEF Place
<1>6. Place(ids, q, p) \in Slots /\ (q = ids => Place(ids, q, p) = p.slot)
  <2> HIDE DEF n
  <2> QED BY <1>3, <1>4, <1>5, RecordTypes
<1> QED BY <1>6 DEF q

LEMMA ResumedFacts ==
  ASSUME Base, NEW k \in DOMAIN chains, NEW found \in SUBSET ToSet(chains[k].pending)
  PROVE  /\ Resumed(k, found) \in [Slots -> Entries]
         /\ \A i \in Slots :
              \/ Resumed(k, found)[i] = Off
              \/ \E p \in found :
                   /\ p.slot = i /\ p.task \in Tasks /\ p.task[2] = i /\ task[p.task] # "none"
                   /\ Resumed(k, found)[i].at = "poll" /\ Resumed(k, found)[i].task = p.task
                   /\ Resumed(k, found)[i].read = None
                   /\ Resumed(k, found)[i].heard = "active"
                   /\ Kept(chains[k].pending, found) = chains[k].pending
                        => Resumed(k, found)[i].place = i
         /\ \A p \in found : p.slot \in Slots /\ Resumed(k, found)[p.slot].at = "poll"
                             /\ Resumed(k, found)[p.slot].task = p.task
<1>1. PICK ids \in Seq(Pairs) : ids = chains[k].pending /\ Sound(ids)
  BY BaseTypes, ChainTypes DEF Fits
<1>2. found \in SUBSET ToSet(ids)
  BY <1>1
<1> DEFINE res(p) == [Off EXCEPT !.at = "poll", !.task = p.task,
                                 !.place = Place(ids, Kept(ids, found), p)]
           the(i) == CHOOSE p \in found : p.slot = i
           r == [i \in Slots |-> IF \E p \in found : p.slot = i THEN res(the(i)) ELSE Off]
<1>3. Resumed(k, found) = r
  BY <1>1 DEF Resumed
<1>4. \A p \in found : \E n \in DOMAIN ids : ids[n] = p
  BY <1>2 DEF ToSet
<1>5. \A p \in found : p \in Pairs /\ p.slot \in Slots /\ p.task \in Tasks
                       /\ p.task[2] = p.slot /\ task[p.task] # "none"
  BY <1>1, <1>4, RecordTypes DEF Sound
<1>6. ASSUME NEW p \in found
      PROVE  /\ res(p) \in Entries /\ res(p).at = "poll" /\ res(p).task = p.task
             /\ res(p).read = None /\ res(p).heard = "active"
             /\ Kept(ids, found) = ids => res(p).place = p.slot
  <2>1. PICK s \in Slots : s = Place(ids, Kept(ids, found), p)
    BY <1>2, PlaceFacts
  <2>2. Kept(ids, found) = ids => s = p.slot
    BY <1>2, <2>1, PlaceFacts
  <2>3. res(p) = [Off EXCEPT !.at = "poll", !.task = p.task, !.place = s]
    BY <2>1
  <2> HIDE DEF res
  <2>4. p.task \in Tasks
    BY <1>5
  <2> QED BY <2>2, <2>3, <2>4 DEF Off, Entries
<1>7. \A p, o \in found : p.slot = o.slot => p = o
  <2> SUFFICES ASSUME NEW p \in found, NEW o \in found, p.slot = o.slot PROVE p = o
    OBVIOUS
  <2>1. PICK m \in DOMAIN ids, n \in DOMAIN ids : ids[m] = p /\ ids[n] = o
    BY <1>4
  <2> QED BY <1>1, <2>1 DEF Sound
<1>8. \A p \in found : the(p.slot) = p
  BY <1>7
<1>9. \A p \in found : r[p.slot] = res(p)
  <2> HIDE DEF res
  <2>1. \A p \in found : r[p.slot] = res(the(p.slot))
    <3> HIDE DEF the
    <3> QED BY <1>5
  <2> HIDE DEF r, the
  <2> QED BY <1>8, <2>1
<1>10. \A i \in Slots : r[i] = Off \/ \E p \in found : p.slot = i
  <2> HIDE DEF res, the
  <2> QED OBVIOUS
<1>11. \A i \in Slots : r[i] = Off \/ \E p \in found : p.slot = i /\ r[i] = res(p)
  <2> HIDE DEF r, res, the
  <2> QED BY <1>9, <1>10
<1>12. r \in [Slots -> {r[i] : i \in Slots}]
  <2> HIDE DEF res, the
  <2> QED OBVIOUS
<1> HIDE DEF r, res, the
<1>13. r \in [Slots -> Entries]
  BY <1>6, <1>11, <1>12, OffTypes
<1>14. \A i \in Slots :
         \/ r[i] = Off
         \/ \E p \in found :
              /\ p.slot = i /\ p.task \in Tasks /\ p.task[2] = i /\ task[p.task] # "none"
              /\ r[i].at = "poll" /\ r[i].task = p.task /\ r[i].read = None
              /\ r[i].heard = "active" /\ (Kept(ids, found) = ids => r[i].place = i)
  <2> SUFFICES ASSUME NEW i \in Slots, r[i] # Off
               PROVE  \E p \in found :
                 /\ p.slot = i /\ p.task \in Tasks /\ p.task[2] = i /\ task[p.task] # "none"
                 /\ r[i].at = "poll" /\ r[i].task = p.task /\ r[i].read = None
                 /\ r[i].heard = "active" /\ (Kept(ids, found) = ids => r[i].place = i)
    OBVIOUS
  <2>1. PICK p \in found : p.slot = i /\ r[i] = res(p)
    BY <1>11
  <2>2. /\ p.task \in Tasks /\ p.task[2] = i /\ task[p.task] # "none"
        /\ r[i].at = "poll" /\ r[i].task = p.task /\ r[i].read = None
        /\ r[i].heard = "active" /\ (Kept(ids, found) = ids => r[i].place = i)
    BY <1>5, <1>6, <2>1
  <2> QED BY <2>1, <2>2
<1>15. \A p \in found : p.slot \in Slots /\ r[p.slot].at = "poll" /\ r[p.slot].task = p.task
  BY <1>5, <1>6, <1>9
<1> QED BY <1>1, <1>3, <1>13, <1>14, <1>15

LEMMA ReadTasksBase ==
  ASSUME Base, NEW k \in DOMAIN chains, NEW found \in SUBSET ToSet(chains[k].pending),
         ReadTasks(k, found)
  PROVE  Base'
<1>1. UNCHANGED <<task, mount, record, open>> /\ (shifted => shifted')
  BY DEF ReadTasks
<1>2. Onward /\ mount' \in Nat
  BY <1>1, SameOnward
<1>3. RecordSound'
  BY <1>1, <1>2, RecordOnward
<1>4. PICK b \in Chains : b = chains[k] /\ Fits(b)
  BY BaseTypes
<1>5. Resumed(k, found) \in [Slots -> Entries]
  BY ResumedFacts
<1>6. PICK r \in [Slots -> Entries] : r = Resumed(k, found)
  BY <1>5
<1> DEFINE c == [b EXCEPT !.at = "slots", !.pending = <<>>, !.entry = r]
<1>7. c \in Chains /\ c.mount = b.mount /\ c.entry = r /\ c.pending = <<>>
  <2>1. <<>> \in Seq(Pairs)
    BY EmptySeq
  <2> QED BY <2>1 DEF Chains, Pairs
<1>8. chains' = [chains EXCEPT ![k] = c]
  BY <1>4, <1>6 DEF ReadTasks, Resumed
<1> HIDE DEF c
<1>9. PICK d \in Chains : d = c
  BY <1>7
<1>10. ~shifted' => Kept(b.pending, found) = b.pending
  BY <1>4 DEF ReadTasks
<1>11. \A i \in Slots : Fit(d.entry[i], i)'
  <2> SUFFICES ASSUME NEW i \in Slots PROVE Fit(d.entry[i], i)'
    OBVIOUS
  <2>1. d.entry[i] = r[i]
    BY <1>7, <1>9
  <2>2. CASE r[i] = Off
    BY <2>1, <2>2 DEF Fit, Off
  <2>3. CASE r[i] # Off
    <3>1. PICK p \in found :
            /\ p.slot = i /\ p.task \in Tasks /\ p.task[2] = i /\ task[p.task] # "none"
            /\ r[i].at = "poll" /\ r[i].task = p.task /\ r[i].read = None
            /\ r[i].heard = "active"
            /\ (Kept(b.pending, found) = b.pending => r[i].place = i)
      BY <1>4, <1>6, <2>3, ResumedFacts
    <3> QED BY <1>1, <1>10, <2>1, <3>1 DEF Fit
  <2> QED BY <2>2, <2>3
<1>12. Fits(d)'
  <2>1. Sound(d.pending)'
    BY <1>7, <1>9 DEF Sound
  <2>2. d.mount <= mount'
    BY <1>1, <1>4, <1>7, <1>9 DEF Fits
  <2> QED BY <1>11, <2>1, <2>2 DEF Fits
<1>13. chains' \in Seq(Chains) /\ ChainsFit'
  BY <1>2, <1>8, <1>9, <1>12, TurnKeeps, BaseTypes
<1>14. screen' \in [Slots -> Shown]
  <2>1. CASE ~Here(k)
    BY <2>1, BaseTypes DEF ReadTasks
  <2>2. CASE Here(k)
    <3>1. PICK W : screen' = [i \in Slots |-> IF i \in W THEN Pending ELSE Failed]
      <4> DEFINE pending == chains[k].pending
                 active == Kept(pending, found)
                 place(e) == Place(pending, active, e)
                 waits(i) ==
                   \E e \in found :
                     /\ task[e.task] # "failed"
                     /\ place(e) = i \/ (e.slot = i /\ \A o \in found : place(o) # i)
                 W == {i \in Slots : waits(i)}
      <4>1. screen' = [i \in Slots |-> IF waits(i) THEN Pending ELSE Failed]
        BY <2>2 DEF ReadTasks
      <4> HIDE DEF waits
      <4>2. screen' = [i \in Slots |-> IF i \in W THEN Pending ELSE Failed]
        BY <4>1
      <4> QED BY <4>2
    <3> QED BY <3>1 DEF Shown
  <2> QED BY <2>1, <2>2
<1>15. running' \in BOOLEAN
  <2>1. running \in BOOLEAN
    BY DEF Base, TypeOK
  <2> QED BY <2>1 DEF ReadTasks
<1>16. shifted' \in BOOLEAN
  BY DEF ReadTasks
<1>17. fails' \in 0..FailBound
  BY FailTypes DEF ReadTasks, Base, TypeOK
<1>18. givenUp' \subseteq Tasks
  <2>1. \A p \in ToSet(b.pending) : p.task \in Tasks
    BY ChainTypes, RecordTypes DEF ToSet
  <2>2. givenUp' = givenUp \cup {e.task : e \in ToSet(b.pending) \ found}
    BY <1>4 DEF ReadTasks
  <2> QED BY <2>1, <2>2 DEF Base, TypeOK
<1>19. UNCHANGED <<task, history, record, open, mount, submitting, restoring, batches, noted,
                   raced, beside>>
  BY DEF ReadTasks
<1> QED BY <1>3, <1>13, <1>14, <1>15, <1>16, <1>17, <1>18, <1>19 DEF Base, Sane, TypeOK

LEMMA GenerateBase ==
  ASSUME Base, Generate
  PROVE  Base'
<1>1. UNCHANGED <<task, history, open, mount, restoring, fails, noted, shifted, givenUp>>
  BY DEF Generate
<1>2. Onward /\ mount' \in Nat
  BY <1>1, SameOnward
<1>3. batches' = batches + 1 /\ batches' \in 1..BatchBound
  BY BoundAssumption DEF Generate, Base, TypeOK
<1>4. PICK n \in 1..BatchBound : n = batches'
  BY <1>3
<1> DEFINE posted(i) == [Off EXCEPT !.at = "post", !.task = <<n, i>>, !.place = i]
           c == [Over EXCEPT !.kind = "generate", !.mount = mount, !.at = "slots", !.batch = n,
                             !.entry = [i \in Slots |-> posted(i)]]
<1>5. chains' = Append(chains, c)
  BY <1>4 DEF Generate
<1>6. \A i \in Slots : /\ posted(i) \in Entries /\ posted(i).at = "post"
                       /\ posted(i).task = <<n, i>> /\ <<n, i>> \in Tasks
                       /\ posted(i).read = None /\ posted(i).place = i
  BY DEF Off, Entries, Tasks
<1> HIDE DEF posted
<1>7. /\ c \in Chains /\ c.mount = mount /\ c.pending = <<>>
      /\ \A i \in Slots : c.entry[i] = posted(i)
  <2>1. [i \in Slots |-> posted(i)] \in [Slots -> Entries]
    BY <1>6
  <2>2. n \in 0..BatchBound /\ mount \in 0..MountBound
    BY BaseTypes
  <2>3. <<>> \in Seq(Pairs)
    BY EmptySeq
  <2> QED BY <2>1, <2>2, <2>3 DEF Over, Chains, Pairs
<1> HIDE DEF c
<1>8. PICK d \in Chains : d = c
  BY <1>7
<1>9. Fits(d)'
  <2>1. Sound(d.pending)'
    BY <1>7, <1>8 DEF Sound
  <2>2. d.mount <= mount'
    BY <1>1, <1>7, <1>8, BaseTypes
  <2>3. ASSUME NEW i \in Slots PROVE Fit(d.entry[i], i)'
    <3>1. PICK e \in Entries : e = d.entry[i]
      BY <1>6, <1>7, <1>8
    <3>2. /\ e.at = "post" /\ e.task = <<n, i>> /\ e.task \in Tasks /\ e.read = None
          /\ e.place = i
      BY <1>6, <1>7, <1>8, <3>1
    <3>3. e.task[2] = i
      BY <3>2
    <3> QED BY <3>1, <3>2, <3>3 DEF Fit
  <2> QED BY <2>1, <2>2, <2>3 DEF Fits
<1>10. chains' \in Seq(Chains) /\ ChainsFit'
  BY <1>2, <1>5, <1>8, <1>9, BeginKeeps, BaseTypes
<1>11. record' = [batch |-> n, ids |-> <<>>]
  BY <1>4 DEF Generate
<1>12. record' \in Records /\ record'.ids = <<>>
  <2>1. <<>> \in Seq(Pairs)
    BY EmptySeq
  <2> QED BY <1>11, <2>1 DEF Records, Pairs
<1>13. RecordSound'
  BY <1>12 DEF RecordSound, Sound
<1>14. /\ screen' \in [Slots -> Shown] /\ running' \in BOOLEAN /\ submitting' \in BOOLEAN
       /\ raced' \in BOOLEAN /\ beside' \in BOOLEAN /\ batches' \in 0..BatchBound
  BY <1>3 DEF Generate, Shown
<1> QED BY <1>1, <1>10, <1>12, <1>13, <1>14 DEF Base, Sane, TypeOK

LEMMA OpenBase ==
  ASSUME Base, Open
  PROVE  Base'
<1>1. UNCHANGED <<task, history, record, screen, running, submitting, batches, fails, noted,
                  raced, shifted, givenUp>>
  BY DEF Open
<1>2. mount' = mount + 1 /\ mount' \in 0..MountBound /\ mount' \in Nat
  BY BaseTypes, BoundAssumption DEF Open
<1>3. Onward
  BY <1>1, <1>2, BaseTypes DEF Onward
<1>4. RecordSound'
  BY <1>1, <1>3, RecordOnward
<1>5. PICK n \in 0..MountBound : n = mount'
  BY <1>2
<1> DEFINE c == [Over EXCEPT !.kind = "restore", !.mount = n, !.at = "record"]
<1>6. chains' = Append(chains, c)
  BY <1>5 DEF Open
<1>7. /\ c \in Chains /\ c.mount = n /\ c.pending = <<>>
      /\ \A i \in Slots : c.entry[i] = Off
  <2>1. Over \in Chains
    BY OffTypes
  <2> QED BY <2>1 DEF Over, Chains
<1> HIDE DEF c
<1>8. PICK d \in Chains : d = c
  BY <1>7
<1>9. Fits(d)'
  <2>1. Sound(d.pending)'
    BY <1>7, <1>8 DEF Sound
  <2>2. d.mount <= mount'
    BY <1>2, <1>5, <1>7, <1>8
  <2>3. \A i \in Slots : Fit(d.entry[i], i)'
    BY <1>7, <1>8 DEF Fit, Off
  <2> QED BY <2>1, <2>2, <2>3 DEF Fits
<1>10. chains' \in Seq(Chains) /\ ChainsFit'
  BY <1>2, <1>3, <1>6, <1>8, <1>9, BeginKeeps, BaseTypes
<1>11. open' \in BOOLEAN /\ restoring' \in BOOLEAN /\ beside' \in BOOLEAN
  BY DEF Open
<1> QED BY <1>1, <1>2, <1>4, <1>10, <1>11 DEF Base, Sane, TypeOK

LEMMA LeaveBase ==
  ASSUME Base, Leave
  PROVE  Base'
<1>1. UNCHANGED <<task, mount, shifted, record, chains>>
  BY DEF Leave, ghostVars
<1>2. RecordSound' /\ ChainsFit'
  BY <1>1, SameOnward, RecordOnward, ChainsOnward
<1>3. screen' \in [Slots -> Shown]
  BY DEF Leave, Shown
<1> QED BY <1>2, <1>3 DEF Base, Sane, TypeOK, Leave, ghostVars

LEMMA ReloadBase ==
  ASSUME Base, Reload
  PROVE  Base'
<1>1. UNCHANGED <<task, mount, shifted, record>>
  BY DEF Reload, ghostVars
<1>2. RecordSound'
  BY <1>1, SameOnward, RecordOnward
<1>3. Over \in Chains /\ \A i : Fit(Off, i)'
  BY OffTypes DEF Fit, Off
<1>4. Fits(Over)'
  BY <1>1, <1>3, BaseTypes DEF Over, Fits, Sound
<1>5. chains' = [k \in DOMAIN chains |-> Over]
  BY DEF Reload
<1>6. chains' \in Seq(Chains)
  <2>1. Len(chains) \in Nat /\ DOMAIN chains = 1..Len(chains)
    BY BaseTypes, LenProperties
  <2>2. chains' \in [1..Len(chains) -> Chains]
    BY <1>3, <1>5, <2>1
  <2> QED BY <2>1, <2>2, SeqDef
<1>7. ChainsFit'
  <2>1. \A k \in DOMAIN chains' : chains'[k] = Over
    BY <1>5
  <2>2. ASSUME NEW k \in DOMAIN chains' PROVE Fits(chains[k])'
    <3>1. chains'[k].pending = <<>> /\ chains'[k].mount = 0 /\ \A i \in Slots : chains'[k].entry[i] = Off
      BY <2>1 DEF Over
    <3>2. Sound(chains[k].pending)'
      BY <3>1 DEF Sound
    <3>3. chains'[k].mount <= mount'
      BY <1>1, <3>1, BaseTypes
    <3>4. ASSUME NEW i \in Slots PROVE Fit(chains[k].entry[i], i)'
      BY <3>1 DEF Fit, Off
    <3> QED BY <3>2, <3>3, <3>4 DEF Fits
  <2> QED BY <2>2 DEF ChainsFit
<1>8. screen' \in [Slots -> Shown] /\ open' \in BOOLEAN /\ running' \in BOOLEAN
      /\ submitting' \in BOOLEAN /\ restoring' \in BOOLEAN
  BY DEF Reload, Shown
<1>9. TypeOK
  BY DEF Base
<1>10. UNCHANGED <<task, history, record, mount, batches, fails, ghostVars>>
  BY DEF Reload
<1>11. TypeOK'
  BY <1>6, <1>8, <1>9, <1>10 DEF TypeOK, ghostVars
<1> QED BY <1>2, <1>7, <1>11 DEF Base, Sane

LEMMA InitBase ==
  ASSUME Init
  PROVE  Base
<1>1. chains \in Seq(Chains) /\ history \in Seq([tasks : SUBSET Tasks, images : SUBSET Tasks])
  BY EmptySeq DEF Init
<1>2. RecordSound /\ ChainsFit
  BY DEF Init, RecordSound, ChainsFit
<1>3. /\ task \in [Tasks -> {"none", "active", "succeeded", "failed"}]
      /\ record \in Records \cup {None} /\ open \in BOOLEAN
      /\ screen \in [Slots -> Shown]
      /\ running \in BOOLEAN /\ submitting \in BOOLEAN /\ restoring \in BOOLEAN
  BY DEF Init, Shown
<1>4. mount \in 0..MountBound /\ batches \in 0..BatchBound /\ fails \in 0..FailBound
  BY BoundAssumption DEF Init
<1>5. /\ noted \subseteq Tasks /\ givenUp \subseteq Tasks
      /\ raced \in BOOLEAN /\ beside \in BOOLEAN /\ shifted \in BOOLEAN
  BY DEF Init
<1> QED BY <1>1, <1>2, <1>3, <1>4, <1>5 DEF Base, Sane, TypeOK

(* The steps of a chain, one by one. *)
LEMMA ChainCases ==
  ASSUME NEW k \in DOMAIN chains, Chain(k)
  PROVE  \/ \E i \in Slots : \/ Submitted(k, i) \/ NoteRead(k, i) \/ NoteWrite(k, i)
                             \/ Poll(k, i) \/ Result(k, i) \/ SlotFails(k, i)
         \/ Settle(k) \/ Saved(k) \/ SaveFails(k) \/ Forget(k)
         \/ ReadRecord(k) \/ ReadHistories(k) \/ RestoreFails(k)
         \/ \E found \in SUBSET ToSet(chains[k].pending) : ReadTasks(k, found)
BY ZenonT(60) DEF Chain, Slot

LEMMA ChainBase ==
  ASSUME Base, NEW k \in DOMAIN chains, Chain(k)
  PROVE  Base'
<1>1. ASSUME NEW i \in Slots, \/ Submitted(k, i) \/ NoteRead(k, i) \/ NoteWrite(k, i)
                              \/ Poll(k, i) \/ Result(k, i) \/ SlotFails(k, i)
      PROVE  Base'
  BY <1>1, SubmittedBase, NoteReadBase, NoteWriteBase, PollBase, ResultBase, SlotFailsBase
<1>2. ASSUME \/ Settle(k) \/ Saved(k) \/ SaveFails(k) \/ Forget(k)
             \/ ReadRecord(k) \/ ReadHistories(k) \/ RestoreFails(k)
      PROVE  Base'
  BY <1>2, SettleBase, SavedBase, SaveFailsBase, ForgetBase, ReadRecordBase,
     ReadHistoriesBase, RestoreFailsBase
<1>3. ASSUME NEW found \in SUBSET ToSet(chains[k].pending), ReadTasks(k, found)
      PROVE  Base'
  BY <1>3, ReadTasksBase
<1> QED BY <1>1, <1>2, <1>3, ChainCases

LEMMA NextBase ==
  ASSUME Base, [Next]_vars
  PROVE  Base'
<1>1. CASE Server
  BY <1>1, TaskEndsBase DEF Server
<1>2. CASE User
  BY <1>2, GenerateBase, LeaveBase, ReloadBase, OpenBase, CancelBase DEF User
<1>3. ASSUME NEW k \in DOMAIN chains, Chain(k)
      PROVE  Base'
  BY <1>3, ChainBase
<1>4. CASE UNCHANGED vars
  <2>1. Onward
    BY <1>4, SameOnward DEF vars, pageVars, ghostVars
  <2>2. RecordSound' /\ ChainsFit'
    BY <1>4, <2>1, BaseTypes, RecordOnward, ChainsOnward DEF vars, pageVars
  <2>3. TypeOK'
    BY <1>4 DEF Base, TypeOK, vars, pageVars, ghostVars
  <2> QED BY <2>2, <2>3 DEF Base, Sane
<1> QED BY <1>1, <1>2, <1>3, <1>4 DEF Next

(* Every list of tasks, of the record, of a chain or of what a slot read    *)
(* before it writes, names a slot and a task of that slot once, and a slot  *)
(* that polls has a task the server knows.                                  *)
THEOREM BaseKept == Spec => []Base
<1>1. Init => Base
  BY InitBase
<1>2. Base /\ [Next]_vars => Base'
  BY NextBase
<1> QED BY <1>1, <1>2, PTL DEF Spec

(* Every variable of the workbench keeps to its type: a chain's slots name *)
(* tasks of the batches submitted, whatever order its requests end in.     *)
THEOREM TypeCorrect == Spec => []TypeOK
<1>1. Base => TypeOK
  BY DEF Base
<1> QED BY <1>1, BaseKept, PTL

-----------------------------------------------------------------------------
(* What the screen shows.  As long as every task of a record was found and *)
(* none given up, a slot that shows a generation is one of a chain of this *)
(* mount which is still at work on that very slot.                         *)

Active(e) == e.at \notin {"off", "done", "error"}
AwaitedBy(c, i) ==
  c.kind # "over" /\ open /\ c.mount = mount /\ c.at = "slots" /\ Active(c.entry[i])
Blank == ~open => \A i \in Slots : screen[i] = None
Awaited ==
  ~shifted /\ givenUp = {} =>
    \A i \in Slots : screen[i] = Pending => \E k \in DOMAIN chains : AwaitedBy(chains[k], i)
ScreenInv == Blank /\ Awaited /\ ImagesInPlace

(* A chain changes: what it no longer awaits is not shown as such.         *)
LEMMA AwaitedTurn ==
  ASSUME Base, Awaited, NEW k \in DOMAIN chains, NEW c \in Chains,
         chains' = [chains EXCEPT ![k] = c], UNCHANGED <<open, mount>>, shifted => shifted',
         ~shifted' /\ givenUp' = {} => givenUp = {} /\ \A i \in Slots : screen'[i] = Pending =>
           AwaitedBy(c, i) \/ (screen[i] = Pending /\ ~AwaitedBy(chains[k], i))
  PROVE  Awaited'
<1> SUFFICES ASSUME ~shifted', givenUp' = {}, NEW i \in Slots, screen'[i] = Pending
             PROVE  \E l \in DOMAIN chains' : AwaitedBy(chains[l], i)'
  BY DEF Awaited
<1>1. /\ DOMAIN chains' = DOMAIN chains /\ chains'[k] = c
      /\ \A l \in DOMAIN chains : l # k => chains'[l] = chains[l]
  BY TurnFacts, BaseTypes
<1>2. givenUp = {} /\ ~shifted
      /\ (AwaitedBy(c, i) \/ (screen[i] = Pending /\ ~AwaitedBy(chains[k], i)))
  OBVIOUS
<1>3. CASE AwaitedBy(c, i)
  BY <1>1, <1>3 DEF AwaitedBy
<1>4. CASE screen[i] = Pending /\ ~AwaitedBy(chains[k], i)
  <2>1. PICK l \in DOMAIN chains : AwaitedBy(chains[l], i)
    BY <1>2, <1>4 DEF Awaited
  <2>2. chains'[l] = chains[l]
    BY <1>1, <1>4, <2>1
  <2> QED BY <1>1, <2>1, <2>2 DEF AwaitedBy
<1> QED BY <1>2, <1>3, <1>4

(* A slot at work goes on. *)
LEMMA AwaitedSlot ==
  ASSUME Base, Awaited, NEW k \in DOMAIN chains, NEW i \in Slots, NEW e \in Entries,
         k \in Working, chains[k].at = "slots", Put(k, i, e),
         UNCHANGED <<open, mount>>, shifted => shifted',
         ~shifted' /\ givenUp' = {} =>
           /\ givenUp = {}
           /\ \A j \in Slots : j # i => screen'[j] = screen[j]
           /\ screen'[i] = Pending => (IF Here(k) THEN Active(e) ELSE screen[i] = Pending)
  PROVE  Awaited'
<1>1. PICK d \in Chains :
        /\ chains' = [chains EXCEPT ![k] = d]
        /\ d.kind = chains[k].kind /\ d.mount = chains[k].mount /\ d.at = chains[k].at
        /\ d.entry[i] = e /\ \A j \in Slots : j # i => d.entry[j] = chains[k].entry[j]
  <2> DEFINE m == Moved(k, i, e)
  <2>1. /\ m \in Chains /\ chains' = [chains EXCEPT ![k] = m]
        /\ m.kind = chains[k].kind /\ m.mount = chains[k].mount /\ m.at = chains[k].at
        /\ m.entry[i] = e /\ \A j \in Slots : j # i => m.entry[j] = chains[k].entry[j]
    BY PutFacts, BaseTypes
  <2> HIDE DEF m
  <2> QED BY <2>1
<1>2. ASSUME ~shifted', givenUp' = {}, NEW j \in Slots, screen'[j] = Pending
      PROVE  AwaitedBy(d, j) \/ (screen[j] = Pending /\ ~AwaitedBy(chains[k], j))
  <2>1. CASE j # i
    BY <1>1, <1>2, <2>1 DEF AwaitedBy
  <2>2. CASE j = i
    BY <1>1, <1>2, <2>2 DEF AwaitedBy, Here, Working
  <2> QED BY <2>1, <2>2
<1> QED BY <1>1, <1>2, AwaitedTurn

LEMMA ShowFacts ==
  ASSUME Base, NEW k \in DOMAIN chains, NEW i \in Slots, NEW v, Show(k, i, v)
  PROVE  /\ \A j \in Slots : j # i => screen'[j] = screen[j]
         /\ screen'[i] = IF Here(k) /\ screen[i] # None THEN v ELSE screen[i]
BY BaseTypes DEF Show

(* What every step owes the screen but for what is awaited. *)
LEMMA ShowInPlace ==
  ASSUME Base, Blank, ImagesInPlace, NEW k \in DOMAIN chains, NEW p \in Slots, NEW v,
         Show(k, p, v), UNCHANGED <<open, shifted>>, ~shifted => (v \in Tasks => v[2] = p)
  PROVE  Blank' /\ ImagesInPlace'
<1>1. Blank'
  BY ShowFacts DEF Blank, Here
<1>2. ImagesInPlace'
  BY ShowFacts DEF ImagesInPlace
<1> QED BY <1>1, <1>2

LEMMA HeardShown ==
  ASSUME Base, ScreenInv, NEW k \in DOMAIN chains, NEW i \in Slots, NEW e \in Entries,
         k \in Working, chains[k].at = "slots", Heard(k, i, e), ~shifted => e.place = i,
         UNCHANGED <<open, mount, shifted, givenUp>>
  PROVE  ScreenInv'
<1> DEFINE d == [e EXCEPT !.at = After(e), !.heard = "active", !.read = None]
<1>1. After(e) \in {"poll", "result", "error"} /\ (e.heard # "failed" => After(e) # "error")
  BY ChainTypes DEF After
<1>2. d \in Entries /\ d.at = After(e)
  BY <1>1 DEF Entries
<1>3. Put(k, i, d) /\ Show(k, e.place, Outcome(e))
  BY DEF Heard
<1> HIDE DEF d
<1>4. e.place \in Slots /\ Outcome(e) \in {Pending, Failed} /\ Outcome(e) \notin Tasks
      /\ (Outcome(e) = Pending => e.heard # "failed")
  BY ChainTypes, ShownAssumption DEF Outcome
<1>5. Blank' /\ ImagesInPlace'
  BY <1>3, <1>4, ShowInPlace DEF ScreenInv
<1>6. Awaited'
  <2>1. ASSUME ~shifted'
        PROVE  /\ \A j \in Slots : j # i => screen'[j] = screen[j]
               /\ screen'[i] = Pending => (IF Here(k) THEN Active(d) ELSE screen[i] = Pending)
    <3>1. /\ \A j \in Slots : j # i => screen'[j] = screen[j]
          /\ screen'[i] = IF Here(k) /\ screen[i] # None THEN Outcome(e) ELSE screen[i]
      BY <1>3, <2>1, ShowFacts
    <3>2. None # Pending
      BY ShownAssumption
    <3> QED BY <1>1, <1>2, <1>4, <3>1, <3>2 DEF Active
  <2> QED BY <1>2, <1>3, <2>1, AwaitedSlot DEF ScreenInv
<1> QED BY <1>5, <1>6 DEF ScreenInv

(* The screen as it was, and a slot that is still at work. *)
LEMMA SameShown ==
  ASSUME Base, ScreenInv, NEW k \in DOMAIN chains, NEW i \in Slots, NEW e \in Entries,
         k \in Working, chains[k].at = "slots", Put(k, i, e), Active(e),
         UNCHANGED <<screen, open, mount, shifted, givenUp>>
  PROVE  ScreenInv'
<1>1. Awaited'
  BY AwaitedSlot DEF ScreenInv
<1> QED BY <1>1 DEF ScreenInv, Blank, ImagesInPlace

(* The screen as it was, and a chain whose slots are not at work. *)
LEMMA StageShown ==
  ASSUME Base, ScreenInv, NEW k \in DOMAIN chains, NEW c \in Chains,
         chains' = [chains EXCEPT ![k] = c],
         \A i \in Slots : ~AwaitedBy(chains[k], i),
         UNCHANGED <<screen, open, mount, shifted>>, givenUp \subseteq givenUp'
  PROVE  ScreenInv'
<1>1. Awaited'
  BY AwaitedTurn DEF ScreenInv
<1> QED BY <1>1 DEF ScreenInv, Blank, ImagesInPlace

LEMMA SlotShown ==
  ASSUME Base, ScreenInv, NEW k \in DOMAIN chains, NEW i \in Slots,
         \/ Submitted(k, i) \/ NoteRead(k, i) \/ NoteWrite(k, i)
         \/ Poll(k, i) \/ Result(k, i) \/ SlotFails(k, i)
  PROVE  ScreenInv'
<1>1. PICK e \in Entries : e = chains[k].entry[i] /\ Fit(e, i)
  BY BaseTypes
<1>2. k \in Working /\ chains[k].at = "slots" /\ e.at # "off"
  BY <1>1 DEF Submitted, NoteRead, NoteWrite, Poll, Result, SlotFails, Running
<1>3. e.task = Of(k, i) /\ e.task \in Tasks /\ e.task[2] = i /\ (~shifted => e.place = i)
      /\ e.place \in Slots
  BY <1>1, <1>2, ChainTypes DEF Of, Fit
<1>4. CASE Submitted(k, i)
  <2> DEFINE d == [e EXCEPT !.at = "note"]
  <2>1. d \in Entries /\ Active(d)
    BY DEF Entries, Active
  <2>2. Put(k, i, d) /\ UNCHANGED <<screen, open, mount, shifted, givenUp>>
    BY <1>1, <1>4 DEF Submitted, Step, pageVars, ghostVars
  <2> HIDE DEF d
  <2> QED BY <1>2, <2>1, <2>2, SameShown
<1>5. CASE NoteRead(k, i)
  <2>1. UNCHANGED <<open, mount, shifted, givenUp>>
    BY <1>5 DEF NoteRead, pageVars, ghostVars
  <2>2. CASE record = None
    BY <1>1, <1>2, <1>3, <1>5, <2>1, <2>2, HeardShown DEF NoteRead
  <2>3. CASE record # None
    <3>1. PICK r \in Records : r = record
      BY <2>3, BaseTypes
    <3> DEFINE d == [e EXCEPT !.at = "write", !.read = r]
    <3>2. d \in Entries /\ Active(d)
      BY DEF Entries, Active
    <3>3. Put(k, i, d) /\ UNCHANGED screen
      BY <1>1, <1>5, <2>3, <3>1 DEF NoteRead
    <3> HIDE DEF d
    <3> QED BY <1>2, <2>1, <3>2, <3>3, SameShown
  <2> QED BY <2>2, <2>3
<1>6. CASE NoteWrite(k, i)
  BY <1>1, <1>2, <1>3, <1>6, HeardShown DEF NoteWrite, pageVars
<1>7. CASE Poll(k, i)
  <2>1. UNCHANGED <<open, mount, shifted, givenUp>>
    BY <1>7 DEF Poll, pageVars, ghostVars
  <2>2. PICK h \in {"active", "succeeded", "failed"} : h = task[Of(k, i)]
    BY <1>1, <1>3, <1>7, BaseTypes DEF Fit, Poll, Running
  <2> DEFINE d == [e EXCEPT !.heard = h]
  <2>3. d \in Entries /\ d.place = e.place
    BY DEF Entries
  <2>4. IF chains[k].kind = "generate"
        THEN Put(k, i, [d EXCEPT !.at = "note"]) /\ UNCHANGED screen
        ELSE Heard(k, i, d)
    BY <1>1, <1>7, <2>2 DEF Poll
  <2> HIDE DEF d
  <2>5. CASE chains[k].kind # "generate"
    BY <1>2, <1>3, <2>1, <2>3, <2>4, <2>5, HeardShown
  <2>6. CASE chains[k].kind = "generate"
    <3> DEFINE n == [d EXCEPT !.at = "note"]
    <3>1. n \in Entries /\ Active(n)
      BY <2>3 DEF Entries, Active
    <3>2. Put(k, i, n) /\ UNCHANGED screen
      BY <2>4, <2>6
    <3> HIDE DEF n
    <3> QED BY <1>2, <2>1, <3>1, <3>2, SameShown
  <2> QED BY <2>5, <2>6
<1>8. CASE Result(k, i)
  <2> DEFINE d == [e EXCEPT !.at = "done"]
  <2>1. d \in Entries
    BY DEF Entries
  <2>2. Put(k, i, d) /\ Show(k, e.place, e.task) /\ UNCHANGED <<open, mount, shifted, givenUp>>
    BY <1>1, <1>3, <1>8 DEF Result, Step, pageVars, ghostVars
  <2> HIDE DEF d
  <2>3. Blank' /\ ImagesInPlace'
    BY <1>3, <2>2, ShowInPlace DEF ScreenInv
  <2>4. ASSUME ~shifted'
        PROVE  /\ \A j \in Slots : j # i => screen'[j] = screen[j]
               /\ screen'[i] = Pending => (IF Here(k) THEN Active(d) ELSE screen[i] = Pending)
    <3>1. e.task # Pending /\ None # Pending
      BY <1>3, ShownAssumption
    <3> QED BY <1>3, <2>2, <2>4, <3>1, ShowFacts
  <2>5. Awaited'
    BY <1>2, <2>1, <2>2, <2>4, AwaitedSlot DEF ScreenInv
  <2> QED BY <2>3, <2>5 DEF ScreenInv
<1>9. CASE SlotFails(k, i)
  <2>1. givenUp' # {} /\ UNCHANGED <<open, shifted>>
    BY <1>9 DEF SlotFails, pageVars
  <2>2. CASE chains[k].kind = "generate"
    <3>1. Show(k, i, Failed)
      BY <1>9, <2>2 DEF SlotFails
    <3>2. Failed \notin Tasks
      BY ShownAssumption
    <3>3. Blank' /\ ImagesInPlace'
      BY <2>1, <3>1, <3>2, ShowInPlace DEF ScreenInv
    <3> QED BY <2>1, <3>3 DEF ScreenInv, Awaited
  <2>3. CASE chains[k].kind # "generate"
    <3>1. screen' = screen
      BY <1>9, <2>3 DEF SlotFails
    <3> QED BY <2>1, <3>1 DEF ScreenInv, Awaited, Blank, ImagesInPlace
  <2> QED BY <2>2, <2>3
<1> QED BY <1>4, <1>5, <1>6, <1>7, <1>8, <1>9

LEMMA FinishShown ==
  ASSUME Base, ScreenInv, NEW k \in DOMAIN chains, Finish(k), chains[k].at # "slots",
         UNCHANGED <<screen, mount, shifted, givenUp>>
  PROVE  ScreenInv'
<1>1. chains' = [chains EXCEPT ![k] = Over] /\ open' = open
  BY DEF Finish
<1>2. \A i \in Slots : ~AwaitedBy(chains[k], i)
  BY DEF AwaitedBy
<1> QED BY <1>1, <1>2, OffTypes, StageShown

(* Each stage but that of the slots leaves the screen alone. *)
LEMMA StagesShown ==
  ASSUME Base, ScreenInv, NEW k \in DOMAIN chains,
         \/ Settle(k) \/ Saved(k) \/ SaveFails(k) \/ Forget(k)
         \/ ReadRecord(k) \/ ReadHistories(k) \/ RestoreFails(k)
  PROVE  ScreenInv'
<1>1. PICK b \in Chains : b = chains[k]
  BY BaseTypes
<1>2. CASE Settle(k)
  <2>1. \A i \in Slots : ~AwaitedBy(chains[k], i)
    BY <1>2 DEF Settle, Ended, AwaitedBy, Active
  <2>2. chains' \in Seq(Chains)
    <3>1. Base'
      BY <1>2, SettleBase
    <3> QED BY <3>1, BaseTypes DEF Base, TypeOK
  <2>3. DOMAIN chains' = DOMAIN chains /\ chains' = [chains EXCEPT ![k] = chains'[k]]
    BY <1>2, BaseTypes DEF Settle
  <2>4. PICK c \in Chains : c = chains'[k]
    BY <2>2, <2>3, ElementOfSeq, LenProperties
  <2> QED BY <1>2, <2>1, <2>3, <2>4, StageShown DEF Settle, pageVars, ghostVars
<1>3. CASE Saved(k) \/ SaveFails(k)
  <2> DEFINE c == [b EXCEPT !.at = "saved"]
  <2>1. c \in Chains /\ chains' = [chains EXCEPT ![k] = c]
    BY <1>1, <1>3 DEF Saved, SaveFails, Chains
  <2> HIDE DEF c
  <2>2. \A i \in Slots : ~AwaitedBy(chains[k], i)
    BY <1>3 DEF Saved, SaveFails, AwaitedBy
  <2>3. UNCHANGED <<screen, open, mount, shifted>> /\ givenUp \subseteq givenUp'
    BY <1>3 DEF Saved, SaveFails, pageVars, ghostVars
  <2> QED BY <2>1, <2>2, <2>3, StageShown
<1>4. CASE Forget(k) \/ RestoreFails(k)
  BY <1>4, FinishShown DEF Forget, RestoreFails, Restoring, Finish
<1>5. CASE ReadRecord(k)
  <2>1. chains[k].at # "slots" /\ UNCHANGED <<screen, shifted, givenUp>>
    BY <1>5 DEF ReadRecord, Restoring, ghostVars
  <2>2. CASE record = None \/ record.ids = <<>>
    BY <1>5, <2>1, <2>2, FinishShown DEF ReadRecord, Finish
  <2>3. CASE ~(record = None \/ record.ids = <<>>)
    <3>1. PICK r \in Records : r = record
      BY <2>3, BaseTypes
    <3> DEFINE c == [b EXCEPT !.at = "histories", !.batch = r.batch, !.pending = r.ids]
    <3>2. c \in Chains
      <4>1. r.batch \in 0..BatchBound /\ r.ids \in Seq(Pairs)
        BY RecordTypes, BoundAssumption
      <4> QED BY <4>1 DEF Chains, Pairs
    <3>3. chains' = [chains EXCEPT ![k] = c] /\ UNCHANGED <<open, mount>>
      BY <1>1, <1>5, <2>3, <3>1 DEF ReadRecord, pageVars
    <3> HIDE DEF c
    <3>4. \A i \in Slots : ~AwaitedBy(chains[k], i)
      BY <2>1 DEF AwaitedBy
    <3> QED BY <2>1, <3>2, <3>3, <3>4, StageShown
  <2> QED BY <2>2, <2>3
<1>6. CASE ReadHistories(k)
  <2>1. Unsaved(b.pending) \in Seq(Pairs)
    BY <1>1, BaseTypes, ChainTypes, KeptSound DEF Fits, Unsaved
  <2>2. PICK left \in Seq(Pairs) : left = Unsaved(b.pending)
    BY <2>1
  <2>3. PICK at \in {"saved", "tasks"} : at = IF left = <<>> THEN "saved" ELSE "tasks"
    OBVIOUS
  <2> DEFINE c == [b EXCEPT !.at = at, !.pending = left]
  <2>4. c \in Chains
    BY DEF Chains, Pairs
  <2>5. chains' = [chains EXCEPT ![k] = c]
    BY <1>1, <1>6, <2>2, <2>3 DEF ReadHistories
  <2> HIDE DEF c
  <2>6. \A i \in Slots : ~AwaitedBy(chains[k], i)
    BY <1>6 DEF ReadHistories, Restoring, AwaitedBy
  <2> QED BY <1>6, <2>4, <2>5, <2>6, StageShown DEF ReadHistories, pageVars, ghostVars
<1> QED BY <1>2, <1>3, <1>4, <1>5, <1>6

LEMMA ReadTasksShown ==
  ASSUME Base, ScreenInv, NEW k \in DOMAIN chains,
         NEW found \in SUBSET ToSet(chains[k].pending), ReadTasks(k, found)
  PROVE  ScreenInv'
<1>1. /\ UNCHANGED <<open, mount>> /\ (shifted => shifted') /\ givenUp \subseteq givenUp'
      /\ chains[k].kind = "restore" /\ chains[k].at = "tasks"
  BY DEF ReadTasks, Restoring
<1>2. PICK b \in Chains : b = chains[k]
  BY BaseTypes
<1>3. PICK r \in [Slots -> Entries] : r = Resumed(k, found)
  BY ResumedFacts
<1> DEFINE c == [b EXCEPT !.at = "slots", !.pending = <<>>, !.entry = r]
<1>4. /\ c \in Chains /\ c.mount = b.mount /\ c.entry = r /\ c.at = "slots"
      /\ c.kind = b.kind
  <2>1. <<>> \in Seq(Pairs)
    BY EmptySeq
  <2> QED BY <2>1 DEF Chains, Pairs
<1>5. chains' = [chains EXCEPT ![k] = c]
  BY <1>2, <1>3 DEF ReadTasks, Resumed
<1> HIDE DEF c
<1>6. CASE ~Here(k)
  <2>1. screen' = screen
    BY <1>6 DEF ReadTasks
  <2>2. \A i \in Slots : ~AwaitedBy(chains[k], i)
    BY <1>1 DEF AwaitedBy
  <2>3. Awaited'
    BY <1>1, <1>4, <1>5, <2>1, <2>2, AwaitedTurn DEF ScreenInv
  <2> QED BY <1>1, <2>1, <2>3 DEF ScreenInv, Blank, ImagesInPlace
<1>7. CASE Here(k)
  <2> DEFINE place(e) == Place(b.pending, Kept(b.pending, found), e)
             waits(i) ==
               \E e \in found :
                 /\ task[e.task] # "failed"
                 /\ place(e) = i \/ (e.slot = i /\ \A o \in found : place(o) # i)
  <2>1. screen' = [i \in Slots |-> IF waits(i) THEN Pending ELSE Failed]
    BY <1>2, <1>7 DEF ReadTasks
  <2> HIDE DEF waits
  <2>2. \A i \in Slots : /\ screen'[i] = Pending => waits(i)
                         /\ screen'[i] \notin Tasks
    BY <2>1, ShownAssumption
  <2>3. ASSUME ~shifted', NEW i \in Slots, screen'[i] = Pending
        PROVE  AwaitedBy(c, i)
    <3>1. PICK p \in found : place(p) = i \/ p.slot = i
      <4>1. waits(i)
        BY <2>2, <2>3
      <4> QED BY <4>1 DEF waits
    <3>2. Kept(b.pending, found) = b.pending
      BY <1>2, <2>3 DEF ReadTasks
    <3>3. b.pending \in Seq(Pairs) /\ found \in SUBSET ToSet(b.pending)
      BY <1>2, ChainTypes
    <3>4. place(p) = p.slot
      BY <3>2, <3>3, PlaceFacts
    <3>5. p.slot = i
      BY <3>1, <3>4
    <3>6. r[i].at = "poll"
      BY <1>3, <3>5, ResumedFacts
    <3> QED BY <1>1, <1>2, <1>4, <1>7, <3>6 DEF AwaitedBy, Active, Here
  <2>4. Awaited'
    BY <1>1, <1>4, <1>5, <2>3, AwaitedTurn DEF ScreenInv
  <2>5. Blank' /\ ImagesInPlace'
    BY <1>1, <1>7, <2>2 DEF Blank, ImagesInPlace, Here
  <2> QED BY <2>4, <2>5 DEF ScreenInv
<1> QED BY <1>6, <1>7

LEMMA GenerateShown ==
  ASSUME Base, ScreenInv, Generate
  PROVE  ScreenInv'
<1>1. /\ open /\ UNCHANGED <<open, mount, shifted, givenUp>>
      /\ screen' = [i \in Slots |-> Pending]
  BY DEF Generate
<1>2. PICK n : n = batches'
  OBVIOUS
<1> DEFINE posted(i) == [Off EXCEPT !.at = "post", !.task = <<n, i>>, !.place = i]
           c == [Over EXCEPT !.kind = "generate", !.mount = mount, !.at = "slots", !.batch = n,
                             !.entry = [i \in Slots |-> posted(i)]]
<1>3. chains' = Append(chains, c)
  BY <1>2 DEF Generate
<1>4. \A i \in Slots : posted(i).at = "post"
  BY DEF Off
<1> HIDE DEF posted
<1>5. /\ c.kind = "generate" /\ c.mount = mount /\ c.at = "slots"
      /\ \A i \in Slots : c.entry[i] = posted(i)
  BY DEF Over
<1> HIDE DEF c
<1>6. Len(chains) \in Nat /\ Len(chains') = Len(chains) + 1
      /\ DOMAIN chains' = 1..(Len(chains) + 1) /\ chains'[Len(chains) + 1] = c
  <2>1. Base' /\ chains' \in Seq(Chains)
    BY GenerateBase, BaseTypes DEF Base, TypeOK
  <2>2. Len(chains) \in Nat /\ chains \in Seq(Chains)
    BY BaseTypes, LenProperties
  <2>3. Len(chains') = Len(chains) + 1 /\ chains'[Len(chains) + 1] = c
    <3>1. chains \in Seq(Chains \cup {c}) /\ c \in Chains \cup {c}
      BY BaseTypes, SeqMonotonic
    <3> QED BY <1>3, <3>1, AppendProperties
  <2> QED BY <2>1, <2>2, <2>3, LenProperties
<1>7. Len(chains) + 1 \in DOMAIN chains'
  BY <1>6
<1>8. Awaited'
  <2> DEFINE l == Len(chains) + 1
  <2>1. l \in DOMAIN chains' /\ chains'[l] = c
    BY <1>6, <1>7
  <2> HIDE DEF l
  <2>2. PICK m \in DOMAIN chains' : m = l
    BY <2>1
  <2>3. \A i \in Slots : AwaitedBy(chains[m], i)'
    BY <1>1, <1>4, <1>5, <2>1, <2>2 DEF AwaitedBy, Active
  <2> QED BY <2>3 DEF Awaited
<1>9. Blank' /\ ImagesInPlace'
  BY <1>1, ShownAssumption DEF Blank, ImagesInPlace
<1> QED BY <1>8, <1>9 DEF ScreenInv

LEMMA OpenShown ==
  ASSUME Base, ScreenInv, Open
  PROVE  ScreenInv'
<1>1. open' /\ screen' = screen /\ \A i \in Slots : screen[i] = None
  BY DEF Open, ScreenInv, Blank
<1>2. None # Pending /\ None \notin Tasks
  BY ShownAssumption, NoneAssumption
<1> QED BY <1>1, <1>2 DEF ScreenInv, Blank, Awaited, ImagesInPlace

LEMMA ClosedShown ==
  ASSUME Leave \/ Reload
  PROVE  ScreenInv'
<1>1. \A i \in Slots : screen'[i] = None
  BY DEF Leave, Reload
<1>2. None # Pending /\ None \notin Tasks
  BY ShownAssumption, NoneAssumption
<1> QED BY <1>1, <1>2 DEF ScreenInv, Blank, Awaited, ImagesInPlace

LEMMA CancelShown ==
  ASSUME Base, ScreenInv, NEW k \in DOMAIN chains, NEW i \in Slots, Cancel(k, i)
  PROVE  ScreenInv'
<1>1. /\ UNCHANGED <<open, mount, shifted, givenUp, chains>>
      /\ Show(k, chains[k].entry[i].place, Failed) /\ chains[k].entry[i].place \in Slots
  BY BaseTypes, ChainTypes DEF Cancel, pageVars, ghostVars
<1>2. PICK p \in Slots : p = chains[k].entry[i].place
  BY <1>1
<1>3. Failed \notin Tasks /\ Failed # Pending
  BY ShownAssumption
<1>4. Blank' /\ ImagesInPlace'
  BY <1>1, <1>2, <1>3, ShowInPlace DEF ScreenInv
<1>5. \A j \in Slots : screen'[j] = Pending => screen[j] = Pending
  BY <1>1, <1>2, <1>3, ShowFacts
<1>6. Awaited'
  BY <1>1, <1>5 DEF ScreenInv, Awaited, AwaitedBy
<1> QED BY <1>4, <1>6 DEF ScreenInv

LEMMA NextShown ==
  ASSUME Base, ScreenInv, [Next]_vars
  PROVE  ScreenInv'
<1>1. CASE Server
  <2>1. UNCHANGED <<screen, open, mount, shifted, givenUp, chains>>
    BY <1>1 DEF Server, TaskEnds, pageVars, ghostVars
  <2> QED BY <2>1 DEF ScreenInv, Blank, Awaited, AwaitedBy, ImagesInPlace
<1>2. CASE User
  BY <1>2, GenerateShown, OpenShown, ClosedShown, CancelShown DEF User
<1>3. ASSUME NEW k \in DOMAIN chains, Chain(k)
      PROVE  ScreenInv'
  <2>1. ASSUME NEW i \in Slots, \/ Submitted(k, i) \/ NoteRead(k, i) \/ NoteWrite(k, i)
                                \/ Poll(k, i) \/ Result(k, i) \/ SlotFails(k, i)
        PROVE  ScreenInv'
    BY <2>1, SlotShown
  <2>2. ASSUME \/ Settle(k) \/ Saved(k) \/ SaveFails(k) \/ Forget(k)
               \/ ReadRecord(k) \/ ReadHistories(k) \/ RestoreFails(k)
        PROVE  ScreenInv'
    BY <2>2, StagesShown
  <2>3. ASSUME NEW found \in SUBSET ToSet(chains[k].pending), ReadTasks(k, found)
        PROVE  ScreenInv'
    BY <2>3, ReadTasksShown
  <2> QED BY <1>3, <2>1, <2>2, <2>3, ChainCases
<1>4. CASE UNCHANGED vars
  BY <1>4 DEF vars, pageVars, ghostVars, ScreenInv, Blank, Awaited, AwaitedBy, ImagesInPlace
<1> QED BY <1>1, <1>2, <1>3, <1>4 DEF Next

LEMMA InitShown ==
  ASSUME Init
  PROVE  ScreenInv
BY NoneAssumption, ShownAssumption DEF Init, ScreenInv, Blank, Awaited, ImagesInPlace

(* A slot that says it is waiting is waited for by a chain of the page      *)
(* shown whose task there still runs, whatever updateResultAt of another    *)
(* chain did before; a page that is left shows nothing.                     *)
THEOREM ScreenKept == Spec => []ScreenInv
<1>1. Init => ScreenInv
  BY InitShown
<1>2. Base /\ ScreenInv /\ [Next]_vars => ScreenInv'
  BY NextShown
<1> QED BY <1>1, <1>2, BaseKept, PTL DEF Spec

(* As long as every task of a record was found when it was restored, each   *)
(* image is shown in the slot it was submitted for: generate counts the     *)
(* slots, resumeGenerationTask takes them from the record.                  *)
THEOREM Images_InPlace == Spec => []ImagesInPlace
<1>1. ScreenInv => ImagesInPlace
  BY DEF ScreenInv
<1> QED BY <1>1, ScreenKept, PTL

(* When no task was lost or given up, no slot waits for a generation when   *)
(* nothing of this mount is at work.                                        *)
THEOREM Nothing_Waits == Spec => []NothingWaitsForNothing
<1>1. ScreenInv => NothingWaitsForNothing
  <2>1. \A k \in DOMAIN chains, i \in Slots : AwaitedBy(chains[k], i) => k \in Working /\ Here(k)
    BY DEF AwaitedBy, Working, Here
  <2> QED BY <2>1 DEF ScreenInv, Awaited, NothingWaitsForNothing
<1> QED BY <1>1, ScreenKept, PTL

-----------------------------------------------------------------------------
(* A chain by itself.  As long as no chain began beside another there is    *)
(* one at most.  One that generates works on the last batch, none of whose  *)
(* tasks is in the history before it is saved, and the record names no      *)
(* task of another batch; one that restores works on tasks of the record    *)
(* that no entry of the history names.                                      *)

In(t) == Entered(t) # {}
Mine(ids) == \A n \in DOMAIN ids : ids[n].task[1] = batches
Tasked(c) == {c.entry[i].task : i \in {j \in Slots : c.entry[j].at # "off"}}
One == \A k, l \in Working : k = l
Once ==
  /\ \A t \in Tasks : \A m, n \in Entered(t) : m = n
  /\ \A t \in Tasks : In(t) => t[1] <= batches /\ (t \in Listed \/ t \notin Held)
  /\ \A t \in Tasks : task[t] # "none" => t[1] <= batches
Generating(c) ==
  /\ c.at \in {"slots", "saving"} => \A t \in Tasks : t[1] = batches => ~In(t)
  /\ c.at \in {"slots", "saving", "saved"} /\ (record # None => Mine(record.ids))
  /\ \A i \in Slots : /\ c.entry[i].at # "off" /\ c.entry[i].task = <<batches, i>>
                      /\ c.entry[i].read # None => Mine(c.entry[i].read.ids)
  /\ c.at = "saving" => c.ids = Held
Restored(c) ==
  /\ c.at = "histories" => Named(c.pending) \subseteq Held
  /\ c.at = "tasks" => Named(c.pending) \subseteq Held \ Listed
  /\ c.at \in {"slots", "saving"} => \A t \in Tasked(c) : ~In(t)
  /\ c.at = "saving" => c.ids = Tasked(c)
  /\ \A i \in Slots : c.entry[i].at \notin {"post", "note", "write"}
Single(c) ==
  /\ c.kind = "generate" => Generating(c)
  /\ c.kind = "restore" => Restored(c)
OnceInv == ~beside => One /\ Once /\ \A k \in Working : Single(chains[k])

LEMMA NamedFacts ==
  ASSUME NEW ids \in Seq(Pairs)
  PROVE  /\ Named(ids) \in SUBSET Tasks
         /\ \A t : t \in Named(ids) <=> \E n \in DOMAIN ids : ids[n].task = t
BY RecordTypes DEF Named, ToSet

LEMMA UnsavedFacts ==
  ASSUME NEW ids \in Seq(Pairs)
  PROVE  /\ Unsaved(ids) \in Seq(Pairs)
         /\ \A t : t \in Named(Unsaved(ids)) <=> t \in Named(ids) /\ t \notin Listed
<1> DEFINE kept == {e \in ToSet(ids) : e.task \notin Listed}
           q == Kept(ids, kept)
<1>1. /\ q \in Seq(Pairs)
      /\ \A n \in DOMAIN q : \E j \in DOMAIN ids : q[n] = ids[j] /\ ids[j] \in kept
      /\ \A j \in DOMAIN ids : ids[j] \in kept => \E n \in DOMAIN q : q[n] = ids[j]
  <2> HIDE DEF kept
  <2> QED BY KeptFacts
<1>2. \A j \in DOMAIN ids : ids[j] \in kept <=> ids[j].task \notin Listed
  BY DEF ToSet
<1>3. q = Unsaved(ids)
  BY DEF Unsaved
<1> HIDE DEF q, kept
<1>4. \A t : t \in Named(q) <=> \E n \in DOMAIN q : q[n].task = t
  BY <1>1, NamedFacts
<1>5. \A t : t \in Named(ids) <=> \E n \in DOMAIN ids : ids[n].task = t
  BY NamedFacts
<1>6. ASSUME NEW t PROVE t \in Named(q) <=> t \in Named(ids) /\ t \notin Listed
  <2>1. ASSUME t \in Named(q) PROVE t \in Named(ids) /\ t \notin Listed
    <3>1. PICK n \in DOMAIN q : q[n].task = t
      BY <1>4, <2>1
    <3>2. PICK j \in DOMAIN ids : q[n] = ids[j] /\ ids[j] \in kept
      BY <1>1
    <3> QED BY <1>2, <1>5, <3>1, <3>2
  <2>2. ASSUME t \in Named(ids), t \notin Listed PROVE t \in Named(q)
    <3>1. PICK j \in DOMAIN ids : ids[j].task = t
      BY <1>5, <2>2
    <3>2. PICK n \in DOMAIN q : q[n] = ids[j]
      BY <1>1, <1>2, <2>2, <3>1
    <3> QED BY <1>4, <3>1, <3>2
  <2> QED BY <2>1, <2>2
<1> QED BY <1>1, <1>3, <1>6

LEMMA SameFacts ==
  ASSUME UNCHANGED <<history, record, batches>>
  PROVE  /\ Held' = Held /\ Listed' = Listed
         /\ \A t : In(t)' <=> In(t)
         /\ \A t : Entered(t)' = Entered(t)
         /\ \A ids : Mine(ids)' <=> Mine(ids)
         /\ \A c : Single(c) => Single(c)'
<1>1. Held' = Held /\ Listed' = Listed
  BY DEF Held, Listed
<1>2. \A t : Entered(t)' = Entered(t)
  BY DEF Entered
<1>3. \A t : In(t)' <=> In(t)
  BY <1>2 DEF In
<1>4. \A ids : Mine(ids)' <=> Mine(ids)
  BY DEF Mine
<1>5. ASSUME NEW c, Single(c) PROVE Single(c)'
  <2>1. c.kind = "generate" => Generating(c)'
    BY <1>1, <1>3, <1>4, <1>5 DEF Single, Generating
  <2>2. c.kind = "restore" => Restored(c)'
    BY <1>1, <1>3, <1>5 DEF Single, Restored, Tasked
  <2> QED BY <2>1, <2>2 DEF Single
<1> QED BY <1>1, <1>2, <1>3, <1>4, <1>5

LEMMA SameOnce ==
  ASSUME Once, UNCHANGED <<history, record, batches>>,
         \A t \in Tasks : task'[t] # "none" => task[t] # "none" \/ t[1] <= batches
  PROVE  Once'
BY SameFacts DEF Once

(* The chain at work makes a step. *)
LEMMA OnceTurn ==
  ASSUME Base, OnceInv, NEW k \in Working, NEW c \in Chains,
         chains' = [chains EXCEPT ![k] = c], beside' = beside,
         ~beside => Once' /\ (c.kind # "over" => Single(c)')
  PROVE  OnceInv'
<1> SUFFICES ASSUME ~beside' PROVE One' /\ Once' /\ (\A l \in Working : Single(chains[l]))'
  BY DEF OnceInv
<1>1. k \in DOMAIN chains /\ (\A l \in Working : l = k)
  BY DEF OnceInv, One, Working
<1>2. /\ DOMAIN chains' = DOMAIN chains /\ chains'[k] = c
      /\ \A l \in DOMAIN chains : l # k => chains'[l] = chains[l]
  BY <1>1, TurnFacts, BaseTypes
<1>3. \A l \in Working' : l = k /\ c.kind # "over"
  BY <1>1, <1>2 DEF Working
<1>4. One'
  BY <1>3 DEF One
<1>5. (\A l \in Working : Single(chains[l]))'
  BY <1>2, <1>3 DEF Single, Generating, Restored
<1> QED BY <1>4, <1>5

LEMMA AloneFacts ==
  ASSUME Base, OnceInv, ~beside, NEW k \in Working
  PROVE  /\ Once /\ Single(chains[k]) /\ k \in DOMAIN chains /\ chains[k] \in Chains
         /\ chains[k].kind \in {"generate", "restore"}
         /\ chains[k].kind = "generate" => Generating(chains[k])
         /\ chains[k].kind = "restore" => Restored(chains[k])
<1>1. Once /\ Single(chains[k]) /\ k \in DOMAIN chains
  BY DEF OnceInv, Working
<1>2. chains[k] \in Chains /\ chains[k].kind # "over"
  BY <1>1, BaseTypes DEF Working
<1> QED BY <1>1, <1>2, ChainTypes DEF Single

(* A slot at work goes on. *)
LEMMA OnceSlot ==
  ASSUME Base, OnceInv, NEW k \in Working, NEW i \in Slots, NEW e \in Entries,
         chains[k].at = "slots", chains[k].entry[i].at # "off", Put(k, i, e), e.at # "off",
         e.task = Of(k, i), UNCHANGED <<history, batches, beside>>,
         ~beside /\ chains[k].kind = "restore" =>
            UNCHANGED record /\ e.at \notin {"post", "note", "write"},
         ~beside /\ chains[k].kind = "generate" =>
            /\ e.read # None => Mine(e.read.ids)
            /\ record' # None => Mine(record.ids)',
         ~beside => Once'
  PROVE  OnceInv'
<1>1. k \in DOMAIN chains
  BY DEF Working
<1>2. PICK d \in Chains :
        /\ chains' = [chains EXCEPT ![k] = d]
        /\ d.kind = chains[k].kind /\ d.at = chains[k].at
        /\ d.entry[i] = e /\ \A j \in Slots : j # i => d.entry[j] = chains[k].entry[j]
  <2> DEFINE m == Moved(k, i, e)
  <2>1. /\ m \in Chains /\ chains' = [chains EXCEPT ![k] = m]
        /\ m.kind = chains[k].kind /\ m.at = chains[k].at
        /\ m.entry[i] = e /\ \A j \in Slots : j # i => m.entry[j] = chains[k].entry[j]
    BY <1>1, PutFacts, BaseTypes
  <2> HIDE DEF m
  <2> QED BY <2>1
<1>3. (\A t : In(t)' <=> In(t)) /\ (\A ids : Mine(ids)' <=> Mine(ids))
  BY DEF In, Entered, Mine
<1>4. ASSUME ~beside PROVE Single(d)'
  <2>1. CASE chains[k].kind = "generate"
    <3>1. Generating(chains[k])
      BY <1>4, <2>1, AloneFacts
    <3>2. \A j \in Slots : /\ d.entry[j].at # "off" /\ d.entry[j].task = <<batches, j>>
                           /\ d.entry[j].read # None => Mine(d.entry[j].read.ids)
      <4> SUFFICES ASSUME NEW j \in Slots
                   PROVE  /\ d.entry[j].at # "off" /\ d.entry[j].task = <<batches, j>>
                          /\ d.entry[j].read # None => Mine(d.entry[j].read.ids)
        OBVIOUS
      <4>1. CASE j = i
        BY <1>2, <1>4, <2>1, <3>1, <4>1 DEF Generating, Of
      <4>2. CASE j # i
        BY <1>2, <3>1, <4>2 DEF Generating
      <4> QED BY <4>1, <4>2
    <3>3. Generating(d)'
      <4>1. d.at = "slots" /\ batches' = batches /\ (record' # None => Mine(record.ids)')
        BY <1>2, <1>4, <2>1
      <4>2. \A t \in Tasks : t[1] = batches => ~In(t)
        BY <3>1 DEF Generating
      <4> QED BY <1>3, <3>2, <4>1, <4>2 DEF Generating
    <3> QED BY <1>2, <2>1, <3>3 DEF Single
  <2>2. CASE chains[k].kind = "restore"
    <3>1. Restored(chains[k])
      BY <1>4, <2>2, AloneFacts
    <3>2. Tasked(d) = Tasked(chains[k])
      BY <1>2 DEF Tasked, Of
    <3>3. d.at = "slots" /\ e.at \notin {"post", "note", "write"}
      BY <1>2, <1>4, <2>2
    <3>4. \A j \in Slots : d.entry[j].at \notin {"post", "note", "write"}
      BY <1>2, <3>1, <3>3 DEF Restored
    <3>5. \A t \in Tasked(d) : ~In(t)
      BY <3>1, <3>2 DEF Restored
    <3>6. Restored(d)'
      BY <1>3, <3>3, <3>4, <3>5 DEF Restored, Tasked
    <3> QED BY <1>2, <2>2, <3>6 DEF Single
  <2> QED BY <1>4, <2>1, <2>2, AloneFacts
<1> QED BY <1>2, <1>4, OnceTurn

(* It goes on and the record, the tasks and the history stay.              *)
LEMMA OnceSlotSame ==
  ASSUME Base, OnceInv, NEW k \in Working, NEW i \in Slots, NEW e \in Entries,
         chains[k].at = "slots", chains[k].entry[i].at # "off", Put(k, i, e), e.at # "off",
         e.task = Of(k, i), UNCHANGED <<task, history, batches, beside, record>>,
         e.at \in {"post", "note", "write"} => chains[k].kind = "generate",
         e.read \in {None, record, chains[k].entry[i].read}
  PROVE  OnceInv'
<1>1. ASSUME ~beside, chains[k].kind = "generate"
      PROVE  (e.read # None => Mine(e.read.ids)) /\ (record' # None => Mine(record.ids)')
  BY <1>1, AloneFacts, SameFacts DEF Generating
<1>2. ~beside => Once'
  BY SameOnce DEF OnceInv
<1> QED BY <1>1, <1>2, OnceSlot

LEMMA HeardPut ==
  ASSUME NEW k, NEW i, NEW e \in Entries, Heard(k, i, e)
  PROVE  \E d \in Entries :
           /\ Put(k, i, d) /\ d.at = After(e) /\ d.at \in {"poll", "result", "error"}
           /\ d.task = e.task /\ d.read = None /\ d.heard = "active"
<1> DEFINE d == [e EXCEPT !.at = After(e), !.heard = "active", !.read = None]
<1>1. After(e) \in {"poll", "result", "error"}
  BY ChainTypes DEF After
<1>2. /\ d \in Entries /\ d.at = After(e) /\ d.task = e.task /\ d.read = None
      /\ d.heard = "active"
  BY <1>1 DEF Entries
<1>3. Put(k, i, d)
  BY DEF Heard
<1> HIDE DEF d
<1> QED BY <1>1, <1>2, <1>3

LEMMA NoteWriteOnce ==
  ASSUME Base, OnceInv, NEW k \in DOMAIN chains, NEW i \in Slots, NoteWrite(k, i)
  PROVE  OnceInv'
<1>1. PICK e \in Entries : e = chains[k].entry[i] /\ Fit(e, i)
  BY BaseTypes
<1>2. /\ k \in Working /\ chains[k].at = "slots" /\ e.at = "write" /\ e.task = Of(k, i)
      /\ e.task \in Tasks /\ e.read # None /\ UNCHANGED <<task, history, batches, beside>>
  BY <1>1 DEF NoteWrite, Running, Of, Fit
<1>3. PICK r \in Records : r = e.read
  BY <1>2, ChainTypes
<1> DEFINE w == With(r.ids, i, e.task)
<1>4. Heard(k, i, e) /\ record' = [r EXCEPT !.ids = w]
  BY <1>1, <1>3 DEF NoteWrite
<1>5. w \in Seq(Pairs) /\ r.ids \in Seq(Pairs)
  BY <1>2, RecordTypes, WithFacts
<1>6. \A n \in DOMAIN w : w[n].task = e.task \/ \E m \in DOMAIN r.ids : w[n] = r.ids[m]
  <2> SUFFICES ASSUME NEW n \in DOMAIN w
               PROVE  w[n].task = e.task \/ \E m \in DOMAIN r.ids : w[n] = r.ids[m]
    OBVIOUS
  <2>1. w[n] = [slot |-> i, task |-> e.task] \/ (n \in DOMAIN r.ids /\ w[n] = r.ids[n])
    BY <1>2, <1>5, WithFacts
  <2> HIDE DEF w
  <2> QED BY <2>1
<1> HIDE DEF w
<1>7. record' \in Records /\ record'.ids = w /\ record' # None
  <2>1. record' \in Records /\ record'.ids = w
    BY <1>4, <1>5 DEF Records, Pairs
  <2> QED BY <2>1, RecordTypes
<1>8. PICK d \in Entries :
        /\ Put(k, i, d) /\ d.at \in {"poll", "result", "error"}
        /\ d.task = e.task /\ d.read = None
  BY <1>4, HeardPut
<1>9. ASSUME ~beside
      PROVE  chains[k].kind = "generate" /\ Mine(record.ids)' /\ Once'
  <2>1. chains[k].kind = "generate" /\ Generating(chains[k]) /\ Once
    <3>1. ~Restored(chains[k])
      BY <1>1, <1>2 DEF Restored
    <3> QED BY <1>2, <1>9, <3>1, AloneFacts
  <2>2. e.task = <<batches, i>> /\ Mine(r.ids) /\ \A t \in Tasks : t[1] = batches => ~In(t)
    BY <1>1, <1>2, <1>3, <2>1 DEF Generating
  <2>3. \A n \in DOMAIN w : w[n].task[1] = batches
    BY <1>6, <2>2 DEF Mine
  <2>4. Mine(record.ids)'
    BY <1>2, <1>7, <2>3 DEF Mine
  <2>5. \A t \in Held' : t[1] = batches
    <3>1. Held' = Named(record.ids)'
      BY <1>7 DEF Held
    <3>2. \A t \in Named(w) : t[1] = batches
      BY <1>5, <2>3, NamedFacts
    <3> QED BY <1>7, <3>1, <3>2 DEF Named
  <2>6. Listed' = Listed /\ (\A t : Entered(t)' = Entered(t)) /\ (\A t : In(t)' <=> In(t))
    BY <1>2 DEF Listed, In, Entered
  <2>7. Once'
    BY <1>2, <2>1, <2>2, <2>5, <2>6 DEF Once
  <2> QED BY <2>1, <2>4, <2>7
<1> QED BY <1>1, <1>2, <1>8, <1>9, OnceSlot

LEMMA SlotOnce ==
  ASSUME Base, OnceInv, NEW k \in DOMAIN chains, NEW i \in Slots,
         \/ Submitted(k, i) \/ NoteRead(k, i) \/ NoteWrite(k, i)
         \/ Poll(k, i) \/ Result(k, i) \/ SlotFails(k, i)
  PROVE  OnceInv'
<1>1. PICK e \in Entries : e = chains[k].entry[i] /\ Fit(e, i)
  BY BaseTypes
<1>2. k \in Working /\ chains[k].at = "slots" /\ e.at # "off" /\ e.task = Of(k, i)
      /\ e.task \in Tasks
  BY <1>1 DEF Submitted, NoteRead, NoteWrite, Poll, Result, SlotFails, Running, Of, Fit
<1>3. CASE Submitted(k, i)
  <2> DEFINE d == [e EXCEPT !.at = "note"]
  <2>1. d \in Entries /\ d.at = "note" /\ d.task = e.task /\ d.read = e.read
    BY DEF Entries
  <2>2. /\ Put(k, i, d) /\ e.at = "post" /\ UNCHANGED <<history, batches, beside, record>>
        /\ task' = [task EXCEPT ![e.task] = "active"]
    BY <1>1, <1>2, <1>3 DEF Submitted, Step, Running, ghostVars
  <2> HIDE DEF d
  <2>3. ASSUME ~beside
        PROVE  /\ chains[k].kind = "generate" /\ Once'
               /\ d.read # None => Mine(d.read.ids)
               /\ record' # None => Mine(record.ids)'
    <3>1. chains[k].kind = "generate" /\ Generating(chains[k]) /\ Once
      <4>1. ~Restored(chains[k])
        BY <1>1, <2>2 DEF Restored
      <4> QED BY <1>2, <2>3, <4>1, AloneFacts
    <3>2. e.task = <<batches, i>> /\ batches \in Nat
      BY <1>1, <3>1, BoundAssumption DEF Generating, Base, TypeOK
    <3>3. \A t \in Tasks : task'[t] # "none" => task[t] # "none" \/ t[1] <= batches
      BY <1>2, <2>2, <3>2, BaseTypes
    <3>4. Once'
      BY <2>2, <3>1, <3>3, SameOnce
    <3>5. d.read # None => Mine(d.read.ids)
      BY <1>1, <2>1, <3>1 DEF Generating
    <3>6. record' # None => Mine(record.ids)'
      BY <2>2, <3>1, SameFacts DEF Generating
    <3> QED BY <3>1, <3>4, <3>5, <3>6
  <2> QED BY <1>1, <1>2, <2>1, <2>2, <2>3, OnceSlot
<1>4. CASE NoteRead(k, i)
  <2>1. UNCHANGED <<task, history, batches, beside, record>> /\ e.at = "note"
    BY <1>1, <1>4 DEF NoteRead, ghostVars, Running
  <2>2. CASE record = None
    <3>1. PICK d \in Entries :
            /\ Put(k, i, d) /\ d.at \in {"poll", "result", "error"}
            /\ d.task = e.task /\ d.read = None
      BY <1>1, <1>4, <2>2, HeardPut DEF NoteRead
    <3> QED BY <1>1, <1>2, <2>1, <3>1, OnceSlotSame
  <2>3. CASE record # None
    <3>1. PICK r \in Records : r = record
      BY <2>3, BaseTypes
    <3> DEFINE d == [e EXCEPT !.at = "write", !.read = r]
    <3>2. d \in Entries /\ d.at = "write" /\ d.task = e.task /\ d.read = r
      BY DEF Entries
    <3>3. Put(k, i, d)
      BY <1>1, <1>4, <2>3, <3>1 DEF NoteRead
    <3> HIDE DEF d
    <3>4. ~beside => chains[k].kind = "generate" /\ Generating(chains[k]) /\ Once
      <4>1. ~Restored(chains[k])
        BY <1>1, <2>1 DEF Restored
      <4> QED BY <1>2, <4>1, AloneFacts
    <3>5. ~beside => /\ d.read # None => Mine(d.read.ids)
                     /\ record' # None => Mine(record.ids)'
                     /\ Once'
      BY <2>1, <2>3, <3>1, <3>2, <3>4, SameFacts, SameOnce DEF Generating
    <3> QED BY <1>1, <1>2, <2>1, <3>2, <3>3, <3>4, <3>5, OnceSlot
  <2> QED BY <2>2, <2>3
<1>5. CASE NoteWrite(k, i)
  BY <1>5, NoteWriteOnce
<1>6. CASE Poll(k, i)
  <2>1. UNCHANGED <<task, history, batches, beside, record>> /\ e.at = "poll"
    BY <1>1, <1>6 DEF Poll, ghostVars, Running
  <2>2. PICK h \in {"active", "succeeded", "failed"} : h = task[Of(k, i)]
    BY <1>1, <1>2, <2>1, BaseTypes DEF Fit
  <2> DEFINE d == [e EXCEPT !.heard = h]
  <2>3. d \in Entries /\ d.task = e.task /\ d.read = e.read
    BY DEF Entries
  <2>4. IF chains[k].kind = "generate"
        THEN Put(k, i, [d EXCEPT !.at = "note"]) /\ UNCHANGED screen
        ELSE Heard(k, i, d)
    BY <1>1, <1>6, <2>2 DEF Poll
  <2> HIDE DEF d
  <2>5. CASE chains[k].kind # "generate"
    <3>1. PICK n \in Entries :
            /\ Put(k, i, n) /\ n.at \in {"poll", "result", "error"}
            /\ n.task = d.task /\ n.read = None
      BY <2>3, <2>4, <2>5, HeardPut
    <3> QED BY <1>1, <1>2, <2>1, <2>3, <3>1, OnceSlotSame
  <2>6. CASE chains[k].kind = "generate"
    <3> DEFINE n == [d EXCEPT !.at = "note"]
    <3>1. n \in Entries /\ n.at = "note" /\ n.task = e.task /\ n.read = e.read
      BY <2>3 DEF Entries
    <3>2. Put(k, i, n)
      BY <2>4, <2>6
    <3> HIDE DEF n
    <3> QED BY <1>1, <1>2, <2>1, <2>6, <3>1, <3>2, OnceSlotSame
  <2> QED BY <2>5, <2>6
<1>7. CASE Result(k, i) \/ SlotFails(k, i)
  <2>1. PICK at \in {"done", "error"} : Step(k, i, at)
    BY <1>7 DEF Result, SlotFails
  <2> DEFINE d == [e EXCEPT !.at = at]
  <2>2. d \in Entries /\ d.at = at /\ d.task = e.task /\ d.read = e.read
    BY DEF Entries
  <2>3. Put(k, i, d) /\ UNCHANGED <<task, history, batches, beside, record>>
    BY <1>1, <1>7, <2>1 DEF Result, SlotFails, Step, ghostVars
  <2> HIDE DEF d
  <2> QED BY <1>1, <1>2, <2>2, <2>3, OnceSlotSame
<1> QED BY <1>3, <1>4, <1>5, <1>6, <1>7

LEMMA FinishOnce ==
  ASSUME Base, OnceInv, NEW k \in Working, Finish(k), beside' = beside, ~beside => Once'
  PROVE  OnceInv'
<1>1. chains' = [chains EXCEPT ![k] = Over] /\ Over.kind = "over"
  BY DEF Finish, Over
<1> QED BY <1>1, OffTypes, OnceTurn

LEMMA ForgetOnce ==
  ASSUME Base, OnceInv, NEW k \in DOMAIN chains, Forget(k)
  PROVE  OnceInv'
<1>1. k \in Working /\ Finish(k) /\ record' = None /\ UNCHANGED <<task, history, batches, beside>>
  BY DEF Forget
<1>2. Held' = {}
  BY <1>1 DEF Held
<1>3. (\A t : Entered(t)' = Entered(t)) /\ (\A t : In(t)' <=> In(t))
  BY <1>1 DEF In, Entered
<1>4. ~beside => Once'
  BY <1>1, <1>2, <1>3 DEF OnceInv, Once
<1> QED BY <1>1, <1>4, FinishOnce

LEMMA SettleOnce ==
  ASSUME Base, OnceInv, NEW k \in DOMAIN chains, Settle(k)
  PROVE  OnceInv'
<1>1. /\ k \in Working /\ chains[k].at = "slots"
      /\ UNCHANGED <<task, history, record, batches, beside>>
  BY DEF Settle, ghostVars
<1>2. PICK b \in Chains : b = chains[k]
  BY BaseTypes
<1>3. PICK at \in {"saved", "saving"} : at = IF Images(k) = {} THEN "saved" ELSE "saving"
  OBVIOUS
<1>4. PICK its \in SUBSET Tasks : its = IF b.kind = "generate" THEN Held ELSE Tasked(b)
  BY <1>2, HeldTypes, RunningFacts DEF Tasked, Of
<1> DEFINE c == [b EXCEPT !.at = at, !.ids = its]
<1>5. c \in Chains /\ c.kind = b.kind /\ c.at = at /\ c.ids = its /\ c.entry = b.entry
  BY DEF Chains
<1>6. chains' = [chains EXCEPT ![k] = c]
  BY <1>2, <1>3, <1>4 DEF Settle, Tasked, Of
<1> HIDE DEF c
<1>7. PICK d \in Chains : d = c
  BY <1>5
<1>8. ASSUME ~beside PROVE Single(d)
  <2>1. Single(b) /\ Tasked(d) = Tasked(b)
    BY <1>1, <1>2, <1>5, <1>7, <1>8, AloneFacts DEF Tasked
  <2>2. b.kind = "generate" => Generating(d)
    BY <1>1, <1>2, <1>4, <1>5, <1>7, <2>1 DEF Single, Generating
  <2>3. b.kind = "restore" => Restored(d)
    BY <1>1, <1>2, <1>4, <1>5, <1>7, <2>1 DEF Single, Restored
  <2> QED BY <1>5, <1>7, <2>2, <2>3 DEF Single
<1>9. ~beside => Single(d)' /\ Once'
  BY <1>1, <1>8, SameFacts, SameOnce DEF OnceInv
<1> QED BY <1>1, <1>5, <1>6, <1>7, <1>9, OnceTurn

(* The chain has been saved, or could not be. *)
LEMMA SavedAt ==
  ASSUME NEW b \in Chains
  PROVE  /\ [b EXCEPT !.at = "saved"] \in Chains
         /\ [b EXCEPT !.at = "saved"].at = "saved"
         /\ [b EXCEPT !.at = "saved"].kind = b.kind
         /\ [b EXCEPT !.at = "saved"].entry = b.entry
BY DEF Chains

LEMMA SaveFailsOnce ==
  ASSUME Base, OnceInv, NEW k \in DOMAIN chains, SaveFails(k)
  PROVE  OnceInv'
<1>1. /\ k \in Working /\ chains[k].at = "saving"
      /\ UNCHANGED <<task, history, record, batches, beside>>
  BY DEF SaveFails
<1>2. PICK b \in Chains : b = chains[k]
  BY BaseTypes
<1>3. PICK c \in Chains :
        /\ c.at = "saved" /\ c.kind = b.kind /\ c.entry = b.entry
        /\ chains' = [chains EXCEPT ![k] = c]
  <2>1. chains' = [chains EXCEPT ![k] = [b EXCEPT !.at = "saved"]]
    BY <1>2 DEF SaveFails
  <2> QED BY <2>1, SavedAt
<1>4. ASSUME ~beside PROVE Single(c)
  <2>1. Single(b)
    BY <1>1, <1>2, <1>4, AloneFacts
  <2> QED BY <1>1, <1>2, <1>3, <2>1 DEF Single, Generating, Restored
<1>5. ~beside => Single(c)' /\ Once'
  BY <1>1, <1>4, SameFacts, SameOnce DEF OnceInv
<1> QED BY <1>1, <1>3, <1>5, OnceTurn

LEMMA HistoryFacts ==
  ASSUME Base, NEW k \in DOMAIN chains, Saved(k)
  PROVE  /\ Listed' = Listed \cup chains[k].ids
         /\ \E l \in Nat : \A t : Entered(t)' = IF t \in Images(k) THEN Entered(t) \cup {l}
                                                                ELSE Entered(t)
<1> DEFINE h == [tasks |-> chains[k].ids, images |-> Images(k)]
           H == [tasks : SUBSET Tasks, images : SUBSET Tasks]
           n == Len(history)
<1>1. h \in H /\ h.tasks = chains[k].ids /\ h.images = Images(k)
  BY BaseTypes, ChainTypes, ImageTypes
<1>2. history \in Seq(H) /\ history' = Append(history, h)
  BY DEF Base, TypeOK, Saved
<1> HIDE DEF h, H
<1>3. n \in Nat /\ DOMAIN history = 1..n
  BY <1>2, LenProperties
<1>4. /\ history' \in Seq(H) /\ Len(history') = n + 1
      /\ \A j \in 1..n : history'[j] = history[j]
      /\ history'[n + 1] = h
  BY <1>1, <1>2, AppendProperties
<1>5. DOMAIN history' = 1..(n + 1)
  BY <1>4, LenProperties
<1> HIDE DEF n
<1>6. DOMAIN history' = DOMAIN history \cup {n + 1} /\ n + 1 \notin DOMAIN history
  BY <1>3, <1>5
<1>7. \A j \in DOMAIN history : history'[j] = history[j]
  BY <1>3, <1>4
<1>8. Listed' = Listed \cup chains[k].ids
  <2>1. \A t : t \in Listed <=> \E j \in DOMAIN history : t \in history[j].tasks
    BY DEF Listed, ToSet
  <2>2. \A t : t \in Listed' <=> \E j \in DOMAIN history' : t \in history'[j].tasks
    BY DEF Listed, ToSet
  <2>3. \A t : t \in Listed' <=> t \in Listed \/ t \in chains[k].ids
    BY <1>1, <1>4, <1>6, <1>7, <2>1, <2>2
  <2> QED BY <2>3
<1>9. \A t : Entered(t)' = IF t \in Images(k) THEN Entered(t) \cup {n + 1} ELSE Entered(t)
  <2> SUFFICES ASSUME NEW t
               PROVE  {j \in DOMAIN history' : t \in history'[j].images}
                        = IF t \in Images(k)
                          THEN {j \in DOMAIN history : t \in history[j].images} \cup {n + 1}
                          ELSE {j \in DOMAIN history : t \in history[j].images}
    BY DEF Entered
  <2> QED BY <1>1, <1>4, <1>6, <1>7
<1>10. n + 1 \in Nat
  BY <1>3
<1> QED BY <1>8, <1>9, <1>10

LEMMA SavedOnceStep ==
  ASSUME Base, OnceInv, NEW k \in DOMAIN chains, Saved(k)
  PROVE  OnceInv'
<1>1. /\ k \in Working /\ chains[k].at = "saving"
      /\ UNCHANGED <<task, record, batches, beside>>
  BY DEF Saved, ghostVars
<1>2. PICK b \in Chains : b = chains[k]
  BY BaseTypes
<1>3. PICK c \in Chains :
        /\ c.at = "saved" /\ c.kind = b.kind /\ c.entry = b.entry
        /\ chains' = [chains EXCEPT ![k] = c]
  <2>1. chains' = [chains EXCEPT ![k] = [b EXCEPT !.at = "saved"]]
    BY <1>2 DEF Saved
  <2> QED BY <2>1, SavedAt
<1>4. Listed' = Listed \cup b.ids /\ Held' = Held /\ (\A ids : Mine(ids)' <=> Mine(ids))
  BY <1>1, <1>2, HistoryFacts DEF Held, Mine
<1>5. PICK l \in Nat : \A t : Entered(t)' = IF t \in Images(k) THEN Entered(t) \cup {l}
                                                               ELSE Entered(t)
  BY HistoryFacts
<1>6. ASSUME ~beside PROVE Single(c)'
  <2>1. Single(b)
    BY <1>1, <1>2, <1>6, AloneFacts
  <2>2. b.kind = "generate" => Generating(c)'
    BY <1>1, <1>3, <1>4, <2>1 DEF Single, Generating
  <2>3. b.kind = "restore" => Restored(c)'
    BY <1>3, <2>1 DEF Single, Restored
  <2> QED BY <1>3, <2>2, <2>3 DEF Single
<1>7. ASSUME ~beside PROVE Once'
  <2>1. Once /\ Single(b) /\ b.kind \in {"generate", "restore"}
    BY <1>1, <1>2, <1>7, AloneFacts
  <2>2. \A t \in Images(k) : \E i \in Slots : b.entry[i].at = "done" /\ b.entry[i].task = t
    BY <1>2 DEF Images, Of
  <2>3. ASSUME NEW t \in Images(k)
        PROVE  t \in Tasks /\ ~In(t) /\ t[1] <= batches /\ (t \in Held => t \in b.ids)
    <3>1. PICK i \in Slots : b.entry[i].at = "done" /\ b.entry[i].task = t
      BY <2>2
    <3>2. t \in Tasks /\ task[t] # "none"
      BY <1>2, <3>1, BaseTypes DEF Fit
    <3>3. t[1] <= batches
      BY <2>1, <3>2 DEF Once
    <3>4. CASE b.kind = "generate"
      <4>1. Generating(b)
        BY <2>1, <3>4 DEF Single
      <4>2. t[1] = batches /\ b.ids = Held
        BY <1>1, <1>2, <3>1, <4>1 DEF Generating
      <4> QED BY <1>1, <1>2, <3>2, <3>3, <4>1, <4>2 DEF Generating
    <3>5. CASE b.kind = "restore"
      <4>1. Restored(b)
        BY <2>1, <3>5 DEF Single
      <4>2. t \in Tasked(b)
        BY <3>1 DEF Tasked
      <4> QED BY <1>1, <1>2, <3>2, <3>3, <4>1, <4>2 DEF Restored
    <3> QED BY <2>1, <3>4, <3>5
  <2>4. \A t : In(t)' <=> In(t) \/ t \in Images(k)
    BY <1>5 DEF In
  <2>5. \A t \in Tasks : \A m, n \in Entered(t)' : m = n
    <3> SUFFICES ASSUME NEW t \in Tasks, NEW m \in Entered(t)', NEW n \in Entered(t)'
                 PROVE  m = n
      OBVIOUS
    <3>1. CASE t \in Images(k)
      <4>1. Entered(t) = {}
        BY <2>3, <3>1 DEF In
      <4>2. Entered(t)' = {l}
        BY <1>5, <3>1, <4>1
      <4> QED BY <4>2
    <3>2. CASE t \notin Images(k)
      <4>1. Entered(t)' = Entered(t)
        BY <1>5, <3>2
      <4> QED BY <2>1, <4>1 DEF Once
    <3> QED BY <3>1, <3>2
  <2>6. \A t \in Tasks : In(t)' => t[1] <= batches' /\ (t \in Listed' \/ t \notin Held')
    BY <1>1, <1>4, <2>1, <2>3, <2>4 DEF Once
  <2>7. \A t \in Tasks : task'[t] # "none" => t[1] <= batches'
    BY <1>1, <2>1 DEF Once
  <2> QED BY <2>5, <2>6, <2>7 DEF Once
<1> QED BY <1>1, <1>3, <1>6, <1>7, OnceTurn

LEMMA RestoreOnce ==
  ASSUME Base, OnceInv, NEW k \in DOMAIN chains,
         ReadRecord(k) \/ ReadHistories(k) \/ RestoreFails(k)
  PROVE  OnceInv'
<1>1. /\ k \in Working /\ chains[k].kind = "restore"
      /\ UNCHANGED <<task, history, record, batches, beside>>
  BY DEF ReadRecord, ReadHistories, RestoreFails, Restoring, ghostVars
<1>2. PICK b \in Chains : b = chains[k] /\ b.pending \in Seq(Pairs)
  BY BaseTypes, ChainTypes
<1>3. ~beside => Once' /\ Restored(b)
  BY <1>1, <1>2, SameOnce, AloneFacts DEF OnceInv
<1>4. CASE RestoreFails(k)
  BY <1>1, <1>3, <1>4, FinishOnce DEF RestoreFails
<1>5. CASE ReadRecord(k)
  <2>1. CASE record = None \/ record.ids = <<>>
    BY <1>1, <1>3, <1>5, <2>1, FinishOnce DEF ReadRecord
  <2>2. CASE ~(record = None \/ record.ids = <<>>)
    <3>1. PICK r \in Records : r = record /\ r # None
      BY <2>2, BaseTypes
    <3> DEFINE c == [b EXCEPT !.at = "histories", !.batch = r.batch, !.pending = r.ids]
    <3>2. /\ c \in Chains /\ c.kind = b.kind /\ c.at = "histories" /\ c.pending = r.ids
          /\ c.entry = b.entry
      <4>1. r.batch \in 0..BatchBound /\ r.ids \in Seq(Pairs)
        BY RecordTypes, BoundAssumption
      <4> QED BY <4>1 DEF Chains, Pairs
    <3>3. chains' = [chains EXCEPT ![k] = c]
      BY <1>2, <1>5, <2>2, <3>1 DEF ReadRecord
    <3> HIDE DEF c
    <3>4. PICK d \in Chains : d = c
      BY <3>2
    <3>5. ASSUME ~beside PROVE Single(d)
      <4>1. Named(d.pending) = Held
        BY <3>1, <3>2, <3>4 DEF Held
      <4>2. Restored(d)
        BY <1>3, <3>2, <3>4, <3>5, <4>1 DEF Restored
      <4> QED BY <1>1, <1>2, <3>2, <3>4, <4>2 DEF Single
    <3>6. ~beside => Single(d)'
      BY <1>1, <3>5, SameFacts
    <3> QED BY <1>1, <1>3, <3>3, <3>4, <3>6, OnceTurn
  <2> QED BY <2>1, <2>2
<1>6. CASE ReadHistories(k)
  <2>1. PICK left \in Seq(Pairs) : /\ left = Unsaved(b.pending)
                                   /\ Named(left) \in SUBSET (Named(b.pending) \ Listed)
    BY <1>2, UnsavedFacts
  <2>2. PICK at \in {"saved", "tasks"} : at = IF left = <<>> THEN "saved" ELSE "tasks"
    OBVIOUS
  <2> DEFINE c == [b EXCEPT !.at = at, !.pending = left]
  <2>3. c \in Chains /\ c.kind = b.kind /\ c.at = at /\ c.pending = left /\ c.entry = b.entry
    BY DEF Chains, Pairs
  <2>4. chains' = [chains EXCEPT ![k] = c]
    BY <1>2, <1>6, <2>1, <2>2 DEF ReadHistories
  <2> HIDE DEF c
  <2>5. PICK d \in Chains : d = c
    BY <2>3
  <2>6. b.at = "histories"
    BY <1>2, <1>6 DEF ReadHistories, Restoring
  <2>7. ASSUME ~beside PROVE Single(d)
    <3>1. Named(d.pending) \subseteq Held \ Listed
      BY <1>3, <2>1, <2>3, <2>5, <2>6, <2>7 DEF Restored
    <3>2. Restored(d)
      BY <1>3, <2>3, <2>5, <2>7, <3>1 DEF Restored
    <3> QED BY <1>1, <1>2, <2>3, <2>5, <3>2 DEF Single
  <2>8. ~beside => Single(d)'
    BY <1>1, <2>7, SameFacts
  <2> QED BY <1>1, <1>3, <2>4, <2>5, <2>8, OnceTurn
<1> QED BY <1>4, <1>5, <1>6

LEMMA ReadTasksOnce ==
  ASSUME Base, OnceInv, NEW k \in DOMAIN chains,
         NEW found \in SUBSET ToSet(chains[k].pending), ReadTasks(k, found)
  PROVE  OnceInv'
<1>1. /\ k \in Working /\ chains[k].kind = "restore" /\ chains[k].at = "tasks"
      /\ UNCHANGED <<task, history, record, batches, beside>>
  BY DEF ReadTasks, Restoring
<1>2. PICK b \in Chains : b = chains[k] /\ b.pending \in Seq(Pairs)
  BY BaseTypes, ChainTypes
<1>3. ~beside => Once /\ Once' /\ Restored(b)
  BY <1>1, <1>2, SameOnce, AloneFacts
<1>4. PICK r \in [Slots -> Entries] : r = Resumed(k, found)
  BY ResumedFacts
<1> DEFINE c == [b EXCEPT !.at = "slots", !.pending = <<>>, !.entry = r]
<1>5. c \in Chains /\ c.entry = r /\ c.at = "slots" /\ c.kind = b.kind
  <2>1. <<>> \in Seq(Pairs)
    BY EmptySeq
  <2> QED BY <2>1 DEF Chains, Pairs
<1>6. chains' = [chains EXCEPT ![k] = c]
  BY <1>2, <1>4 DEF ReadTasks, Resumed
<1> HIDE DEF c
<1>7. PICK d \in Chains : d = c
  BY <1>5
<1>8. \A i \in Slots : r[i] = Off \/ \E p \in found : r[i].at = "poll" /\ r[i].task = p.task
  BY <1>4, ResumedFacts
<1>9. \A p \in found : p.task \in Named(b.pending) /\ p.task \in Tasks
  BY <1>2, NamedFacts, RecordTypes DEF ToSet
<1>10. ASSUME ~beside PROVE Single(d)
  <2>1. \A t \in Named(b.pending) : t \in Tasks /\ t \in Held /\ t \notin Listed
    BY <1>1, <1>2, <1>3, <1>10, NamedFacts DEF Restored
  <2>2. \A t \in Named(b.pending) : ~In(t)
    BY <1>3, <1>10, <2>1 DEF Once
  <2>3. \A i \in Slots : d.entry[i].at \in {"off", "poll"}
                         /\ (d.entry[i].at # "off" => d.entry[i].task \in Named(b.pending))
    <3>1. Off.at = "off"
      BY DEF Off
    <3> QED BY <1>5, <1>7, <1>8, <1>9, <3>1
  <2>4. \A t \in Tasked(d) : ~In(t)
    BY <2>2, <2>3 DEF Tasked
  <2>5. Restored(d)
    BY <1>5, <1>7, <2>3, <2>4 DEF Restored
  <2> QED BY <1>1, <1>2, <1>5, <1>7, <2>5 DEF Single
<1>11. ~beside => Single(d)'
  BY <1>1, <1>10, SameFacts
<1> QED BY <1>1, <1>3, <1>6, <1>7, <1>11, OnceTurn

(* A chain begins: beside another, or alone. *)
LEMMA BeginOnce ==
  ASSUME Base, Base', OnceInv, NEW c, chains' = Append(chains, c),
         beside' = (beside \/ Working # {}), ~beside => Once',
         ~beside /\ Working = {} => Single(c)'
  PROVE  OnceInv'
<1> SUFFICES ASSUME ~beside, Working = {}
             PROVE  One' /\ Once' /\ (\A l \in Working : Single(chains[l]))'
  BY DEF OnceInv
<1> DEFINE n == Len(chains)
<1>1. n \in Nat /\ DOMAIN chains = 1..n /\ Len(chains') = n + 1
      /\ (\A j \in 1..n : chains'[j] = chains[j]) /\ chains'[n + 1] = c
  <2>1. chains \in Seq(Chains \cup {c}) /\ c \in Chains \cup {c}
    BY BaseTypes, SeqMonotonic
  <2> QED BY <2>1, AppendProperties, LenProperties
<1>2. DOMAIN chains' = 1..(n + 1)
  <2>1. chains' \in Seq(Chains)
    BY DEF Base, TypeOK
  <2> QED BY <1>1, <2>1, LenProperties
<1> HIDE DEF n
<1>3. \A l \in Working' : l = n + 1
  <2> SUFFICES ASSUME NEW l \in DOMAIN chains', chains'[l].kind # "over" PROVE l = n + 1
    BY DEF Working
  <2>1. l \in 1..n => chains[l].kind # "over" /\ l \in DOMAIN chains
    BY <1>1
  <2> QED BY <1>1, <1>2, <2>1 DEF Working
<1>4. One'
  BY <1>3 DEF One
<1>5. (\A l \in Working : Single(chains[l]))'
  BY <1>1, <1>3 DEF Single, Generating, Restored
<1> QED BY <1>4, <1>5

LEMMA GenerateOnce ==
  ASSUME Base, OnceInv, Generate
  PROVE  OnceInv'
<1>1. /\ UNCHANGED <<task, history>> /\ batches' = batches + 1 /\ batches \in Nat
      /\ beside' = (beside \/ Working # {})
  BY BoundAssumption DEF Generate, Base, TypeOK
<1>2. Base'
  BY GenerateBase
<1>3. PICK n \in Nat : n = batches'
  BY <1>1
<1> DEFINE posted(i) == [Off EXCEPT !.at = "post", !.task = <<n, i>>, !.place = i]
           c == [Over EXCEPT !.kind = "generate", !.mount = mount, !.at = "slots", !.batch = n,
                             !.entry = [i \in Slots |-> posted(i)]]
<1>4. chains' = Append(chains, c)
  BY <1>3 DEF Generate
<1>5. \A i \in Slots : posted(i).at = "post" /\ posted(i).task = <<n, i>> /\ posted(i).read = None
  BY DEF Off
<1> HIDE DEF posted
<1>6. c.kind = "generate" /\ c.at = "slots" /\ \A i \in Slots : c.entry[i] = posted(i)
  BY DEF Over
<1> HIDE DEF c
<1>7. record' = [batch |-> n, ids |-> <<>>]
  BY <1>3 DEF Generate
<1>8. record'.ids = <<>> /\ Held' = {}
  <2>1. record'.ids = <<>>
    BY <1>7
  <2> QED BY <2>1 DEF Held, Named, ToSet
<1>9. (\A t : Entered(t)' = Entered(t)) /\ (\A t : In(t)' <=> In(t)) /\ Listed' = Listed
  BY <1>1 DEF In, Entered, Listed
<1>10. ASSUME ~beside PROVE Once'
  <2>1. Once
    BY <1>10 DEF OnceInv
  <2>2. \A t \in Tasks : t[1] \in Nat
    BY DEF Tasks
  <2>3. \A t \in Tasks : t[1] <= batches => t[1] <= batches'
    BY <1>1, <2>2
  <2> QED BY <1>1, <1>8, <1>9, <2>1, <2>3 DEF Once
<1>11. PICK d : d = c
  OBVIOUS
<1>12. ASSUME ~beside PROVE Single(d)'
  <2>1. Once
    BY <1>12 DEF OnceInv
  <2>2. \A t \in Tasks : t[1] = batches' => ~(t[1] <= batches)
    BY <1>1
  <2>3. \A t \in Tasks : t[1] = batches' => ~In(t)'
    BY <1>9, <2>1, <2>2 DEF Once
  <2>4. Mine(record.ids)'
    BY <1>8 DEF Mine
  <2>5. \A i \in Slots : d.entry[i].at # "off" /\ d.entry[i].task = <<n, i>>
                         /\ d.entry[i].read = None
    BY <1>5, <1>6, <1>11
  <2>6. d.at = "slots" /\ d.kind = "generate"
    BY <1>6, <1>11
  <2>7. Generating(d)'
    BY <1>3, <2>3, <2>4, <2>5, <2>6 DEF Generating
  <2> QED BY <2>6, <2>7 DEF Single
<1>13. chains' = Append(chains, d)
  BY <1>4, <1>11
<1> QED BY <1>1, <1>2, <1>10, <1>12, <1>13, BeginOnce

LEMMA OpenOnce ==
  ASSUME Base, OnceInv, Open
  PROVE  OnceInv'
<1>1. UNCHANGED <<task, history, record, batches>> /\ beside' = (beside \/ Working # {})
  BY DEF Open
<1>2. Base'
  BY OpenBase
<1>3. PICK c : c = [Over EXCEPT !.kind = "restore", !.mount = mount', !.at = "record"]
  OBVIOUS
<1>4. chains' = Append(chains, c)
  BY <1>3 DEF Open
<1>5. c.kind = "restore" /\ c.at = "record" /\ \A i \in Slots : c.entry[i].at = "off"
  BY <1>3 DEF Over, Off
<1>6. Single(c)'
  BY <1>5 DEF Single, Restored
<1>7. ~beside => Once'
  BY <1>1, SameOnce DEF OnceInv
<1> QED BY <1>1, <1>2, <1>4, <1>6, <1>7, BeginOnce

(* What touches neither the chains nor what they read and write. *)
LEMMA SameOnceInv ==
  ASSUME OnceInv, UNCHANGED <<history, record, chains, batches, beside>>,
         \A t \in Tasks : task'[t] # "none" => task[t] # "none"
  PROVE  OnceInv'
<1> SUFFICES ASSUME ~beside PROVE One' /\ Once' /\ (\A l \in Working : Single(chains[l]))'
  BY DEF OnceInv
<1>1. One' /\ Working' = Working
  BY DEF OnceInv, One, Working
<1>2. Once'
  BY SameOnce DEF OnceInv
<1>3. ASSUME NEW l \in Working PROVE Single(chains[l])'
  <2>1. PICK c : c = chains[l]
    OBVIOUS
  <2>2. Single(c)'
    BY <2>1, SameFacts DEF OnceInv
  <2> QED BY <2>1, <2>2 DEF Single, Generating, Restored
<1> QED BY <1>1, <1>2, <1>3

LEMMA ReloadOnce ==
  ASSUME OnceInv, Reload
  PROVE  OnceInv'
<1>1. UNCHANGED <<task, history, record, batches, beside>>
  BY DEF Reload, ghostVars
<1>2. Working' = {}
  BY DEF Reload, Working, Over
<1>3. ~beside => Once'
  BY <1>1, SameOnce DEF OnceInv
<1> QED BY <1>1, <1>2, <1>3 DEF OnceInv, One

LEMMA NextOnce ==
  ASSUME Base, OnceInv, [Next]_vars
  PROVE  OnceInv'
<1>1. CASE Server
  <2>1. UNCHANGED <<history, record, chains, batches, beside>>
    BY <1>1 DEF Server, TaskEnds, ghostVars
  <2>2. \A t \in Tasks : task'[t] # "none" => task[t] # "none"
    BY <1>1, BaseTypes DEF Server, TaskEnds
  <2> QED BY <2>1, <2>2, SameOnceInv
<1>2. CASE User
  <2>1. CASE Generate \/ Open \/ Reload
    BY <2>1, GenerateOnce, OpenOnce, ReloadOnce
  <2>2. CASE Leave
    BY <2>2, SameOnceInv DEF Leave, ghostVars
  <2>3. ASSUME NEW k \in DOMAIN chains, NEW i \in Slots, Cancel(k, i)
        PROVE  OnceInv'
    <3>1. UNCHANGED <<history, record, chains, batches, beside>>
      BY <2>3 DEF Cancel, ghostVars
    <3>2. \A t \in Tasks : task'[t] # "none" => task[t] # "none"
      BY <2>3, BaseTypes DEF Cancel
    <3> QED BY <3>1, <3>2, SameOnceInv
  <2> QED BY <1>2, <2>1, <2>2, <2>3 DEF User
<1>3. ASSUME NEW k \in DOMAIN chains, Chain(k)
      PROVE  OnceInv'
  <2>1. ASSUME NEW i \in Slots, \/ Submitted(k, i) \/ NoteRead(k, i) \/ NoteWrite(k, i)
                                \/ Poll(k, i) \/ Result(k, i) \/ SlotFails(k, i)
        PROVE  OnceInv'
    BY <2>1, SlotOnce
  <2>2. ASSUME \/ Settle(k) \/ Saved(k) \/ SaveFails(k) \/ Forget(k)
               \/ ReadRecord(k) \/ ReadHistories(k) \/ RestoreFails(k)
        PROVE  OnceInv'
    BY <2>2, SettleOnce, SavedOnceStep, SaveFailsOnce, ForgetOnce, RestoreOnce
  <2>3. ASSUME NEW found \in SUBSET ToSet(chains[k].pending), ReadTasks(k, found)
        PROVE  OnceInv'
    BY <2>3, ReadTasksOnce
  <2> QED BY <1>3, <2>1, <2>2, <2>3, ChainCases
<1>4. CASE UNCHANGED vars
  BY <1>4, SameOnceInv DEF vars, ghostVars
<1> QED BY <1>1, <1>2, <1>3, <1>4 DEF Next

LEMMA InitOnce ==
  ASSUME Init
  PROVE  OnceInv
<1>1. Working = {} /\ \A t : Entered(t) = {}
  BY DEF Init, Working, Entered
<1> QED BY <1>1 DEF Init, OnceInv, One, Once, In

(* A chain at work alone holds nothing that is in the history already:      *)
(* generate's tasks are new, and restoreGeneration keeps what it looked up. *)
THEOREM OnceKept == Spec => []OnceInv
<1>1. Init => OnceInv
  BY InitOnce
<1>2. Base /\ OnceInv /\ [Next]_vars => OnceInv'
  BY NextOnce
<1> QED BY <1>1, <1>2, BaseKept, PTL DEF Spec

(* As long as no chain works beside another, an image gets into the history *)
(* once, whatever reload, leave or failure comes between: generate saves    *)
(* with the tasks of its record, and restoreGeneration passes over what an  *)
(* entry names (docs/pending-test.md:73).                                   *)
THEOREM Saved_Once == Spec => []SavedOnceAlone
<1>1. Base /\ OnceInv => SavedOnceAlone
  <2> SUFFICES ASSUME Base, OnceInv, ~beside, NEW t \in Tasks
               PROVE  Cardinality(Entered(t)) <= 1
    BY DEF SavedOnceAlone, SavedOnce
  <2>1. \A m, n \in Entered(t) : m = n
    BY DEF OnceInv, Once
  <2>2. CASE Entered(t) = {}
    BY <2>2, FS_EmptySet
  <2>3. CASE Entered(t) # {}
    <3>1. PICK m : Entered(t) = {m}
      BY <2>1, <2>3
    <3> QED BY <3>1, FS_Singleton
  <2> QED BY <2>2, <2>3
<1> QED BY <1>1, BaseKept, OnceKept, PTL

-----------------------------------------------------------------------------
(* What the record still names.  While the record lost nothing and no chain *)
(* began beside another, a noted task is in the record or done with, and    *)
(* the chain at work will not drop the record before what it names is.      *)
(* A task that is in the history, failed or was given up with an error.    *)
Done(t) == In(t) \/ task[t] = "failed" \/ t \in givenUp
Settled ==
  /\ \A t \in Listed : Done(t)
  /\ \A t \in noted : t \in Held \/ Done(t)
Heeds(e) ==
  /\ e.at = "post" => task[e.task] = "none"
  /\ e.heard = "failed" /\ e.at # "off" => task[e.task] = "failed"
  /\ e.at = "error" => Done(e.task)
Covers(c, t) ==
  CASE c.at = "record" -> TRUE
    [] c.at = "histories" -> t \in Named(c.pending)
    [] c.at = "tasks" -> Done(t) \/ t \in Named(c.pending)
    [] c.at \in {"slots", "saving"} -> Done(t) \/ t \in Tasked(c)
    [] OTHER -> Done(t)
Resolves(c) ==
  /\ \A i \in Slots : Heeds(c.entry[i])
  /\ c.at = "saving" => \A i \in Slots : c.entry[i].at \in {"off", "done", "error"}
  /\ c.kind = "generate" /\ c.at = "saved" => \A i \in Slots : Done(c.entry[i].task)
  /\ c.kind = "restore" => \A t \in Held : Covers(c, t)
KeptInv == ~beside /\ ~raced => Settled /\ \A k \in Working : Resolves(chains[k])

LEMMA ListedTypes ==
  ASSUME Base
  PROVE  Listed \in SUBSET Tasks /\ Held \in SUBSET Tasks /\ noted \in SUBSET Tasks
<1>1. \A h \in ToSet(history) : h.tasks \in SUBSET Tasks
  <2> DEFINE H == [tasks : SUBSET Tasks, images : SUBSET Tasks]
  <2>1. history \in Seq(H)
    BY DEF Base, TypeOK
  <2>2. \A j \in DOMAIN history : history[j] \in H
    <3> HIDE DEF H
    <3> QED BY <2>1, ElementOfSeq, LenProperties
  <2> QED BY <2>2 DEF ToSet
<1> QED BY <1>1, HeldTypes DEF Listed, Base, TypeOK

(* What is done with stays so. *)
Stays == \A t \in Tasks : Done(t) => Done(t)'

LEMMA DoneStays ==
  ASSUME \A t : In(t) => In(t)', givenUp \subseteq givenUp',
         \A t \in Tasks : task[t] = "failed" => task'[t] = "failed"
  PROVE  Stays
BY DEF Stays, Done

LEMMA SettledStays ==
  ASSUME Base, Settled, Stays, UNCHANGED <<history, record, noted>>
  PROVE  Settled'
<1>1. Listed' = Listed /\ Held' = Held
  BY DEF Listed, Held
<1> QED BY <1>1, ListedTypes DEF Settled, Stays

LEMMA HeedsStays ==
  ASSUME Stays, NEW e \in Entries, e.at # "off" => e.task \in Tasks, Heeds(e),
         e.at # "off" => \/ task'[e.task] = task[e.task]
                         \/ task[e.task] = "active" /\ task'[e.task] # "none"
  PROVE  Heeds(e)'
<1>1. e.at = "post" => task'[e.task] = "none"
  BY DEF Heeds
<1>2. e.heard = "failed" /\ e.at # "off" => task'[e.task] = "failed"
  BY DEF Heeds
<1>3. e.at = "error" => Done(e.task)'
  BY DEF Heeds, Stays
<1> QED BY <1>1, <1>2, <1>3 DEF Heeds

(* The chain at work makes a step. *)
LEMMA KeptTurn ==
  ASSUME Base, OnceInv, KeptInv, NEW k \in Working, NEW c \in Chains,
         chains' = [chains EXCEPT ![k] = c], beside' = beside, raced => raced',
         ~beside /\ ~raced' => Settled' /\ (c.kind # "over" => Resolves(c)')
  PROVE  KeptInv'
<1> SUFFICES ASSUME ~beside', ~raced'
             PROVE  Settled' /\ (\A l \in Working : Resolves(chains[l]))'
  BY DEF KeptInv
<1>1. k \in DOMAIN chains /\ (\A l \in Working : l = k)
  BY DEF OnceInv, One, Working
<1>2. /\ DOMAIN chains' = DOMAIN chains /\ chains'[k] = c
      /\ \A l \in DOMAIN chains : l # k => chains'[l] = chains[l]
  BY <1>1, TurnFacts, BaseTypes
<1>3. \A l \in Working' : l = k /\ c.kind # "over"
  BY <1>1, <1>2 DEF Working
<1>4. ASSUME NEW l \in Working' PROVE Resolves(chains[l])'
  <2>1. Resolves(c)' /\ chains'[l] = c
    BY <1>2, <1>3
  <2> QED BY <2>1, SMTT(30) DEF Resolves, Heeds, Covers, Tasked
<1> QED BY <1>4

LEMMA UnracedFacts ==
  ASSUME Base, OnceInv, KeptInv, ~beside, ~raced, NEW k \in Working
  PROVE  /\ Settled /\ Resolves(chains[k])
         /\ \A i \in Slots : Heeds(chains[k].entry[i])
BY DEF KeptInv, Resolves

(* A slot at work goes on. *)
LEMMA KeptSlot ==
  ASSUME Base, OnceInv, KeptInv, NEW k \in Working, NEW i \in Slots, NEW e \in Entries,
         chains[k].at = "slots", chains[k].entry[i].at # "off", Put(k, i, e), e.at # "off",
         e.task = Of(k, i), beside' = beside, raced => raced',
         ~beside /\ ~raced' =>
           /\ Settled' /\ Stays /\ Heeds(e)'
           /\ \A t \in Tasks : t # e.task => task'[t] = task[t]
           /\ chains[k].kind = "restore" => Held' = Held
  PROVE  KeptInv'
<1>1. k \in DOMAIN chains
  BY DEF Working
<1>2. PICK d \in Chains :
        /\ chains' = [chains EXCEPT ![k] = d]
        /\ d.kind = chains[k].kind /\ d.at = chains[k].at
        /\ d.entry[i] = e /\ \A j \in Slots : j # i => d.entry[j] = chains[k].entry[j]
  <2> DEFINE m == Moved(k, i, e)
  <2>1. /\ m \in Chains /\ chains' = [chains EXCEPT ![k] = m]
        /\ m.kind = chains[k].kind /\ m.at = chains[k].at
        /\ m.entry[i] = e /\ \A j \in Slots : j # i => m.entry[j] = chains[k].entry[j]
    BY <1>1, PutFacts, BaseTypes
  <2> HIDE DEF m
  <2> QED BY <2>1
<1>3. ASSUME ~beside, ~raced' PROVE Resolves(d)'
  <2>1. Resolves(chains[k]) /\ ~raced
    BY <1>3, UnracedFacts
  <2>2. ASSUME NEW j \in Slots PROVE Heeds(d.entry[j])'
    <3>1. CASE j = i
      BY <1>2, <1>3, <3>1 DEF Heeds
    <3>2. CASE j # i
      <4>1. PICK f \in Entries : f = chains[k].entry[j] /\ d.entry[j] = f /\ Fit(f, j)
        BY <1>1, <1>2, <3>2, BaseTypes
      <4>2. Heeds(f)
        BY <2>1, <4>1 DEF Resolves
      <4>3. f.at # "off" => f.task \in Tasks /\ f.task # e.task
        <5>1. Of(k, i)[2] = i
          BY <1>1, RunningFacts
        <5> QED BY <3>2, <4>1, <5>1 DEF Fit
      <4>4. Heeds(f)'
        BY <1>3, <4>2, <4>3, HeedsStays
      <4> QED BY <4>1, <4>4
    <3> QED BY <3>1, <3>2
  <2>3. d.kind = "restore" => \A t \in Held' : Covers(d, t)'
    <3>1. Tasked(d) = Tasked(chains[k])
      BY <1>2 DEF Tasked, Of
    <3> SUFFICES ASSUME d.kind = "restore", NEW t \in Held
                 PROVE  Covers(d, t)'
      BY <1>2, <1>3
    <3>2. t \in Tasks /\ Covers(chains[k], t)
      BY <1>2, <2>1, ListedTypes DEF Resolves
    <3>3. Done(t) \/ t \in Tasked(d)
      BY <1>2, <3>1, <3>2 DEF Covers
    <3>4. Done(t)' \/ t \in Tasked(d)
      BY <1>3, <3>2, <3>3 DEF Stays
    <3> QED BY <1>2, <3>4 DEF Covers, Tasked
  <2>4. d.at = "slots"
    BY <1>2
  <2> QED BY <2>2, <2>3, <2>4 DEF Resolves
<1> QED BY <1>2, <1>3, KeptTurn

(* It goes on and what it reads stays. *)
LEMMA KeptSlotSame ==
  ASSUME Base, OnceInv, KeptInv, NEW k \in Working, NEW i \in Slots, NEW e \in Entries,
         chains[k].at = "slots", chains[k].entry[i].at # "off", Put(k, i, e), e.at # "off",
         e.task = Of(k, i), UNCHANGED <<task, history, record, noted, beside, raced>>,
         givenUp \subseteq givenUp', ~beside /\ ~raced => Heeds(e)'
  PROVE  KeptInv'
<1>1. Stays
  BY SameFacts, DoneStays DEF Stays, Done, In, Entered
<1>2. ~beside /\ ~raced => Settled'
  BY <1>1, SettledStays DEF KeptInv
<1>3. Held' = Held
  BY DEF Held
<1> QED BY <1>1, <1>2, <1>3, KeptSlot

LEMMA NoteWriteKept ==
  ASSUME Base, OnceInv, KeptInv, NEW k \in DOMAIN chains, NEW i \in Slots, NoteWrite(k, i)
  PROVE  KeptInv'
<1>1. PICK e \in Entries : e = chains[k].entry[i] /\ Fit(e, i)
  BY BaseTypes
<1>2. /\ k \in Working /\ chains[k].at = "slots" /\ e.at = "write" /\ e.task = Of(k, i)
      /\ e.task \in Tasks /\ e.read # None
      /\ UNCHANGED <<task, history, batches, beside, givenUp>>
  BY <1>1 DEF NoteWrite, Running, Of, Fit
<1>3. PICK r \in Records : r = e.read
  BY <1>2, ChainTypes
<1> DEFINE w == With(r.ids, i, e.task)
<1>4. /\ Heard(k, i, e) /\ record' = [r EXCEPT !.ids = w]
      /\ raced' = (raced \/ record # r \/ r.batch # chains[k].batch)
      /\ noted' = noted \cup {e.task}
  BY <1>1, <1>2, <1>3 DEF NoteWrite
<1>5. w \in Seq(Pairs) /\ r.ids \in Seq(Pairs)
  BY <1>2, RecordTypes, WithFacts
<1>6. /\ \E n \in DOMAIN w : w[n] = [slot |-> i, task |-> e.task]
      /\ \A n \in DOMAIN r.ids : n \in DOMAIN w /\ (r.ids[n].slot # i => w[n] = r.ids[n])
  BY <1>2, <1>5, WithFacts
<1> HIDE DEF w
<1>7. record' \in Records /\ record'.ids = w /\ record' # None
  <2>1. record' \in Records /\ record'.ids = w
    BY <1>4, <1>5 DEF Records, Pairs
  <2> QED BY <2>1, RecordTypes
<1>8. PICK d \in Entries :
        /\ Put(k, i, d) /\ d.at = After(e) /\ d.at \in {"poll", "result", "error"}
        /\ d.task = e.task /\ d.read = None /\ d.heard = "active"
  BY <1>4, HeardPut
<1>9. ASSUME ~beside, ~raced'
      PROVE  Settled' /\ Stays /\ Heeds(d)' /\ chains[k].kind = "generate"
  <2>1. chains[k].kind = "generate" /\ Generating(chains[k])
    <3>1. ~Restored(chains[k])
      BY <1>1, <1>2 DEF Restored
    <3> QED BY <1>2, <1>9, <3>1, AloneFacts
  <2>2. record = r /\ ~raced /\ r # None
    BY <1>3, <1>4, <1>9, RecordTypes
  <2>3. Settled /\ Heeds(e)
    BY <1>1, <1>2, <1>9, <2>2, UnracedFacts
  <2>4. Stays
    BY <1>2, DoneStays DEF In, Entered
  <2>5. e.task = <<batches, i>> /\ Mine(r.ids)
    BY <1>1, <2>1, <2>2 DEF Generating
  <2>6. Held' = Named(w) /\ Held = Named(r.ids)
    BY <1>7, <2>2 DEF Held
  <2>7. e.task \in Named(w)
    <3>1. PICK n \in DOMAIN w : w[n] = [slot |-> i, task |-> e.task]
      BY <1>6
    <3> QED BY <1>5, <3>1, NamedFacts
  <2>8. ASSUME NEW t \in Named(r.ids) PROVE t \in Named(w)
    <3>1. PICK n \in DOMAIN r.ids : r.ids[n].task = t
      BY <1>5, <2>8, NamedFacts
    <3>2. CASE r.ids[n].slot # i
      BY <1>5, <1>6, <3>1, <3>2, NamedFacts
    <3>3. CASE r.ids[n].slot = i
      <4>1. t[2] = i /\ t[1] = batches /\ t \in Tasks
        <5>1. Sound(r.ids)
          BY <2>2, BaseTypes DEF RecordSound
        <5> QED BY <1>5, <2>5, <3>1, <3>3, <5>1, RecordTypes DEF Sound, Mine
      <4>2. t = <<batches, i>>
        BY <4>1 DEF Tasks
      <4> QED BY <2>5, <2>7, <4>2
    <3> QED BY <3>2, <3>3
  <2>9. Listed' = Listed
    BY <1>2 DEF Listed
  <2>10. Settled'
    <3>1. \A t \in Listed' : Done(t)'
      BY <2>3, <2>4, <2>9, ListedTypes DEF Settled, Stays
    <3>2. ASSUME NEW t \in noted' PROVE t \in Held' \/ Done(t)'
      <4>1. t = e.task \/ t \in noted
        BY <1>4
      <4>2. t \in noted => t \in Tasks /\ (t \in Held \/ Done(t))
        BY <2>3, ListedTypes DEF Settled
      <4> QED BY <2>4, <2>6, <2>7, <2>8, <4>1, <4>2 DEF Stays
    <3> QED BY <3>1, <3>2 DEF Settled
  <2>11. Heeds(d)'
    <3>1. d.at = "error" => task'[d.task] = "failed"
      BY <1>2, <1>8, <2>3, ChainTypes DEF After, Heeds
    <3> QED BY <1>8, <3>1 DEF Heeds, Done
  <2> QED BY <2>1, <2>4, <2>10, <2>11
<1> QED BY <1>1, <1>2, <1>4, <1>8, <1>9, KeptSlot

LEMMA SubmittedKept ==
  ASSUME Base, OnceInv, KeptInv, NEW k \in DOMAIN chains, NEW i \in Slots, Submitted(k, i)
  PROVE  KeptInv'
<1>1. PICK e \in Entries : e = chains[k].entry[i] /\ Fit(e, i)
  BY BaseTypes
<1> DEFINE d == [e EXCEPT !.at = "note"]
<1>2. d \in Entries /\ d.at = "note" /\ d.task = e.task /\ d.heard = e.heard
  BY DEF Entries
<1>3. /\ k \in Working /\ chains[k].at = "slots" /\ e.at = "post" /\ e.task = Of(k, i)
      /\ e.task \in Tasks /\ Put(k, i, d) /\ task' = [task EXCEPT ![e.task] = "active"]
      /\ UNCHANGED <<history, record, noted, beside, raced, givenUp>>
  BY <1>1 DEF Submitted, Running, Of, Fit, Step, ghostVars
<1> HIDE DEF d
<1>4. \A t \in Tasks : t # e.task => task'[t] = task[t]
  BY <1>3, BaseTypes
<1>5. ASSUME ~beside, ~raced PROVE Settled' /\ Stays /\ Heeds(d)'
  <2>1. Settled /\ Heeds(e)
    BY <1>1, <1>3, <1>5, UnracedFacts
  <2>2. task[e.task] = "none" /\ e.heard # "failed"
    BY <1>3, <2>1 DEF Heeds
  <2>3. Stays
    BY <1>3, <1>4, <2>2, DoneStays DEF In, Entered
  <2>4. Settled'
    BY <1>3, <2>1, <2>3, SettledStays
  <2>5. Heeds(d)'
    BY <1>2, <2>2 DEF Heeds
  <2> QED BY <2>3, <2>4, <2>5
<1>6. Held' = Held
  BY <1>3 DEF Held
<1> QED BY <1>1, <1>2, <1>3, <1>4, <1>5, <1>6, KeptSlot

LEMMA SlotKept ==
  ASSUME Base, OnceInv, KeptInv, NEW k \in DOMAIN chains, NEW i \in Slots,
         \/ Submitted(k, i) \/ NoteRead(k, i) \/ NoteWrite(k, i)
         \/ Poll(k, i) \/ Result(k, i) \/ SlotFails(k, i)
  PROVE  KeptInv'
<1>1. PICK e \in Entries : e = chains[k].entry[i] /\ Fit(e, i)
  BY BaseTypes
<1>2. k \in Working /\ chains[k].at = "slots" /\ e.at # "off" /\ e.task = Of(k, i)
      /\ e.task \in Tasks
  BY <1>1 DEF Submitted, NoteRead, NoteWrite, Poll, Result, SlotFails, Running, Of, Fit
<1>3. CASE Submitted(k, i)
  BY <1>3, SubmittedKept
<1>4. CASE NoteRead(k, i)
  <2>1. UNCHANGED <<task, history, record, noted, beside, raced, givenUp>> /\ e.at = "note"
    BY <1>1, <1>4 DEF NoteRead, ghostVars, Running
  <2>2. ~beside /\ ~raced => Heeds(e)
    BY <1>1, <1>2, UnracedFacts
  <2>3. CASE record = None
    <3>1. PICK d \in Entries :
            /\ Put(k, i, d) /\ d.at = After(e) /\ d.at \in {"poll", "result", "error"}
            /\ d.task = e.task /\ d.read = None /\ d.heard = "active"
      BY <1>1, <1>4, <2>3, HeardPut DEF NoteRead
    <3>2. ~beside /\ ~raced => (d.at = "error" => task'[d.task] = "failed")
      BY <1>2, <2>1, <2>2, <3>1, ChainTypes DEF After, Heeds
    <3>3. ~beside /\ ~raced => Heeds(d)'
      BY <3>1, <3>2 DEF Heeds, Done
    <3> QED BY <1>1, <1>2, <2>1, <3>1, <3>3, KeptSlotSame
  <2>4. CASE record # None
    <3>1. PICK r \in Records : r = record
      BY <2>4, BaseTypes
    <3> DEFINE d == [e EXCEPT !.at = "write", !.read = r]
    <3>2. d \in Entries /\ d.at = "write" /\ d.task = e.task /\ d.heard = e.heard
      BY DEF Entries
    <3>3. Put(k, i, d)
      BY <1>1, <1>4, <2>4, <3>1 DEF NoteRead
    <3> HIDE DEF d
    <3>4. PICK f \in Entries : f = d
      BY <3>2
    <3>5. ~beside /\ ~raced => Heeds(f)'
      BY <1>2, <2>1, <2>2, <3>2, <3>4 DEF Heeds
    <3> QED BY <1>1, <1>2, <2>1, <3>2, <3>3, <3>4, <3>5, KeptSlotSame
  <2> QED BY <2>3, <2>4
<1>5. CASE NoteWrite(k, i)
  BY <1>5, NoteWriteKept
<1>6. CASE Poll(k, i)
  <2>1. UNCHANGED <<task, history, record, noted, beside, raced, givenUp>> /\ e.at = "poll"
    BY <1>1, <1>6 DEF Poll, ghostVars, Running
  <2>2. PICK h \in {"active", "succeeded", "failed"} : h = task[e.task]
    BY <1>1, <1>2, <2>1, BaseTypes DEF Fit
  <2> DEFINE d == [e EXCEPT !.heard = h]
  <2>3. d \in Entries /\ d.task = e.task /\ d.heard = h
    BY DEF Entries
  <2>4. IF chains[k].kind = "generate"
        THEN Put(k, i, [d EXCEPT !.at = "note"]) /\ UNCHANGED screen
        ELSE Heard(k, i, d)
    BY <1>1, <1>2, <1>6, <2>2 DEF Poll
  <2> HIDE DEF d
  <2>5. CASE chains[k].kind # "generate"
    <3>1. PICK n \in Entries :
            /\ Put(k, i, n) /\ n.at = After(d) /\ n.at \in {"poll", "result", "error"}
            /\ n.task = d.task /\ n.read = None /\ n.heard = "active"
      BY <2>3, <2>4, <2>5, HeardPut
    <3>2. n.at = "error" => task'[n.task] = "failed"
      BY <2>1, <2>2, <2>3, <3>1 DEF After
    <3>3. Heeds(n)'
      BY <3>1, <3>2 DEF Heeds, Done
    <3> QED BY <1>1, <1>2, <2>1, <2>3, <3>1, <3>3, KeptSlotSame
  <2>6. CASE chains[k].kind = "generate"
    <3> DEFINE n == [d EXCEPT !.at = "note"]
    <3>1. n \in Entries /\ n.at = "note" /\ n.task = e.task /\ n.heard = h
      BY <2>3 DEF Entries
    <3>2. Put(k, i, n)
      BY <2>4, <2>6
    <3> HIDE DEF n
    <3>3. PICK f \in Entries : f = n
      BY <3>1
    <3>4. Heeds(f)'
      BY <2>1, <2>2, <3>1, <3>3 DEF Heeds
    <3> QED BY <1>1, <1>2, <2>1, <3>1, <3>2, <3>3, <3>4, KeptSlotSame
  <2> QED BY <2>5, <2>6
<1>7. CASE Result(k, i) \/ SlotFails(k, i)
  <2>1. PICK at \in {"done", "error"} :
          /\ Step(k, i, at) /\ givenUp \subseteq givenUp'
          /\ at = "error" => e.task \in givenUp'
    BY <1>2, <1>7 DEF Result, SlotFails, ghostVars
  <2> DEFINE d == [e EXCEPT !.at = at]
  <2>2. d \in Entries /\ d.at = at /\ d.task = e.task /\ d.heard = e.heard
    BY DEF Entries
  <2>3. Put(k, i, d) /\ UNCHANGED <<task, history, record, noted, beside, raced>>
    BY <1>1, <1>7, <2>1 DEF Result, SlotFails, Step, ghostVars
  <2> HIDE DEF d
  <2>4. PICK f \in Entries : f = d
    BY <2>2
  <2>5. ~beside /\ ~raced => Heeds(f)'
    <3>1. ~beside /\ ~raced => Heeds(e)
      BY <1>1, <1>2, UnracedFacts
    <3> QED BY <1>2, <2>1, <2>2, <2>3, <2>4, <3>1 DEF Heeds, Done
  <2> QED BY <1>1, <1>2, <2>1, <2>2, <2>3, <2>4, <2>5, KeptSlotSame
<1> QED BY <1>3, <1>4, <1>5, <1>6, <1>7

(* A chain whose slots have all ended: what was not given up and did not   *)
(* fail is among its images.                                               *)
LEMMA EndedFacts ==
  ASSUME Base, OnceInv, KeptInv, ~beside, ~raced, NEW k \in Working, Ended(k)
  PROVE  /\ \A i \in Slots : chains[k].entry[i].at # "off" =>
              Of(k, i) \in Images(k) \/ Done(Of(k, i))
         /\ \A t \in Tasked(chains[k]) : t \in Images(k) \/ Done(t)
<1>1. k \in DOMAIN chains /\ \A i \in Slots : Heeds(chains[k].entry[i])
  BY UnracedFacts DEF Working
<1>2. ASSUME NEW i \in Slots, chains[k].entry[i].at # "off"
      PROVE  Of(k, i) \in Images(k) \/ Done(Of(k, i))
  <2>1. CASE chains[k].entry[i].at = "done"
    BY <2>1 DEF Images
  <2>2. CASE chains[k].entry[i].at = "error"
    BY <1>1, <2>2 DEF Heeds, Of
  <2> QED BY <1>2, <2>1, <2>2 DEF Ended
<1>3. \A t \in Tasked(chains[k]) : t \in Images(k) \/ Done(t)
  BY <1>2 DEF Tasked, Of
<1> QED BY <1>2, <1>3

(* What the record names in the care of a chain that generates. *)
LEMMA HeldTasked ==
  ASSUME Base, OnceInv, ~beside, NEW k \in Working, chains[k].kind = "generate"
  PROVE  /\ Held \subseteq Tasked(chains[k])
         /\ \A t \in Tasked(chains[k]) : \E i \in Slots : t = Of(k, i)
<1>1. Generating(chains[k])
  BY AloneFacts
<1>2. ASSUME NEW t \in Held PROVE t \in Tasked(chains[k])
  <2>1. record # None /\ record.ids \in Seq(Pairs) /\ t \in Named(record.ids)
    BY <1>2, BaseTypes, RecordTypes DEF Held
  <2>2. t \in Tasks /\ t[1] = batches
    <3>1. PICK n \in DOMAIN record.ids : record.ids[n].task = t
      BY <2>1, NamedFacts
    <3> QED BY <1>1, <2>1, <3>1, RecordTypes DEF Generating, Mine
  <2>3. t[2] \in Slots /\ t = <<batches, t[2]>>
    BY <2>2 DEF Tasks
  <2> QED BY <1>1, <2>3 DEF Generating, Tasked
<1>3. \A t \in Tasked(chains[k]) : \E i \in Slots : t = Of(k, i)
  BY DEF Tasked, Of
<1> QED BY <1>2, <1>3

LEMMA StageHeeds ==
  ASSUME Base, OnceInv, KeptInv, ~beside, ~raced, NEW k \in Working, UNCHANGED task, Stays,
         NEW c \in Chains, c.entry = chains[k].entry
  PROVE  \A i \in Slots : Heeds(c.entry[i])'
<1> SUFFICES ASSUME NEW i \in Slots PROVE Heeds(c.entry[i])'
  OBVIOUS
<1>1. k \in DOMAIN chains
  BY DEF Working
<1>2. PICK e \in Entries : e = c.entry[i] /\ Fit(e, i) /\ Heeds(e)
  BY <1>1, BaseTypes, UnracedFacts
<1>3. Heeds(e)'
  BY <1>2, HeedsStays DEF Fit
<1> QED BY <1>2, <1>3

(* Nothing is left of a chain that ends. *)
LEMMA FinishKept ==
  ASSUME Base, OnceInv, KeptInv, NEW k \in Working, Finish(k), beside' = beside, raced => raced',
         ~beside /\ ~raced' => Settled'
  PROVE  KeptInv'
<1>1. chains' = [chains EXCEPT ![k] = Over] /\ Over.kind = "over"
  BY DEF Finish, Over
<1> QED BY <1>1, OffTypes, KeptTurn

LEMMA ForgetKept ==
  ASSUME Base, OnceInv, KeptInv, NEW k \in DOMAIN chains, Forget(k)
  PROVE  KeptInv'
<1>1. /\ k \in Working /\ chains[k].at = "saved" /\ Finish(k) /\ record' = None
      /\ UNCHANGED <<task, history, noted, beside, givenUp>> /\ (raced => raced')
  BY DEF Forget
<1>2. ASSUME ~beside, ~raced PROVE Settled'
  <2>1. Settled /\ Resolves(chains[k]) /\ chains[k].kind \in {"generate", "restore"}
    BY <1>1, <1>2, UnracedFacts, AloneFacts
  <2>2. \A t \in Held : Done(t)
    <3>1. CASE chains[k].kind = "generate"
      <4>1. \A i \in Slots : Done(Of(k, i))
        BY <1>1, <2>1, <3>1 DEF Resolves, Of
      <4> QED BY <1>1, <1>2, <3>1, <4>1, HeldTasked
    <3>2. CASE chains[k].kind = "restore"
      BY <1>1, <2>1, <3>2 DEF Resolves, Covers
    <3> QED BY <2>1, <3>1, <3>2
  <2>3. Stays
    BY <1>1, DoneStays DEF In, Entered
  <2>4. Listed' = Listed
    BY <1>1 DEF Listed
  <2> QED BY <1>1, <2>1, <2>2, <2>3, <2>4, ListedTypes DEF Settled, Stays
<1> QED BY <1>1, <1>2, FinishKept

LEMMA SettleKept ==
  ASSUME Base, OnceInv, KeptInv, NEW k \in DOMAIN chains, Settle(k)
  PROVE  KeptInv'
<1>1. /\ k \in Working /\ chains[k].at = "slots" /\ Ended(k)
      /\ UNCHANGED <<task, history, record, noted, raced, beside, givenUp>>
  BY DEF Settle, ghostVars
<1>2. PICK b \in Chains : b = chains[k]
  BY BaseTypes
<1>3. PICK at \in {"saved", "saving"} : at = IF Images(k) = {} THEN "saved" ELSE "saving"
  OBVIOUS
<1>4. PICK its \in SUBSET Tasks : its = IF b.kind = "generate" THEN Held ELSE Tasked(b)
  BY <1>2, HeldTypes, RunningFacts DEF Tasked, Of
<1> DEFINE c == [b EXCEPT !.at = at, !.ids = its]
<1>5. c \in Chains /\ c.kind = b.kind /\ c.at = at /\ c.entry = b.entry
  BY DEF Chains
<1>6. chains' = [chains EXCEPT ![k] = c]
  BY <1>2, <1>3, <1>4 DEF Settle, Tasked, Of
<1> HIDE DEF c
<1>7. PICK d \in Chains : d = c
  BY <1>5
<1>8. Stays /\ Held' = Held
  BY <1>1, DoneStays DEF In, Entered, Held
<1>9. ASSUME ~beside, ~raced PROVE Settled' /\ Resolves(d)'
  <2>1. Settled /\ Resolves(b)
    BY <1>1, <1>2, <1>9, UnracedFacts
  <2>2. Settled'
    BY <1>1, <1>8, <2>1, SettledStays
  <2>3. \A i \in Slots : Heeds(d.entry[i])'
    BY <1>1, <1>2, <1>5, <1>7, <1>8, <1>9, StageHeeds
  <2>4. \A i \in Slots : d.entry[i].at \in {"off", "done", "error"}
    BY <1>1, <1>2, <1>5, <1>7 DEF Ended
  <2>5. \A t \in Tasked(b) : t \in Tasks /\ (at = "saved" => Done(t))
    BY <1>1, <1>2, <1>3, <1>9, EndedFacts, RunningFacts DEF Tasked, Of
  <2>6. ASSUME d.kind = "generate", d.at = "saved", NEW i \in Slots PROVE Done(d.entry[i].task)'
    <3>1. Generating(b)
      BY <1>1, <1>2, <1>5, <1>7, <1>9, <2>6, AloneFacts
    <3>2. b.entry[i].task \in Tasked(b)
      BY <3>1 DEF Generating, Tasked
    <3>3. Done(b.entry[i].task) /\ b.entry[i].task \in Tasks
      BY <1>5, <1>7, <2>5, <2>6, <3>2
    <3>4. PICK t \in Tasks : t = d.entry[i].task /\ Done(t)
      BY <1>5, <1>7, <3>3
    <3> QED BY <1>8, <3>4 DEF Stays, Done
  <2>7. ASSUME d.kind = "restore", NEW t \in Held PROVE Covers(d, t)'
    <3>1. t \in Tasks /\ Covers(b, t)
      BY <1>5, <1>7, <2>1, <2>7, ListedTypes DEF Resolves
    <3>2. Done(t) \/ t \in Tasked(b)
      BY <1>1, <1>2, <3>1 DEF Covers
    <3>3. Tasked(d) = Tasked(b)
      BY <1>5, <1>7 DEF Tasked
    <3>4. CASE at = "saved"
      <4>1. Done(t)'
        BY <1>8, <2>5, <3>1, <3>2, <3>4 DEF Stays
      <4> QED BY <1>5, <1>7, <3>4, <4>1 DEF Covers
    <3>5. CASE at = "saving"
      <4>1. Done(t)' \/ t \in Tasked(d)
        BY <1>8, <3>1, <3>2, <3>3 DEF Stays
      <4> QED BY <1>5, <1>7, <3>5, <4>1 DEF Covers, Tasked
    <3> QED BY <3>4, <3>5
  <2>8. Resolves(d)'
    BY <1>8, <2>3, <2>4, <2>6, <2>7 DEF Resolves
  <2> QED BY <2>2, <2>8
<1> QED BY <1>1, <1>6, <1>7, <1>9, KeptTurn

(* Once saved, or given up, the images of a chain are done with. *)
LEMMA SavedKept ==
  ASSUME Base, OnceInv, KeptInv, NEW k \in DOMAIN chains, Saved(k) \/ SaveFails(k)
  PROVE  KeptInv'
<1>1. /\ k \in Working /\ chains[k].at = "saving"
      /\ UNCHANGED <<task, record, noted, raced, beside>> /\ givenUp \subseteq givenUp'
  BY DEF Saved, SaveFails, ghostVars
<1>2. PICK b \in Chains : b = chains[k]
  BY BaseTypes
<1>3. PICK c \in Chains :
        /\ c.at = "saved" /\ c.kind = b.kind /\ c.entry = b.entry
        /\ chains' = [chains EXCEPT ![k] = c]
  <2>1. chains' = [chains EXCEPT ![k] = [b EXCEPT !.at = "saved"]]
    BY <1>2 DEF Saved, SaveFails
  <2> QED BY <2>1, SavedAt
<1>4. /\ \A t : In(t) => In(t)'
      /\ \A t \in Images(k) : Done(t)'
      /\ Listed' \subseteq Listed \cup chains[k].ids
  <2>1. CASE Saved(k)
    <3>1. PICK l \in Nat : \A t : Entered(t)' = IF t \in Images(k) THEN Entered(t) \cup {l}
                                                                   ELSE Entered(t)
      BY <2>1, HistoryFacts
    <3>2. \A t : In(t)' <=> In(t) \/ t \in Images(k)
      BY <3>1 DEF In
    <3> QED BY <2>1, <3>2, HistoryFacts DEF Done
  <2>2. CASE SaveFails(k)
    BY <2>2 DEF SaveFails, In, Entered, Done, Listed
  <2> QED BY <2>1, <2>2
<1>5. Stays /\ Held' = Held
  BY <1>1, <1>4, DoneStays DEF Held
<1>6. ASSUME ~beside, ~raced PROVE Settled' /\ Resolves(c)'
  <2>1. Settled /\ Resolves(b) /\ b.kind \in {"generate", "restore"}
    BY <1>1, <1>2, <1>6, UnracedFacts, AloneFacts
  <2>2. Ended(k)
    BY <1>1, <1>2, <2>1 DEF Resolves, Ended
  <2>3. \A t \in Tasked(b) : t \in Tasks /\ Done(t)'
    <3>1. \A t \in Tasked(b) : t \in Tasks /\ (t \in Images(k) \/ Done(t))
      BY <1>1, <1>2, <1>6, <2>2, EndedFacts, RunningFacts DEF Tasked, Of
    <3> QED BY <1>4, <1>5, <3>1 DEF Stays
  <2>4. b.ids \subseteq Tasked(b)
    <3>1. CASE b.kind = "generate"
      <4>1. b.ids = Held
        BY <1>1, <1>2, <1>6, <3>1, AloneFacts DEF Generating
      <4> QED BY <1>1, <1>2, <1>6, <3>1, <4>1, HeldTasked
    <3>2. CASE b.kind = "restore"
      BY <1>1, <1>2, <1>6, <3>2, AloneFacts DEF Restored
    <3> QED BY <2>1, <3>1, <3>2
  <2>5. Settled'
    <3>1. \A t \in Listed' : Done(t)'
      BY <1>2, <1>4, <1>5, <2>1, <2>3, <2>4, ListedTypes DEF Settled, Stays
    <3>2. \A t \in noted' : t \in Held' \/ Done(t)'
      BY <1>1, <1>5, <2>1, ListedTypes DEF Settled, Stays
    <3> QED BY <3>1, <3>2 DEF Settled
  <2>6. \A i \in Slots : Heeds(c.entry[i])'
    BY <1>1, <1>2, <1>3, <1>5, <1>6, StageHeeds
  <2>7. \A i \in Slots : c.entry[i].at \in {"off", "done", "error"}
    BY <1>2, <1>3, <2>2 DEF Ended
  <2>8. ASSUME c.kind = "generate", NEW i \in Slots PROVE Done(c.entry[i].task)'
    <3>1. Generating(b)
      BY <1>1, <1>2, <1>3, <1>6, <2>8, AloneFacts
    <3>2. b.entry[i].task \in Tasked(b)
      BY <3>1 DEF Generating, Tasked
    <3>3. PICK t : t = c.entry[i].task /\ t \in Tasked(b)
      BY <1>3, <3>2
    <3> QED BY <2>3, <3>3 DEF Done
  <2>9. ASSUME c.kind = "restore", NEW t \in Held PROVE Covers(c, t)'
    <3>1. t \in Tasks /\ Covers(b, t)
      BY <1>3, <2>1, <2>9, ListedTypes DEF Resolves
    <3>2. Done(t) \/ t \in Tasked(b)
      BY <1>1, <1>2, <3>1 DEF Covers
    <3>3. Done(t)'
      BY <1>5, <2>3, <3>1, <3>2 DEF Stays
    <3> QED BY <1>3, <3>3 DEF Covers
  <2>10. Resolves(c)'
    BY <1>3, <1>5, <2>6, <2>7, <2>8, <2>9 DEF Resolves
  <2> QED BY <2>5, <2>10
<1> QED BY <1>1, <1>3, <1>6, KeptTurn

LEMMA RestoreKept ==
  ASSUME Base, OnceInv, KeptInv, NEW k \in DOMAIN chains,
         ReadRecord(k) \/ ReadHistories(k) \/ RestoreFails(k)
  PROVE  KeptInv'
<1>1. /\ k \in Working /\ chains[k].kind = "restore"
      /\ UNCHANGED <<task, history, record, noted, raced, beside, givenUp>>
  BY DEF ReadRecord, ReadHistories, RestoreFails, Restoring, ghostVars
<1>2. PICK b \in Chains : b = chains[k] /\ b.pending \in Seq(Pairs)
  BY BaseTypes, ChainTypes
<1>3. Stays /\ Held' = Held
  BY <1>1, DoneStays DEF In, Entered, Held
<1>4. ~beside /\ ~raced => Settled /\ Settled' /\ Resolves(b)
  BY <1>1, <1>2, <1>3, SettledStays, UnracedFacts
<1>5. CASE RestoreFails(k)
  BY <1>1, <1>4, <1>5, FinishKept DEF RestoreFails
<1>6. CASE ReadRecord(k)
  <2>1. CASE record = None \/ record.ids = <<>>
    BY <1>1, <1>4, <1>6, <2>1, FinishKept DEF ReadRecord
  <2>2. CASE ~(record = None \/ record.ids = <<>>)
    <3>1. PICK r \in Records : r = record /\ r # None
      BY <2>2, BaseTypes
    <3> DEFINE c == [b EXCEPT !.at = "histories", !.batch = r.batch, !.pending = r.ids]
    <3>2. /\ c \in Chains /\ c.kind = b.kind /\ c.at = "histories" /\ c.pending = r.ids
          /\ c.entry = b.entry
      <4>1. r.batch \in 0..BatchBound /\ r.ids \in Seq(Pairs)
        BY RecordTypes, BoundAssumption
      <4> QED BY <4>1 DEF Chains, Pairs
    <3>3. chains' = [chains EXCEPT ![k] = c]
      BY <1>2, <1>6, <2>2, <3>1 DEF ReadRecord
    <3> HIDE DEF c
    <3>4. PICK d \in Chains : d = c
      BY <3>2
    <3>5. ASSUME ~beside, ~raced PROVE Resolves(d)'
      <4>1. \A i \in Slots : Heeds(d.entry[i])'
        BY <1>1, <1>2, <1>3, <3>2, <3>4, <3>5, StageHeeds
      <4>2. Held' = Named(d.pending)
        BY <1>3, <3>1, <3>2, <3>4 DEF Held
      <4>3. \A t \in Held' : Covers(d, t)'
        BY <3>2, <3>4, <4>2 DEF Covers
      <4> QED BY <1>1, <1>2, <3>2, <3>4, <4>1, <4>3 DEF Resolves
    <3> QED BY <1>1, <1>4, <3>3, <3>4, <3>5, KeptTurn
  <2> QED BY <2>1, <2>2
<1>7. CASE ReadHistories(k)
  <2>1. PICK left \in Seq(Pairs) :
          /\ left = Unsaved(b.pending)
          /\ \A t : t \in Named(left) <=> t \in Named(b.pending) /\ t \notin Listed
    BY <1>2, UnsavedFacts
  <2>2. PICK at \in {"saved", "tasks"} : at = IF left = <<>> THEN "saved" ELSE "tasks"
    OBVIOUS
  <2> DEFINE c == [b EXCEPT !.at = at, !.pending = left]
  <2>3. c \in Chains /\ c.kind = b.kind /\ c.at = at /\ c.pending = left /\ c.entry = b.entry
    BY DEF Chains, Pairs
  <2>4. chains' = [chains EXCEPT ![k] = c]
    BY <1>2, <1>7, <2>1, <2>2 DEF ReadHistories
  <2> HIDE DEF c
  <2>5. PICK d \in Chains : d = c
    BY <2>3
  <2>6. b.at = "histories"
    BY <1>2, <1>7 DEF ReadHistories, Restoring
  <2>7. ASSUME ~beside, ~raced PROVE Resolves(d)'
    <3>1. \A i \in Slots : Heeds(d.entry[i])'
      BY <1>1, <1>2, <1>3, <2>3, <2>5, <2>7, StageHeeds
    <3>2. ASSUME NEW t \in Held PROVE Covers(d, t)'
      <4>1. t \in Tasks /\ t \in Named(b.pending)
        BY <1>1, <1>2, <1>4, <2>6, <2>7, ListedTypes DEF Resolves, Covers
      <4>2. Done(t)' \/ t \in Named(left)
        BY <1>3, <1>4, <2>1, <2>7, <4>1 DEF Settled, Stays
      <4>3. left = <<>> => t \notin Named(left)
        BY DEF Named, ToSet
      <4> QED BY <2>2, <2>3, <2>5, <4>2, <4>3 DEF Covers
    <3> QED BY <1>1, <1>2, <1>3, <2>3, <2>5, <3>1, <3>2 DEF Resolves
  <2> QED BY <1>1, <1>4, <2>4, <2>5, <2>7, KeptTurn
<1> QED BY <1>5, <1>6, <1>7

LEMMA ReadTasksKept ==
  ASSUME Base, OnceInv, KeptInv, NEW k \in DOMAIN chains,
         NEW found \in SUBSET ToSet(chains[k].pending), ReadTasks(k, found)
  PROVE  KeptInv'
<1>1. /\ k \in Working /\ chains[k].kind = "restore" /\ chains[k].at = "tasks"
      /\ UNCHANGED <<task, history, record, noted, raced, beside>>
  BY DEF ReadTasks, Restoring
<1>2. PICK b \in Chains : b = chains[k] /\ b.pending \in Seq(Pairs)
  BY BaseTypes, ChainTypes
<1>3. givenUp' = givenUp \cup {p.task : p \in ToSet(b.pending) \ found}
  BY <1>2 DEF ReadTasks
<1>4. Stays /\ Held' = Held
  BY <1>1, <1>3, DoneStays DEF In, Entered, Held
<1>5. ~beside /\ ~raced => Settled /\ Settled' /\ Resolves(b)
  BY <1>1, <1>2, <1>4, SettledStays, UnracedFacts
<1>6. PICK r \in [Slots -> Entries] : r = Resumed(k, found)
  BY ResumedFacts
<1> DEFINE c == [b EXCEPT !.at = "slots", !.pending = <<>>, !.entry = r]
<1>7. c \in Chains /\ c.entry = r /\ c.at = "slots" /\ c.kind = b.kind
  <2>1. <<>> \in Seq(Pairs)
    BY EmptySeq
  <2> QED BY <2>1 DEF Chains, Pairs
<1>8. chains' = [chains EXCEPT ![k] = c]
  BY <1>2, <1>6 DEF ReadTasks, Resumed
<1> HIDE DEF c
<1>9. PICK d \in Chains : d = c
  BY <1>7
<1>10. /\ \A i \in Slots : r[i] = Off \/ (r[i].at = "poll" /\ r[i].heard = "active")
       /\ \A p \in found : p.slot \in Slots /\ r[p.slot].at = "poll" /\ r[p.slot].task = p.task
  BY <1>6, ResumedFacts
<1>11. \A i \in Slots : Heeds(d.entry[i])'
  <2> SUFFICES ASSUME NEW i \in Slots PROVE Heeds(d.entry[i])'
    OBVIOUS
  <2>1. PICK e \in Entries : e = d.entry[i] /\ e.heard = "active" /\ e.at \in {"off", "poll"}
    BY <1>7, <1>9, <1>10 DEF Off
  <2> QED BY <2>1 DEF Heeds
<1>12. ASSUME ~beside, ~raced PROVE Resolves(d)'
  <2>1. ASSUME NEW t \in Held PROVE Covers(d, t)'
    <3>1. t \in Tasks /\ (Done(t) \/ t \in Named(b.pending))
      BY <1>1, <1>2, <1>5, <1>12, ListedTypes DEF Resolves, Covers
    <3>2. ASSUME t \in Named(b.pending) PROVE Done(t)' \/ t \in Tasked(d)
      <4>1. PICK p \in ToSet(b.pending) : p.task = t
        BY <3>2 DEF Named
      <4>2. CASE p \in found
        <5>1. p.slot \in Slots /\ d.entry[p.slot].at = "poll" /\ d.entry[p.slot].task = t
          BY <1>7, <1>9, <1>10, <4>1, <4>2
        <5> QED BY <5>1 DEF Tasked
      <4>3. CASE p \notin found
        BY <1>3, <4>1, <4>3 DEF Done
      <4> QED BY <4>2, <4>3
    <3>3. Done(t)' \/ t \in Tasked(d)
      BY <1>4, <3>1, <3>2 DEF Stays
    <3> QED BY <1>7, <1>9, <3>3 DEF Covers, Tasked
  <2> QED BY <1>1, <1>2, <1>4, <1>7, <1>9, <1>11, <2>1 DEF Resolves
<1> QED BY <1>1, <1>5, <1>8, <1>9, <1>12, KeptTurn

(* A chain begins: beside another, or alone. *)
LEMMA BeginKept ==
  ASSUME Base, Base', KeptInv, NEW c, chains' = Append(chains, c),
         beside' = (beside \/ Working # {}), raced => raced',
         ~beside /\ Working = {} /\ ~raced' => Settled' /\ Resolves(c)'
  PROVE  KeptInv'
<1> SUFFICES ASSUME ~beside, Working = {}, ~raced'
             PROVE  (\A l \in Working : Resolves(chains[l]))'
  BY DEF KeptInv
<1> DEFINE n == Len(chains)
<1>1. n \in Nat /\ DOMAIN chains = 1..n /\ Len(chains') = n + 1
      /\ (\A j \in 1..n : chains'[j] = chains[j]) /\ chains'[n + 1] = c
  <2>1. chains \in Seq(Chains \cup {c}) /\ c \in Chains \cup {c}
    BY BaseTypes, SeqMonotonic
  <2> QED BY <2>1, AppendProperties, LenProperties
<1>2. DOMAIN chains' = 1..(n + 1)
  <2>1. chains' \in Seq(Chains)
    BY DEF Base, TypeOK
  <2> QED BY <1>1, <2>1, LenProperties
<1> HIDE DEF n
<1>3. \A l \in Working' : l = n + 1
  <2> SUFFICES ASSUME NEW l \in DOMAIN chains', chains'[l].kind # "over" PROVE l = n + 1
    BY DEF Working
  <2>1. l \in 1..n => chains[l].kind # "over" /\ l \in DOMAIN chains
    BY <1>1
  <2> QED BY <1>1, <1>2, <2>1 DEF Working
<1>4. ASSUME NEW l \in Working' PROVE Resolves(chains[l])'
  <2>1. Resolves(c)' /\ chains'[l] = c
    BY <1>1, <1>3
  <2> QED BY <2>1 DEF Resolves, Heeds, Covers, Tasked
<1> QED BY <1>4

LEMMA GenerateKept ==
  ASSUME Base, OnceInv, KeptInv, Generate
  PROVE  KeptInv'
<1>1. /\ UNCHANGED <<task, history, noted, givenUp>> /\ batches' = batches + 1 /\ batches \in Nat
      /\ beside' = (beside \/ Working # {}) /\ raced' = (raced \/ record # None)
      /\ batches' \in 1..BatchBound
  BY BoundAssumption DEF Generate, Base, TypeOK
<1>2. Base'
  BY GenerateBase
<1>3. PICK n \in 1..BatchBound : n = batches'
  BY <1>1
<1> DEFINE posted(i) == [Off EXCEPT !.at = "post", !.task = <<n, i>>, !.place = i]
           c == [Over EXCEPT !.kind = "generate", !.mount = mount, !.at = "slots", !.batch = n,
                             !.entry = [i \in Slots |-> posted(i)]]
<1>4. chains' = Append(chains, c)
  BY <1>3 DEF Generate
<1>5. \A i \in Slots : /\ posted(i).at = "post" /\ posted(i).task = <<n, i>>
                       /\ posted(i).heard = "active"
  BY DEF Off
<1> HIDE DEF posted
<1>6. c.kind = "generate" /\ c.at = "slots" /\ \A i \in Slots : c.entry[i] = posted(i)
  BY DEF Over
<1> HIDE DEF c
<1>7. PICK d : d = c
  OBVIOUS
<1>8. chains' = Append(chains, d)
  BY <1>4, <1>7
<1>9. ASSUME ~beside, Working = {}, ~raced' PROVE Settled' /\ Resolves(d)'
  <2>1. Once /\ Settled /\ record = None
    BY <1>1, <1>9 DEF OnceInv, KeptInv
  <2>2. \A t \in noted : Done(t)
    BY <2>1 DEF Settled, Held
  <2>3. Stays /\ Listed' = Listed
    BY <1>1, DoneStays DEF In, Entered, Listed
  <2>4. Settled'
    BY <1>1, <2>1, <2>2, <2>3, ListedTypes DEF Settled, Stays
  <2>5. \A i \in Slots : Heeds(d.entry[i])'
    <3> SUFFICES ASSUME NEW i \in Slots PROVE Heeds(d.entry[i])'
      OBVIOUS
    <3>1. PICK e : e = d.entry[i] /\ e.at = "post" /\ e.task = <<n, i>> /\ e.heard = "active"
      BY <1>5, <1>6, <1>7
    <3>2. <<n, i>> \in Tasks /\ <<n, i>>[1] = n /\ ~(n <= batches)
      BY <1>1, <1>3 DEF Tasks
    <3>3. task'[e.task] = "none"
      BY <1>1, <2>1, <3>1, <3>2, BaseTypes DEF Once
    <3> QED BY <3>1, <3>3 DEF Heeds
  <2>6. d.kind = "generate" /\ d.at = "slots"
    BY <1>6, <1>7
  <2> QED BY <2>4, <2>5, <2>6 DEF Resolves
<1> QED BY <1>1, <1>2, <1>8, <1>9, BeginKept

LEMMA OpenKept ==
  ASSUME Base, OnceInv, KeptInv, Open
  PROVE  KeptInv'
<1>1. /\ UNCHANGED <<task, history, record, noted, givenUp, raced>>
      /\ beside' = (beside \/ Working # {})
  BY DEF Open
<1>2. Base'
  BY OpenBase
<1>3. PICK c : c = [Over EXCEPT !.kind = "restore", !.mount = mount', !.at = "record"]
  OBVIOUS
<1>4. chains' = Append(chains, c)
  BY <1>3 DEF Open
<1>5. c.kind = "restore" /\ c.at = "record" /\ \A i \in Slots : c.entry[i] = Off
  BY <1>3 DEF Over
<1>6. Resolves(c)'
  <2>1. Off.at = "off"
    BY DEF Off
  <2> QED BY <1>5, <2>1 DEF Resolves, Heeds, Covers
<1>7. Stays
  BY <1>1, DoneStays DEF In, Entered
<1>8. ~beside /\ ~raced => Settled'
  BY <1>1, <1>7, SettledStays DEF KeptInv
<1> QED BY <1>1, <1>2, <1>4, <1>6, <1>8, BeginKept

(* The server, the user, and no step of a chain. *)
LEMMA OutsideKept ==
  ASSUME Base, OnceInv, KeptInv,
         UNCHANGED <<history, record, chains, noted, beside, raced, givenUp>>,
         \A t \in Tasks : task'[t] = task[t] \/ (task[t] = "active" /\ task'[t] # "none")
  PROVE  KeptInv'
<1> SUFFICES ASSUME ~beside, ~raced PROVE Settled' /\ (\A l \in Working : Resolves(chains[l]))'
  BY DEF KeptInv
<1>1. Stays /\ Held' = Held /\ Working' = Working
  <2>1. \A t \in Tasks : task[t] = "failed" => task'[t] = "failed"
    OBVIOUS
  <2>2. Stays
    BY <2>1, DoneStays DEF In, Entered
  <2> QED BY <2>2 DEF Held, Working
<1>2. Settled'
  BY <1>1, SettledStays DEF KeptInv
<1>3. ASSUME NEW l \in Working PROVE Resolves(chains[l])'
  <2>1. PICK c \in Chains : c = chains[l]
    BY BaseTypes DEF Working
  <2>2. Resolves(c) /\ l \in DOMAIN chains
    BY <2>1 DEF KeptInv, Working
  <2>3. \A i \in Slots : Heeds(c.entry[i])'
    <3> SUFFICES ASSUME NEW i \in Slots PROVE Heeds(c.entry[i])'
      OBVIOUS
    <3>1. PICK e \in Entries : e = c.entry[i] /\ Fit(e, i) /\ Heeds(e)
      BY <2>1, <2>2, BaseTypes DEF Resolves
    <3>2. Heeds(e)'
      BY <1>1, <3>1, HeedsStays DEF Fit
    <3> QED BY <3>1, <3>2
  <2>4. c.kind = "generate" /\ c.at = "saved" => \A i \in Slots : Done(c.entry[i].task)'
    <3> SUFFICES ASSUME c.kind = "generate", c.at = "saved", NEW i \in Slots
                 PROVE  Done(c.entry[i].task)'
      OBVIOUS
    <3>1. PICK e \in Entries : e = c.entry[i] /\ Fit(e, i) /\ Done(e.task)
      BY <2>1, <2>2, BaseTypes DEF Resolves
    <3>2. e.at # "off"
      BY <2>1, <3>1 DEF OnceInv, Single, Generating
    <3>3. e.task \in Tasks
      BY <3>1, <3>2 DEF Fit
    <3>4. Done(e.task)'
      BY <1>1, <3>1, <3>3 DEF Stays
    <3> QED BY <3>1, <3>4
  <2>5. c.kind = "restore" => \A t \in Held' : Covers(c, t)'
    <3> SUFFICES ASSUME c.kind = "restore", NEW t \in Held PROVE Covers(c, t)'
      BY <1>1
    <3>1. t \in Tasks /\ Covers(c, t)
      BY <2>2, ListedTypes DEF Resolves
    <3>2. Done(t) => Done(t)'
      BY <1>1, <3>1 DEF Stays
    <3> QED BY <3>1, <3>2 DEF Covers, Tasked
  <2>6. Resolves(c)'
    BY <2>2, <2>3, <2>4, <2>5 DEF Resolves
  <2> QED BY <2>1, <2>6 DEF Resolves, Heeds, Covers, Tasked
<1> QED BY <1>1, <1>2, <1>3

LEMMA NextKept ==
  ASSUME Base, OnceInv, KeptInv, [Next]_vars
  PROVE  KeptInv'
<1>1. CASE Server
  <2>1. UNCHANGED <<history, record, chains, noted, beside, raced, givenUp>>
    BY <1>1 DEF Server, TaskEnds, ghostVars
  <2>2. \A t \in Tasks : task'[t] = task[t] \/ (task[t] = "active" /\ task'[t] # "none")
    BY <1>1, BaseTypes DEF Server, TaskEnds
  <2> QED BY <2>1, <2>2, OutsideKept
<1>2. CASE User
  <2>1. CASE Generate \/ Open
    BY <2>1, GenerateKept, OpenKept
  <2>2. CASE Leave
    BY <2>2, OutsideKept DEF Leave, ghostVars
  <2>3. CASE Reload
    <3>1. UNCHANGED <<task, history, record, noted, beside, raced, givenUp>> /\ Working' = {}
      BY <2>3 DEF Reload, ghostVars, Working, Over
    <3>2. Stays
      BY <3>1, DoneStays DEF In, Entered
    <3>3. ~beside /\ ~raced => Settled'
      BY <3>1, <3>2, SettledStays DEF KeptInv
    <3> QED BY <3>1, <3>3 DEF KeptInv
  <2>4. ASSUME NEW k \in DOMAIN chains, NEW i \in Slots, Cancel(k, i)
        PROVE  KeptInv'
    <3>1. UNCHANGED <<history, record, chains, noted, beside, raced, givenUp>>
      BY <2>4 DEF Cancel, ghostVars
    <3>2. \A t \in Tasks : task'[t] = task[t] \/ (task[t] = "active" /\ task'[t] # "none")
      BY <2>4, BaseTypes DEF Cancel
    <3> QED BY <3>1, <3>2, OutsideKept
  <2> QED BY <1>2, <2>1, <2>2, <2>3, <2>4 DEF User
<1>3. ASSUME NEW k \in DOMAIN chains, Chain(k)
      PROVE  KeptInv'
  <2>1. ASSUME NEW i \in Slots, \/ Submitted(k, i) \/ NoteRead(k, i) \/ NoteWrite(k, i)
                                \/ Poll(k, i) \/ Result(k, i) \/ SlotFails(k, i)
        PROVE  KeptInv'
    BY <2>1, SlotKept
  <2>2. ASSUME \/ Settle(k) \/ Saved(k) \/ SaveFails(k) \/ Forget(k)
               \/ ReadRecord(k) \/ ReadHistories(k) \/ RestoreFails(k)
        PROVE  KeptInv'
    BY <2>2, SettleKept, SavedKept, ForgetKept, RestoreKept
  <2>3. ASSUME NEW found \in SUBSET ToSet(chains[k].pending), ReadTasks(k, found)
        PROVE  KeptInv'
    BY <2>3, ReadTasksKept
  <2> QED BY <1>3, <2>1, <2>2, <2>3, ChainCases
<1>4. CASE UNCHANGED vars
  BY <1>4, OutsideKept DEF vars, ghostVars
<1> QED BY <1>1, <1>2, <1>3, <1>4 DEF Next

LEMMA InitKept ==
  ASSUME Init
  PROVE  KeptInv
BY DEF Init, KeptInv, Settled, Listed, Working, ToSet

(* Each task of the record is settled, or the chain at work knows it and    *)
(* does not remove the record before the task is settled: savedRecovery and *)
(* removeItem come after the entry of the history.                          *)
THEOREM KeptKept == Spec => []KeptInv
<1>1. Init => KeptInv
  BY InitKept
<1>2. Base /\ OnceInv /\ KeptInv /\ [Next]_vars => KeptInv'
  BY NextKept
<1> QED BY <1>1, <1>2, BaseKept, OnceKept, PTL DEF Spec

(* A task the record has named stays in it until it is in the history, has  *)
(* failed or was given up with an error, whenever the browser stops, as     *)
(* long as the record lost nothing to a second chain or to a slot that      *)
(* wrote what it read before (docs/pending-test.md:73).                     *)
THEOREM Tasks_Kept == Spec => []TasksAreKeptUnraced
<1>1. KeptInv => TasksAreKeptUnraced
  BY DEF KeptInv, Settled, Done, In, TasksAreKeptUnraced, TasksAreKept
<1> QED BY <1>1, KeptKept, PTL
=============================================================================
