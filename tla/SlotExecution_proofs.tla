--------------------------- MODULE SlotExecution_proofs ---------------------------
(***************************************************************************)
(* What SlotExecution promises for any study, any number of processes and  *)
(* any number of kills and edits.  StudyInv is the inductive invariant: it *)
(* says what a process may still rely on of what it read before, while     *)
(* other processes go on.  The second half of the module is the refinement *)
(* of FixedStudy.                                                          *)
(***************************************************************************)
EXTENDS SlotExecution, FiniteSetTheorems, NaturalsInduction, WellFoundedInduction, TLAPS

-----------------------------------------------------------------------------
(* The plan.  Flattening the orders puts the slots of a block after those  *)
(* of all the blocks before it.                                            *)

LEMMA LeastNumber ==
    ASSUME NEW S, S \subseteq Nat, S # {}
    PROVE  \E n \in S : \A m \in S : n <= m
<1>1. \E n \in S : \A m \in S : ~(<<m, n>> \in OpToRel(<, Nat))
  <2> DEFINE R == OpToRel(<, Nat)
  <2>1. IsWellFoundedOn(R, Nat)
    BY NatLessThanWellFounded
  <2> HIDE DEF R
  <2>2. \E n \in S : \A m \in S : ~(<<m, n>> \in R)
    BY <2>1, WFMin
  <2> QED BY <2>2 DEF R
<1>2. PICK n \in S : \A m \in S : ~(m < n)
  BY <1>1 DEF OpToRel
<1> QED BY <1>2

\* What the first blocks give, one more block at a time.
Flattens(flat, seqs, n) ==
    \A i \in 1 .. n : flat[i] = IF i = 1 THEN seqs[i] ELSE flat[i - 1] \o seqs[i]

LEMMA CanFlatten ==
    ASSUME NEW seqs, NEW n \in Nat \ {0}
    PROVE  \E flat : flat = [i \in 1 .. n |-> flat[i]] /\ Flattens(flat, seqs, n)
<1> DEFINE Can(m) == \E flat : flat = [i \in 1 .. m |-> flat[i]] /\ Flattens(flat, seqs, m)
           D == {m \in 1 .. n : ~Can(m)}
<1> SUFFICES ASSUME D # {} PROVE FALSE
  OBVIOUS
<1>1. PICK m \in D : \A j \in D : m <= j
  <2>1. D \subseteq Nat
    OBVIOUS
  <2> HIDE DEF D
  <2> QED BY <2>1, LeastNumber
<1>2. m \in 1 .. n /\ ~Can(m)
  OBVIOUS
<1>3. CASE m = 1
  <2> DEFINE f == [i \in 1 .. 1 |-> seqs[1]]
  <2>1. f = [i \in 1 .. 1 |-> f[i]] /\ Flattens(f, seqs, 1)
    BY DEF Flattens
  <2> HIDE DEF f
  <2> QED BY <1>2, <1>3, <2>1
<1>4. CASE m # 1
  <2>1. m - 1 \in 1 .. n /\ m - 1 \notin D /\ m \in Nat
    BY <1>1, <1>2, <1>4
  <2>2. PICK g : g = [i \in 1 .. m - 1 |-> g[i]] /\ Flattens(g, seqs, m - 1)
    BY <2>1
  <2> DEFINE f == [i \in 1 .. m |-> IF i = m THEN g[m - 1] \o seqs[m] ELSE g[i]]
  <2>3. f = [i \in 1 .. m |-> f[i]]
    OBVIOUS
  <2>4. ASSUME NEW i \in 1 .. m
        PROVE  f[i] = IF i = 1 THEN seqs[i] ELSE f[i - 1] \o seqs[i]
    <3>1. CASE i = m
      <4>1. f[m] = g[m - 1] \o seqs[m]
        BY <3>1
      <4>2. m - 1 \in 1 .. m /\ m - 1 # m
        BY <2>1
      <4>3. f[m - 1] = g[m - 1]
        BY <4>2
      <4> HIDE DEF f
      <4> QED BY <1>4, <3>1, <4>1, <4>3
    <3>2. CASE i # m
      <4>1. i \in 1 .. m - 1 /\ f[i] = g[i]
        BY <2>1, <3>2
      <4>2. g[i] = IF i = 1 THEN seqs[i] ELSE g[i - 1] \o seqs[i]
        BY <2>2, <4>1 DEF Flattens
      <4>3. i # 1 => f[i - 1] = g[i - 1]
        BY <2>1, <4>1
      <4> HIDE DEF f
      <4> QED BY <4>1, <4>2, <4>3
    <3> QED BY <3>1, <3>2
  <2> HIDE DEF f
  <2>5. Flattens(f, seqs, m)
    BY <2>4 DEF Flattens
  <2> QED BY <1>2, <2>3, <2>5
<1> QED BY <1>3, <1>4

LEMMA FlattenSteps ==
    ASSUME NEW seqs, NEW n \in Nat \ {0}, Len(seqs) = n
    PROVE  \E flat : /\ FlattenSeq(seqs) = flat[n] /\ flat[1] = seqs[1]
                     /\ \A i \in 1 .. n : i > 1 => flat[i] = flat[i - 1] \o seqs[i]
<1> DEFINE Longer(f) == [i \in 1 .. n |-> IF i = 1 THEN seqs[i] ELSE f[i - 1] \o seqs[i]]
           flatten == CHOOSE f : f = Longer(f)
<1>1. PICK g : g = [i \in 1 .. n |-> g[i]] /\ Flattens(g, seqs, n)
  BY CanFlatten
<1>2. g = Longer(g)
  BY <1>1 DEF Flattens
<1>3. flatten = Longer(flatten)
  <2> HIDE DEF Longer
  <2> QED BY <1>2
<1> HIDE DEF flatten
<1>4. Flattens(flatten, seqs, n)
  BY <1>3 DEF Flattens
<1>5. FlattenSeq(seqs) = flatten[n]
  BY DEF FlattenSeq, flatten
<1>6. flatten[1] = seqs[1]
  <2>1. 1 \in 1 .. n
    OBVIOUS
  <2> QED BY <1>4, <2>1 DEF Flattens
<1>7. ASSUME NEW i \in 1 .. n, i > 1 PROVE flatten[i] = flatten[i - 1] \o seqs[i]
  <2>1. i # 1
    BY <1>7
  <2> QED BY <1>4, <2>1 DEF Flattens
<1> QED BY <1>5, <1>6, <1>7

\* The places of n blocks: those of block b begin at some place, and come
\* after those of the blocks before it.
InBlocks(placed, n) ==
    /\ \A g \in 1 .. Len(placed) : placed[g][1] \in 1 .. n
    /\ \A b \in 1 .. n : \E first \in 1 .. Len(placed) :
         placed[first][1] = b /\ \A g \in 1 .. Len(placed) : g < first <=> placed[g][1] < b

LEMMA LastOrBefore ==
    ASSUME NEW n \in Nat, NEW b \in 1 .. n + 1
    PROVE  b = n + 1 \/ b \in 1 .. n
OBVIOUS

LEMMA AddBlock ==
    ASSUME NEW n \in Nat, NEW p \in Seq(Nat \X Nat), NEW q \in Seq(Nat \X Nat), Len(q) > 0,
           \A i \in 1 .. Len(q) : q[i][1] = n + 1, InBlocks(p, n)
    PROVE  p \o q \in Seq(Nat \X Nat) /\ Len(p \o q) = Len(p) + Len(q) /\ InBlocks(p \o q, n + 1)
<1> DEFINE r == p \o q
<1>1. PICK k, l : k = Len(p) /\ l = Len(q)
  OBVIOUS
<1>2. k \in Nat /\ l \in Nat \ {0}
  BY <1>1
<1>3. r \in Seq(Nat \X Nat) /\ Len(r) = k + l
  BY <1>1
<1>4. \A g \in 1 .. k : r[g] = p[g]
  BY <1>1
<1>5. ASSUME NEW g \in k + 1 .. k + l PROVE r[g][1] = n + 1
  <2>1. g - k \in 1 .. l /\ g \in 1 .. Len(p) + Len(q) /\ ~(g <= Len(p))
    BY <1>1, <1>2
  <2>2. r[g] = q[g - k]
    BY <1>1, <2>1
  <2> QED BY <1>1, <2>1, <2>2
<1> HIDE DEF r
<1>6. PICK at : at = [g \in 1 .. k + l |-> r[g][1]]
  OBVIOUS
<1>7. ASSUME NEW g \in 1 .. k PROVE at[g] = p[g][1] /\ at[g] \in 1 .. n
  <2>1. p[g][1] \in 1 .. n
    BY <1>1 DEF InBlocks
  <2>2. g \in 1 .. k + l
    BY <1>2
  <2> QED BY <1>4, <1>6, <2>1, <2>2
<1>8. ASSUME NEW g \in 1 .. k + l, g > k PROVE at[g] = n + 1
  <2>1. g \in k + 1 .. k + l
    BY <1>2, <1>8
  <2> QED BY <1>5, <1>6, <2>1
<1>9. ASSUME NEW g \in 1 .. k + l PROVE at[g] \in 1 .. n + 1
  <2>1. CASE g \in 1 .. k
    BY <1>7, <2>1
  <2>2. CASE g > k
    BY <1>8, <2>2
  <2> QED BY <1>2, <2>1, <2>2
<1>10. ASSUME NEW b \in 1 .. n + 1
       PROVE  \E first \in 1 .. k + l :
                at[first] = b /\ \A g \in 1 .. k + l : g < first <=> at[g] < b
  <2>1. CASE b = n + 1
    <3>1. k + 1 \in 1 .. k + l /\ k + 1 > k
      BY <1>2
    <3>2. at[k + 1] = b
      BY <1>8, <2>1, <3>1
    <3>3. ASSUME NEW g \in 1 .. k + l PROVE g < k + 1 <=> at[g] < b
      <4>1. CASE g \in 1 .. k
        <5>1. at[g] \in 1 .. n
          BY <1>7, <4>1
        <5> QED BY <1>2, <2>1, <4>1, <5>1
      <4>2. CASE g > k
        BY <1>2, <1>8, <2>1, <4>2
      <4> QED BY <1>2, <4>1, <4>2
    <3> QED BY <3>1, <3>2, <3>3
  <2>2. CASE b # n + 1
    <3>1. b \in 1 .. n
      BY <2>2, LastOrBefore
    <3>2. PICK first \in 1 .. k : p[first][1] = b /\ \A g \in 1 .. k : g < first <=> p[g][1] < b
      BY <1>1, <3>1 DEF InBlocks
    <3>3. first \in 1 .. k + l /\ at[first] = b
      BY <1>2, <1>7, <3>2
    <3>4. ASSUME NEW g \in 1 .. k + l PROVE g < first <=> at[g] < b
      <4>1. CASE g \in 1 .. k
        BY <1>7, <3>2, <4>1
      <4>2. CASE g > k
        <5>1. at[g] = n + 1
          BY <1>8, <4>2
        <5> QED BY <1>2, <3>1, <4>2, <5>1
      <4> QED BY <1>2, <4>1, <4>2
    <3> QED BY <3>3, <3>4
  <2> QED BY <2>1, <2>2
<1>11. InBlocks(r, n + 1)
  BY <1>3, <1>6, <1>9, <1>10 DEF InBlocks
<1> QED BY <1>1, <1>3, <1>11 DEF r

\* Block and position of each slot, block by block.
PlacesOf(orders) == [b \in 1 .. Len(orders) |-> [i \in 1 .. Len(orders[b]) |-> <<b, i>>]]

\* Flattening two lists of blocks that are equally long, one of them the places.
LEMMA FlattenedTogether ==
    ASSUME NEW orders, NEW n \in Nat \ {0}, Len(orders) = n,
           \A b \in 1 .. n : orders[b] \in Seq(STRING) /\ Len(orders[b]) > 0
    PROVE  /\ FlattenSeq(orders) \in Seq(STRING)
           /\ Len(FlattenSeq(PlacesOf(orders))) = Len(FlattenSeq(orders))
           /\ InBlocks(FlattenSeq(PlacesOf(orders)), n)
<1>1. PICK t : /\ FlattenSeq(orders) = t[n] /\ t[1] = orders[1]
               /\ \A i \in 1 .. n : i > 1 => t[i] = t[i - 1] \o orders[i]
  BY FlattenSteps
<1> DEFINE pairs == PlacesOf(orders)
<1>2. Len(pairs) = n
  BY DEF PlacesOf
<1> HIDE DEF pairs
<1>3. PICK p : /\ FlattenSeq(pairs) = p[n] /\ p[1] = pairs[1]
               /\ \A i \in 1 .. n : i > 1 => p[i] = p[i - 1] \o pairs[i]
  BY <1>2, FlattenSteps
<1>4. ASSUME NEW b \in 1 .. n
      PROVE  /\ pairs[b] \in Seq(Nat \X Nat) /\ Len(pairs[b]) = Len(orders[b]) /\ Len(pairs[b]) > 0
             /\ \A i \in 1 .. Len(pairs[b]) : pairs[b][i][1] = b
  <2>1. PICK k : k = Len(orders[b])
    OBVIOUS
  <2>2. k \in Nat \ {0}
    BY <2>1
  <2>3. pairs[b] = [i \in 1 .. k |-> <<b, i>>]
    BY <2>1 DEF pairs, PlacesOf
  <2>4. pairs[b] \in Seq(Nat \X Nat) /\ Len(pairs[b]) = k
    BY <2>2, <2>3
  <2> QED BY <2>1, <2>2, <2>3, <2>4
<1> DEFINE Good(m) == /\ t[m] \in Seq(STRING) /\ p[m] \in Seq(Nat \X Nat)
                      /\ Len(p[m]) = Len(t[m]) /\ InBlocks(p[m], m)
           D == {m \in 1 .. n : ~Good(m)}
<1>5. Good(1)
  <2>1. t[1] = orders[1] /\ p[1] = pairs[1]
    <3> HIDE DEF Good, D
    <3> QED BY <1>1, <1>3
  <2>2. 1 \in 1 .. n
    OBVIOUS
  <2>3. InBlocks(pairs[1], 1)
    <3>1. PICK q, k : q = pairs[1] /\ k = Len(q)
      OBVIOUS
    <3>2. k \in Nat /\ k > 0 /\ \A g \in 1 .. k : q[g][1] = 1
      BY <1>4, <2>2, <3>1
    <3>3. 1 \in 1 .. k /\ q[1][1] = 1
      BY <3>2
    <3>4. ASSUME NEW b \in 1 .. 1
          PROVE  q[1][1] = b /\ \A g \in 1 .. k : g < 1 <=> q[g][1] < b
      BY <3>2, <3>3
    <3>5. \A g \in 1 .. k : q[g][1] \in 1 .. 1
      BY <3>2
    <3> QED BY <3>1, <3>3, <3>4, <3>5 DEF InBlocks
  <2> QED BY <1>4, <2>1, <2>2, <2>3
<1>6. ASSUME NEW m \in 1 .. n, m > 1, Good(m - 1) PROVE Good(m)
  <2>1. PICK c \in Nat : c = m - 1 /\ m = c + 1
    BY <1>6
  <2>2. t[m] = t[c] \o orders[m] /\ p[m] = p[c] \o pairs[m]
    <3> HIDE DEF Good, D
    <3>1. t[m] = t[m - 1] \o orders[m]
      BY <1>1, <1>6
    <3>2. p[m] = p[m - 1] \o pairs[m]
      BY <1>3, <1>6
    <3> QED BY <2>1, <3>1, <3>2
  <2>3. /\ t[c] \in Seq(STRING) /\ p[c] \in Seq(Nat \X Nat)
        /\ Len(p[c]) = Len(t[c]) /\ InBlocks(p[c], c)
    BY <1>6, <2>1
  <2>4. /\ pairs[m] \in Seq(Nat \X Nat) /\ Len(pairs[m]) = Len(orders[m]) /\ Len(pairs[m]) > 0
        /\ \A i \in 1 .. Len(pairs[m]) : pairs[m][i][1] = c + 1
    BY <1>4, <2>1
  <2> HIDE DEF Good
  <2>5. /\ p[m] \in Seq(Nat \X Nat) /\ Len(p[m]) = Len(p[c]) + Len(pairs[m])
        /\ InBlocks(p[m], m)
    <3>1. PICK u, q : u = p[c] /\ q = pairs[m]
      OBVIOUS
    <3>2. /\ u \in Seq(Nat \X Nat) /\ q \in Seq(Nat \X Nat) /\ Len(q) > 0
          /\ \A i \in 1 .. Len(q) : q[i][1] = c + 1
          /\ InBlocks(u, c)
      BY <2>3, <2>4, <3>1
    <3>3. /\ u \o q \in Seq(Nat \X Nat) /\ Len(u \o q) = Len(u) + Len(q)
          /\ InBlocks(u \o q, c + 1)
      BY <3>2, AddBlock
    <3> QED BY <2>1, <2>2, <3>1, <3>3
  <2>6. orders[m] \in Seq(STRING)
    OBVIOUS
  <2>7. t[m] \in Seq(STRING) /\ Len(t[m]) = Len(t[c]) + Len(orders[m])
    BY <2>2, <2>3, <2>6
  <2> QED BY <2>3, <2>4, <2>5, <2>7 DEF Good
<1>7. Good(n)
  <2> HIDE DEF Good
  <2>0. n \in 1 .. n
    OBVIOUS
  <2> SUFFICES ASSUME D # {} PROVE FALSE
    BY <2>0
  <2>1. PICK m \in D : \A j \in D : m <= j
    <3>1. D \subseteq Nat
      OBVIOUS
    <3> HIDE DEF D
    <3> QED BY <3>1, LeastNumber
  <2>2. m # 1
    BY <1>5
  <2>3. m \in 1 .. n /\ m > 1 /\ m - 1 \in 1 .. n /\ m - 1 \notin D
    BY <2>1, <2>2
  <2> QED BY <1>6, <2>3
<1> QED BY <1>1, <1>3, <1>7 DEF pairs

\* What SlotExecution needs of the plan: the slots of a block follow one
\* another, after those of all the blocks before it.
LEMMA PlanInBlocks ==
    /\ Len(FlattenSeq(Orders)) \in Nat
    /\ \A s \in Slots : SlotsOf(Orders)[s].block \in Blocks
    /\ \A b \in Blocks : \E first \in Slots :
         /\ SlotsOf(Orders)[first].block = b
         /\ \A s \in Slots : s < first <=> SlotsOf(Orders)[s].block < b
<1>1. PICK n \in Nat \ {0} : n = Len(Orders)
  BY StudyAssumption
<1>2. \A b \in 1 .. n : Orders[b] \in Seq(STRING) /\ Len(Orders[b]) > 0
  <2>1. Orders \in Seq(Seq(STRING)) /\ \A b \in 1 .. Len(Orders) : Len(Orders[b]) > 0
    BY StudyAssumption
  <2>2. \A b \in 1 .. Len(Orders) : Orders[b] \in Seq(STRING)
    BY <2>1
  <2> QED BY <1>1, <2>1, <2>2
<1>3. PICK all, placed : all = FlattenSeq(Orders) /\ placed = FlattenSeq(PlacesOf(Orders))
  OBVIOUS
<1>4. all \in Seq(STRING) /\ Len(placed) = Len(all) /\ InBlocks(placed, n)
  BY <1>1, <1>2, <1>3, FlattenedTogether
<1>5. \A s \in 1 .. Len(all) : SlotsOf(Orders)[s].block = placed[s][1]
  BY <1>3 DEF SlotsOf, PlacesOf
<1>6. Slots = 1 .. Len(all) /\ Blocks = 1 .. n /\ Len(all) \in Nat
  BY <1>1, <1>3, <1>4 DEF Slots, Blocks
<1>7. ASSUME NEW s \in Slots PROVE SlotsOf(Orders)[s].block \in Blocks
  <2>1. placed[s][1] \in 1 .. n
    BY <1>4, <1>6 DEF InBlocks
  <2> QED BY <1>5, <1>6, <2>1
<1>8. ASSUME NEW b \in Blocks
      PROVE  \E first \in Slots : /\ SlotsOf(Orders)[first].block = b
                                  /\ \A s \in Slots : s < first <=> SlotsOf(Orders)[s].block < b
  <2>1. PICK first \in 1 .. Len(placed) :
          placed[first][1] = b /\ \A g \in 1 .. Len(placed) : g < first <=> placed[g][1] < b
    BY <1>4, <1>6 DEF InBlocks
  <2>2. first \in Slots /\ \A s \in Slots : s < first <=> placed[s][1] < b
    BY <1>4, <1>6, <2>1
  <2>3. SlotsOf(Orders)[first].block = b /\ \A s \in Slots : SlotsOf(Orders)[s].block = placed[s][1]
    BY <1>5, <1>6, <2>1, <2>2
  <2> QED BY <2>2, <2>3
<1> QED BY <1>3, <1>6, <1>7, <1>8

-----------------------------------------------------------------------------
(* The invariant.                                                          *)

(* The variables that are tables are total, and hold what belongs there.   *)
Tables ==
    /\ auth \in [Blocks -> Operators \cup {None}]
    /\ packs = [s \in Slots |-> packs[s]]
    /\ runs = [s \in Slots |-> runs[s]]
    /\ proc = [p \in Procs |-> proc[p]]
    /\ sent \in [Slots -> Nat]

(* No slot before s is pending, and the block of s is authorised.  Neither *)
(* can be undone, so both hold from the scan of a command to its end.      *)
Reached(s) ==
    /\ \A t \in Slots : t < s => Occupied(t)
    /\ auth[SlotsOf(Orders)[s].block] # None

(* A pack and a run are the slot's own, made of one tree, and the study    *)
(* had reached the slot.                                                   *)
SlotSound(s) ==
    /\ packs[s] \in PacksOf(s) \cup {None}
    /\ runs[s] \in RunsOf(s) \cup {None}
    /\ packs[s] # None \/ runs[s] # None => Reached(s)
    /\ sent[s] > 0 => sent[s] = 1 /\ runs[s] # None /\ runs[s].attempt # None

(* Four files, of which the authorization is one that was made for the     *)
(* slot; nothing is known of the other three until they are compared.      *)
Supplied(s, docs) ==
    /\ docs = [campaign |-> docs.campaign, lock |-> docs.lock,
               auth |-> docs.auth, request |-> docs.request]
    /\ \E t \in Trees : docs.auth = Pack(s, t).auth

(* A command that has made the attempt of a run and not yet recorded it.   *)
Attempting(me) == me.at \in {"send", "receive"}

(* What a command may rely on between two of its steps. *)
StateSound(me) ==
    /\ me.at = "authorize" => me.operator \in Operators
    /\ me.at \in {"prepare", "fill", "init", "publish"} => me.slot \in Slots /\ Reached(me.slot)
    /\ me.at = "fill" => packs[me.slot] # None
    /\ me.at = "init" => Supplied(me.slot, me.docs)
    /\ me.at = "publish" =>
         \E t \in Trees : me.staging = [docs |-> Pack(me.slot, t), attempt |-> None]
    /\ me.at \in {"capture", "send", "receive"} => me.slot \in Slots /\ runs[me.slot] # None
    /\ Attempting(me) => runs[me.slot].attempt = "started"
    /\ me.at = "send" => sent[me.slot] = 0

(* The directory of an attempt is made by one process only. *)
OneAttempts ==
    \A p, q \in Procs :
        Attempting(proc[p]) /\ Attempting(proc[q]) /\ proc[p].slot = proc[q].slot => p = q

StudyInv ==
    /\ plan \in {None, SlotsOf(Orders)}
    /\ tree \in Trees
    /\ Tables
    /\ \A s \in Slots : SlotSound(s)
    /\ \A p \in Procs : StateSound(proc[p])
    /\ OneAttempts

-----------------------------------------------------------------------------
(* Facts used in several places.                                           *)

(* That a slot is reached stays true, since no run directory and no        *)
(* authorization is ever removed.                                          *)
LEMMA ReachedStays ==
    ASSUME NEW s \in Slots, Reached(s),
           \A t \in Slots : runs[t] # None => runs'[t] # None,
           \A b \in Blocks : auth[b] # None => auth'[b] # None
    PROVE  Reached(s)'
  BY PlanInBlocks DEF Reached, Occupied

(* Packs and runs are told from the absence of one. *)
LEMMA PackTyped ==
    ASSUME NEW s \in Slots, NEW t \in Trees, NEW b \in BOOLEAN
    PROVE  [docs |-> Pack(s, t), full |-> b] \in PacksOf(s) \ {None}
<1>1. [docs |-> Pack(s, t), full |-> b] \in PacksOf(s)
  BY SMT DEF PacksOf
<1>2. None \notin PacksOf(s)
  BY NoneAssumption
<1> QED BY <1>1, <1>2, Zenon

LEMMA RunTyped ==
    ASSUME NEW s \in Slots, NEW t \in Trees, NEW a \in Attempts
    PROVE  [docs |-> Pack(s, t), attempt |-> a] \in RunsOf(s) \ {None}
<1>1. [docs |-> Pack(s, t), attempt |-> a] \in RunsOf(s)
  BY SMT DEF RunsOf
<1>2. None \notin RunsOf(s)
  BY NoneAssumption
<1> QED BY <1>1, <1>2, Zenon

(* A command that changes no file keeps the invariant, if what it goes on  *)
(* with is sound and it has not become the author of an attempt.           *)
LEMMA OnlyState ==
    ASSUME StudyInv, NEW p \in Procs, NEW state,
           Goto(p, state), UNCHANGED <<plan, auth, packs, runs, tree, sent>>,
           StateSound(state), ~Attempting(state)
    PROVE  StudyInv'
<1>1. /\ plan' \in {None, SlotsOf(Orders)} /\ tree' \in Trees
      /\ Tables'
  BY DEF StudyInv, Tables, Goto
<1>2. \A s \in Slots : SlotSound(s)'
  BY DEF StudyInv, SlotSound, Reached, Occupied
<1>3. ASSUME NEW q \in Procs
      PROVE  StateSound(proc[q])'
  <2>1. StateSound(proc[q]) /\ proc'[q] = IF q = p THEN state ELSE proc[q]
    BY DEF StudyInv, Tables, Goto
  <2>8. CASE q = p
    BY <2>8, <2>1 DEF StateSound, Supplied, Attempting, Reached, Occupied
  <2>9. CASE q # p
    BY <2>9, <2>1 DEF StateSound, Supplied, Attempting, Reached, Occupied
  <2> QED BY <2>8, <2>9
<1>4. OneAttempts'
  BY DEF StudyInv, OneAttempts, Tables, Goto
<1> QED BY <1>1, <1>2, <1>3, <1>4 DEF StudyInv

(* A process with nothing to do. *)
LEMMA IdleSound == StateSound(Idle) /\ ~Attempting(Idle)
  BY DEF StateSound, Idle, Attempting

-----------------------------------------------------------------------------
(* One step of the initial state, and one lemma per action that changes    *)
(* more than what a command holds.                                         *)

LEMMA InitSound == Init => StudyInv
  BY IdleSound, NoneAssumption
  DEF Init, StudyInv, Tables, SlotSound, OneAttempts, StateSound, Attempting, Idle

LEMMA InitializeSound ==
    ASSUME StudyInv, NEW p \in Procs, Initialize(p)
    PROVE  StudyInv'
  BY DEF Initialize, StudyInv, Tables, SlotSound, OneAttempts, StateSound, Attempting, Supplied,
         Reached, Occupied

LEMMA EditSound ==
    ASSUME StudyInv, Edit
    PROVE  StudyInv'
  BY DEF Edit, StudyInv, Tables, SlotSound, OneAttempts, StateSound, Attempting, Supplied,
         Reached, Occupied

(* A slot that a command may take up is reached, if its block is granted. *)
LEMMA NextIsReached ==
    ASSUME NEW s \in NextPending, auth[SlotsOf(Orders)[s].block] # None
    PROVE  s \in Slots /\ Reached(s)
  BY PlanInBlocks DEF NextPending, Reached, Slots

(* The commands that only read. *)
LEMMA ReadersSound ==
    ASSUME StudyInv, NEW p \in Procs,
           \/ BuildBlockAuthorization(p) \/ ExecuteNext(p) \/ ModelUnavailable(p)
           \/ CliInit(p) \/ PrepareStaging(p) \/ CliCapture(p) \/ Kill(p)
    PROVE  StudyInv'
<1>1. CASE BuildBlockAuthorization(p)
  <2>1. PICK s \in NextPending, o \in Operators :
          Goto(p, [at |-> "authorize", block |-> plan[s].block, operator |-> o])
    BY <1>1 DEF BuildBlockAuthorization
  <2> DEFINE state == [at |-> "authorize", block |-> plan[s].block, operator |-> o]
  <2>2. StateSound(state) /\ ~Attempting(state)
    BY DEF StateSound, Attempting
  <2> QED BY <1>1, <2>1, <2>2, OnlyState DEF BuildBlockAuthorization
<1>2. CASE ExecuteNext(p)
  <2>1. PICK s \in NextPending, o \in Operators :
          Authorized(s, o) /\ Goto(p, [at |-> "prepare", slot |-> s])
    BY <1>2 DEF ExecuteNext
  <2>2. s \in Slots /\ Reached(s)
    BY <1>2, <2>1, NextIsReached, StudyAssumption DEF ExecuteNext, Readable, Authorized
  <2>3. StateSound([at |-> "prepare", slot |-> s]) /\ ~Attempting([at |-> "prepare", slot |-> s])
    BY <2>2 DEF StateSound, Attempting
  <2> QED BY <1>2, <2>1, <2>3, OnlyState DEF ExecuteNext
<1>3. CASE ModelUnavailable(p)
  BY <1>3, IdleSound, OnlyState DEF ModelUnavailable, Stop
<1>4. CASE CliInit(p)
  <2>1. PICK c, l, a, r \in {s \in Slots : packs[s] # None /\ packs[s].full} :
          Goto(p, [at |-> "init", slot |-> a,
                   docs |-> [campaign |-> packs[c].docs.campaign, lock |-> packs[l].docs.lock,
                             auth |-> packs[a].docs.auth, request |-> packs[r].docs.request]])
    BY <1>4 DEF CliInit
  <2> DEFINE docs == [campaign |-> packs[c].docs.campaign, lock |-> packs[l].docs.lock,
                      auth |-> packs[a].docs.auth, request |-> packs[r].docs.request]
             state == [at |-> "init", slot |-> a, docs |-> docs]
  <2>2. Supplied(a, docs) /\ Reached(a) /\ a \in Slots
    BY <2>1 DEF StudyInv, SlotSound, PacksOf, Supplied
  <2>3. StateSound(state) /\ ~Attempting(state)
    BY <2>2 DEF StateSound, Attempting
  <2> QED BY <1>4, <2>1, <2>3, OnlyState DEF CliInit
<1>5. CASE PrepareStaging(p)
  <2> DEFINE me == proc[p]
             state == [at |-> "publish", slot |-> me.slot,
                       staging |-> [docs |-> me.docs, attempt |-> None]]
  <2>1. me.at = "init" /\ StateSound(me)
    BY <1>5 DEF PrepareStaging, StudyInv
  <2>2. CASE VerifyGovernedContext(me.docs) /\ ValidateAuthorization(me.docs) /\ ~Occupied(me.slot)
    <3>1. PICK t \in Trees : me.docs.auth = Pack(me.slot, t).auth
      BY <2>1 DEF StateSound, Supplied
    <3>2. /\ me.docs.auth.campaign = CampaignOf(me.slot)
          /\ me.docs.auth.lock = LockOf(CampaignOf(me.slot), t)
          /\ me.docs.auth.request = ConditionPrompt(CampaignOf(me.slot))
      BY <3>1 DEF Pack, Authorization
    <3>3. me.docs = Pack(me.slot, t)
      <4>1. /\ me.docs.campaign = CampaignOf(me.slot)
            /\ me.docs.lock = LockOf(CampaignOf(me.slot), t)
            /\ me.docs.request = ConditionPrompt(CampaignOf(me.slot))
        BY <2>2, <3>2 DEF ValidateAuthorization
      <4>2. me.docs = [campaign |-> me.docs.campaign, lock |-> me.docs.lock,
                       auth |-> me.docs.auth, request |-> me.docs.request]
        BY <2>1 DEF StateSound, Supplied
      <4> QED BY <3>1, <4>1, <4>2 DEF Pack
    <3>4. StateSound(state) /\ ~Attempting(state)
      BY <2>1, <3>3 DEF StateSound, Attempting
    <3> QED BY <1>5, <2>2, <3>4, OnlyState DEF PrepareStaging
  <2>3. CASE ~(VerifyGovernedContext(me.docs) /\ ValidateAuthorization(me.docs) /\ ~Occupied(me.slot))
    BY <1>5, <2>3, IdleSound, OnlyState DEF PrepareStaging, Stop
  <2> QED BY <2>2, <2>3
<1>6. CASE CliCapture(p)
  <2>1. PICK s \in Slots : Occupied(s) /\ Goto(p, [at |-> "capture", slot |-> s])
    BY <1>6 DEF CliCapture
  <2>2. StateSound([at |-> "capture", slot |-> s]) /\ ~Attempting([at |-> "capture", slot |-> s])
    BY <2>1 DEF StateSound, Attempting, Occupied
  <2> QED BY <1>6, <2>1, <2>2, OnlyState DEF CliCapture
<1>7. CASE Kill(p)
  BY <1>7, IdleSound, OnlyState DEF Kill, Stop
<1> QED BY <1>1, <1>2, <1>3, <1>4, <1>5, <1>6, <1>7

(* The author of an authorization: it only ever adds one. *)
LEMMA WriteBlockAuthorizationSound ==
    ASSUME StudyInv, NEW p \in Procs, WriteBlockAuthorization(p)
    PROVE  StudyInv'
<1>1. /\ auth' \in [Blocks -> Operators \cup {None}]
      /\ \A b \in Blocks : auth[b] # None => auth'[b] # None
  BY StudyAssumption DEF WriteBlockAuthorization, StudyInv, Tables, StateSound
<1>2. /\ UNCHANGED <<plan, packs, runs, tree, sent>> /\ proc' = [proc EXCEPT ![p] = Idle]
  BY DEF WriteBlockAuthorization, Stop, Goto
<1>3. \A s \in Slots : Reached(s) => Reached(s)'
  BY <1>1, <1>2, ReachedStays
<1>4. plan' \in {None, SlotsOf(Orders)} /\ tree' \in Trees /\ Tables'
  BY <1>1, <1>2 DEF StudyInv, Tables
<1>5. \A s \in Slots : SlotSound(s)'
  BY <1>2, <1>3 DEF StudyInv, SlotSound
<1>6. ASSUME NEW q \in Procs
      PROVE  StateSound(proc[q])'
  <2>1. StateSound(proc[q]) /\ proc'[q] = IF q = p THEN Idle ELSE proc[q]
    BY <1>2 DEF StudyInv, Tables
  <2>8. CASE q = p
    BY <2>8, <1>2, <1>3, <2>1 DEF StateSound, Supplied, Attempting, Idle
  <2>9. CASE q # p
    BY <2>9, <1>2, <1>3, <2>1 DEF StateSound, Supplied, Attempting, Idle
  <2> QED BY <2>8, <2>9
<1>7. OneAttempts'
  BY <1>2, IdleSound DEF StudyInv, OneAttempts, Tables
<1> QED BY <1>4, <1>5, <1>6, <1>7 DEF StudyInv

(* The maker of a pack: its slot is reached, and nobody else made one. *)
LEMMA MakePackSound ==
    ASSUME StudyInv, NEW p \in Procs, MakePack(p)
    PROVE  StudyInv'
<1> DEFINE s == proc[p].slot
           state == [at |-> "fill", slot |-> s]
           pack == [docs |-> Pack(s, tree), full |-> FALSE]
<1>0. StateSound(proc[p]) /\ proc[p].at = "prepare" /\ s \in Slots /\ Reached(s)
  BY DEF MakePack, StudyInv, StateSound
<1>1. CASE packs[s] = None
  <2>1. /\ packs' = [packs EXCEPT ![s] = pack] /\ proc' = [proc EXCEPT ![p] = state]
        /\ UNCHANGED <<plan, auth, runs, tree, sent>>
    BY <1>1 DEF MakePack, Goto
  <2>2. pack \in PacksOf(s) /\ pack # None
    BY <1>0, PackTyped DEF StudyInv
  <2>3. \A r \in Slots : Reached(r) => Reached(r)'
    BY <2>1 DEF Reached, Occupied
  <2>4. plan' \in {None, SlotsOf(Orders)} /\ tree' \in Trees /\ Tables'
    BY <2>1 DEF StudyInv, Tables
  <2>5. \A r \in Slots : SlotSound(r)'
    BY <1>0, <2>1, <2>2, <2>3 DEF StudyInv, SlotSound, Tables
  <2>6. ASSUME NEW q \in Procs
        PROVE  StateSound(proc[q])'
    <3>1. StateSound(proc[q]) /\ proc'[q] = IF q = p THEN state ELSE proc[q]
      BY <2>1 DEF StudyInv, Tables
    <3>2. \A r \in Slots : packs[r] # None => packs'[r] # None
      BY <2>1, <2>2 DEF StudyInv, Tables
    <3>3. packs'[s] # None
      BY <1>0, <2>1, <2>2 DEF StudyInv, Tables
    <3>8. CASE q = p
      BY <3>8, <1>0, <2>1, <2>3, <3>1, <3>2, <3>3 DEF StateSound, Supplied, Attempting
    <3>9. CASE q # p
      BY <3>9, <1>0, <2>1, <2>3, <3>1, <3>2, <3>3 DEF StateSound, Supplied, Attempting
    <3> QED BY <3>8, <3>9
  <2>7. OneAttempts'
    BY <2>1 DEF StudyInv, OneAttempts, Tables, Attempting
  <2> QED BY <2>4, <2>5, <2>6, <2>7 DEF StudyInv
<1>2. CASE packs[s] # None
  BY <1>2, IdleSound, OnlyState DEF MakePack, Stop
<1> QED BY <1>1, <1>2

(* The finished pack holds the same documents, and the command goes on     *)
(* with them.                                                              *)
LEMMA WritePackSound ==
    ASSUME StudyInv, NEW p \in Procs, WritePack(p)
    PROVE  StudyInv'
<1> DEFINE s == proc[p].slot
           state == [at |-> "init", slot |-> s, docs |-> packs[s].docs]
<1>0. proc[p].at = "fill" /\ s \in Slots /\ Reached(s) /\ packs[s] # None
  BY DEF WritePack, StudyInv, StateSound
<1>1. /\ packs' = [packs EXCEPT ![s] = [docs |-> packs[s].docs, full |-> TRUE]] /\ proc' = [proc EXCEPT ![p] = state]
      /\ UNCHANGED <<plan, auth, runs, tree, sent>>
  BY DEF WritePack, Goto
<1>2. PICK t \in Trees : packs[s].docs = Pack(s, t)
  BY <1>0 DEF StudyInv, SlotSound, PacksOf
<1>3. packs' = [packs EXCEPT ![s] = [docs |-> Pack(s, t), full |-> TRUE]]
  BY <1>1, <1>2
<1>4. [docs |-> Pack(s, t), full |-> TRUE] \in PacksOf(s) \ {None}
  BY <1>0, PackTyped
<1>5. \A r \in Slots : Reached(r) => Reached(r)'
  BY <1>1 DEF Reached, Occupied
<1>6. plan' \in {None, SlotsOf(Orders)} /\ tree' \in Trees /\ Tables'
  BY <1>1, <1>3 DEF StudyInv, Tables
<1>7. \A r \in Slots : SlotSound(r)'
  BY <1>0, <1>1, <1>3, <1>4, <1>5 DEF StudyInv, SlotSound, Tables
<1>8. ASSUME NEW q \in Procs
      PROVE  StateSound(proc[q])'
  <2>1. StateSound(proc[q]) /\ proc'[q] = IF q = p THEN state ELSE proc[q]
    BY <1>1 DEF StudyInv, Tables
  <2>2. \A r \in Slots : packs[r] # None => packs'[r] # None
    BY <1>3, <1>4 DEF StudyInv, Tables
  <2>3. Supplied(s, packs[s].docs)
    BY <1>2 DEF Supplied, Pack
  <2>8. CASE q = p
    BY <2>8, <1>0, <1>1, <1>5, <2>1, <2>2, <2>3 DEF StateSound, Supplied, Attempting
  <2>9. CASE q # p
    BY <2>9, <1>0, <1>1, <1>5, <2>1, <2>2, <2>3 DEF StateSound, Supplied, Attempting
  <2> QED BY <2>8, <2>9
<1>9. OneAttempts'
  BY <1>1 DEF StudyInv, OneAttempts, Tables, Attempting
<1> QED BY <1>6, <1>7, <1>8, <1>9 DEF StudyInv

(* The winner of the rename: the documents are those that were compared,   *)
(* and the run has no attempt yet.                                         *)
LEMMA PublishStagedRunSound ==
    ASSUME StudyInv, NEW p \in Procs, PublishStagedRun(p)
    PROVE  StudyInv'
<1> DEFINE s == proc[p].slot
           state == [at |-> "capture", slot |-> s]
<1>0. proc[p].at = "publish" /\ s \in Slots /\ Reached(s)
  BY DEF PublishStagedRun, StudyInv, StateSound
<1>1. CASE ~Occupied(s)
  <2>1. PICK t \in Trees : proc[p].staging = [docs |-> Pack(s, t), attempt |-> None]
    BY <1>0 DEF StudyInv, StateSound
  <2> DEFINE run == [docs |-> Pack(s, t), attempt |-> None]
  <2>2. /\ runs' = [runs EXCEPT ![s] = run] /\ proc' = [proc EXCEPT ![p] = state]
        /\ UNCHANGED <<plan, auth, packs, tree, sent>>
    BY <1>1, <2>1 DEF PublishStagedRun, Goto
  <2>3. run \in RunsOf(s) \ {None}
    BY <1>0, RunTyped DEF Attempts
  <2>4. /\ runs'[s] = run /\ \A r \in Slots : r # s => runs'[r] = runs[r]
        /\ runs[s] = None
    BY <1>0, <1>1, <2>2 DEF StudyInv, Tables, Occupied
  <2>5. \A r \in Slots : Reached(r) => Reached(r)'
    BY <2>2, <2>3, <2>4, ReachedStays
  <2>6. plan' \in {None, SlotsOf(Orders)} /\ tree' \in Trees /\ Tables'
    BY <2>2 DEF StudyInv, Tables
  <2>7. ASSUME NEW r \in Slots
        PROVE  SlotSound(r)'
    <3>1. SlotSound(r)
      BY DEF StudyInv
    <3>2. sent[s] = 0
      BY <1>0, <2>4 DEF StudyInv, SlotSound, Tables
    <3> QED BY <1>0, <2>2, <2>3, <2>4, <2>5, <3>1, <3>2 DEF SlotSound
  <2>8. ASSUME NEW q \in Procs
        PROVE  StateSound(proc[q])'
    <3>1. StateSound(proc[q]) /\ proc'[q] = IF q = p THEN state ELSE proc[q]
      BY <2>2 DEF StudyInv, Tables
    <3>8. CASE q = p
      BY <3>8, <1>0, <2>2, <2>3, <2>4, <2>5, <3>1 DEF StateSound, Supplied, Attempting
    <3>9. CASE q # p
      BY <3>9, <1>0, <2>2, <2>3, <2>4, <2>5, <3>1 DEF StateSound, Supplied, Attempting
    <3> QED BY <3>8, <3>9
  <2>9. OneAttempts'
    BY <2>2 DEF StudyInv, OneAttempts, Tables, Attempting
  <2> QED BY <2>6, <2>7, <2>8, <2>9 DEF StudyInv
<1>2. CASE Occupied(s)
  BY <1>2, IdleSound, OnlyState DEF PublishStagedRun, Stop
<1> QED BY <1>1, <1>2

(* The maker of the attempt, who is alone with it because every other      *)
(* author of an attempt at this run would have left one.                   *)
LEMMA CreateAttemptSound ==
    ASSUME StudyInv, NEW p \in Procs, CreateAttempt(p)
    PROVE  StudyInv'
<1> DEFINE s == proc[p].slot
           state == [at |-> "send", slot |-> s]
<1>0. proc[p].at = "capture" /\ s \in Slots /\ runs[s] # None
  BY DEF CreateAttempt, StudyInv, StateSound
<1>1. CASE VerifyGovernedContext(runs[s].docs) /\ runs[s].attempt = None
  <2>1. PICK t \in Trees : runs[s] = [docs |-> Pack(s, t), attempt |-> None]
    BY <1>0, <1>1 DEF StudyInv, SlotSound, RunsOf
  <2> DEFINE run == [docs |-> Pack(s, t), attempt |-> "started"]
  <2>2. /\ runs' = [runs EXCEPT ![s] = run] /\ proc' = [proc EXCEPT ![p] = state]
        /\ UNCHANGED <<plan, auth, packs, tree, sent>>
    BY <1>0, <1>1, <2>1 DEF CreateAttempt, Goto
  <2>3. run \in RunsOf(s) \ {None} /\ "started" # None
    BY <1>0, RunTyped, NoneAssumption DEF Attempts
  <2>4. runs'[s] = run /\ \A r \in Slots : r # s => runs'[r] = runs[r]
    BY <1>0, <2>2 DEF StudyInv, Tables
  <2>5. \A r \in Slots : Reached(r) => Reached(r)'
    BY <2>2, <2>3, <2>4, ReachedStays
  <2>6. plan' \in {None, SlotsOf(Orders)} /\ tree' \in Trees /\ Tables'
    BY <2>2 DEF StudyInv, Tables
  <2>7. ASSUME NEW r \in Slots
        PROVE  SlotSound(r)'
    <3>1. SlotSound(r)
      BY DEF StudyInv
    <3> QED BY <1>0, <2>2, <2>3, <2>4, <2>5, <3>1 DEF SlotSound
  <2>8. sent[s] = 0
    BY <1>0, <1>1 DEF StudyInv, SlotSound, Tables
  <2>9. \A q \in Procs : Attempting(proc[q]) => proc[q].slot # s
    BY <1>1, <2>3 DEF StudyInv, StateSound
  <2>10. ASSUME NEW q \in Procs
         PROVE  StateSound(proc[q])'
    <3>1. StateSound(proc[q]) /\ proc'[q] = IF q = p THEN state ELSE proc[q]
      BY <2>2 DEF StudyInv, Tables
    <3>8. CASE q = p
      BY <3>8, <1>0, <2>2, <2>3, <2>4, <2>5, <2>8, <2>9, <3>1 DEF StateSound, Supplied, Attempting
    <3>9. CASE q # p
      BY <3>9, <1>0, <2>2, <2>3, <2>4, <2>5, <2>8, <2>9, <3>1 DEF StateSound, Supplied, Attempting
    <3> QED BY <3>8, <3>9
  <2>11. OneAttempts'
    BY <1>0, <2>2, <2>9 DEF StudyInv, OneAttempts, Tables, Attempting
  <2> QED BY <2>6, <2>7, <2>10, <2>11 DEF StudyInv
<1>2. CASE ~(VerifyGovernedContext(runs[s].docs) /\ runs[s].attempt = None)
  BY <1>2, IdleSound, OnlyState DEF CreateAttempt, Stop
<1> QED BY <1>1, <1>2

(* The request: nothing was sent for this slot before. *)
LEMMA SendRequestSound ==
    ASSUME StudyInv, NEW p \in Procs, SendRequest(p)
    PROVE  StudyInv'
<1> DEFINE s == proc[p].slot
           state == [at |-> "receive", slot |-> s]
<1>0. /\ proc[p].at = "send" /\ s \in Slots /\ runs[s] # None /\ runs[s].attempt = "started"
      /\ sent[s] = 0
  BY DEF SendRequest, StudyInv, StateSound, Attempting
<1>1. /\ sent' = [sent EXCEPT ![s] = 1] /\ proc' = [proc EXCEPT ![p] = state]
      /\ UNCHANGED <<plan, auth, packs, runs, tree>>
  BY <1>0 DEF SendRequest, Goto, StudyInv, Tables
<1>2. plan' \in {None, SlotsOf(Orders)} /\ tree' \in Trees /\ Tables'
  BY <1>1 DEF StudyInv, Tables
<1>3. \A r \in Slots : Reached(r) => Reached(r)'
  BY <1>1 DEF Reached, Occupied
<1>4. ASSUME NEW r \in Slots
      PROVE  SlotSound(r)'
  <2>1. SlotSound(r) /\ sent'[r] = IF r = s THEN 1 ELSE sent[r]
    BY <1>0, <1>1 DEF StudyInv, Tables
  <2> QED BY <1>0, <1>1, <1>3, <2>1, NoneAssumption DEF SlotSound
<1>5. ASSUME NEW q \in Procs
      PROVE  StateSound(proc[q])'
  <2>1. StateSound(proc[q]) /\ proc'[q] = IF q = p THEN state ELSE proc[q]
    BY <1>1 DEF StudyInv, Tables
  <2>2. q # p /\ Attempting(proc[q]) => proc[q].slot # s
    BY <1>0 DEF StudyInv, OneAttempts, Attempting
  <2>3. \A r \in Slots : r # s => sent'[r] = sent[r]
    BY <1>1 DEF StudyInv, Tables
  <2>8. CASE q = p
    BY <2>8, <1>0, <1>1, <1>3, <2>1, <2>2, <2>3 DEF StateSound, Supplied, Attempting
  <2>9. CASE q # p
    BY <2>9, <1>0, <1>1, <1>3, <2>1, <2>2, <2>3 DEF StateSound, Supplied, Attempting
  <2> QED BY <2>8, <2>9
<1>6. OneAttempts'
  BY <1>0, <1>1 DEF StudyInv, OneAttempts, Tables, Attempting
<1> QED BY <1>2, <1>4, <1>5, <1>6 DEF StudyInv

(* The record of the attempt, which its author alone waits for. *)
LEMMA WriteAttemptSound ==
    ASSUME StudyInv, NEW p \in Procs, WriteAttempt(p)
    PROVE  StudyInv'
<1> DEFINE s == proc[p].slot
<1>0. proc[p].at = "receive" /\ s \in Slots /\ runs[s] # None
  BY DEF WriteAttempt, StudyInv, StateSound
<1>1. PICK a \in {"captured", "interrupted"} :
        runs' = [runs EXCEPT ![s].attempt = a]
  BY DEF WriteAttempt
<1>2. PICK t \in Trees : runs[s] = [docs |-> Pack(s, t), attempt |-> runs[s].attempt]
  BY <1>0 DEF StudyInv, SlotSound, RunsOf
<1> DEFINE run == [docs |-> Pack(s, t), attempt |-> a]
<1>3. /\ runs' = [runs EXCEPT ![s] = run] /\ proc' = [proc EXCEPT ![p] = Idle]
      /\ UNCHANGED <<plan, auth, packs, tree, sent>>
  <2>1. [runs[s] EXCEPT !.attempt = a] = run
    BY <1>2
  <2>2. runs' = [runs EXCEPT ![s] = run]
    BY <1>1, <2>1
  <2> QED BY <2>2 DEF WriteAttempt, Stop, Goto
<1>4. run \in RunsOf(s) \ {None} /\ a # None
  BY <1>0, RunTyped, NoneAssumption DEF Attempts
<1>5. runs'[s] = run /\ \A r \in Slots : r # s => runs'[r] = runs[r]
  BY <1>0, <1>3 DEF StudyInv, Tables
<1>6. \A r \in Slots : Reached(r) => Reached(r)'
  BY <1>3, <1>4, <1>5, ReachedStays
<1>7. plan' \in {None, SlotsOf(Orders)} /\ tree' \in Trees /\ Tables'
  BY <1>3 DEF StudyInv, Tables
<1>8. ASSUME NEW r \in Slots
      PROVE  SlotSound(r)'
  <2>1. SlotSound(r)
    BY DEF StudyInv
  <2> QED BY <1>0, <1>3, <1>4, <1>5, <1>6, <2>1 DEF SlotSound
<1>9. ASSUME NEW q \in Procs
      PROVE  StateSound(proc[q])'
  <2>1. StateSound(proc[q]) /\ proc'[q] = IF q = p THEN Idle ELSE proc[q]
    BY <1>3 DEF StudyInv, Tables
  <2>2. q # p /\ Attempting(proc[q]) => proc[q].slot # s
    BY <1>0 DEF StudyInv, OneAttempts, Attempting
  <2>8. CASE q = p
    BY <2>8, <1>0, <1>3, <1>4, <1>5, <1>6, <2>1, <2>2 DEF StateSound, Supplied, Attempting, Idle
  <2>9. CASE q # p
    BY <2>9, <1>0, <1>3, <1>4, <1>5, <1>6, <2>1, <2>2 DEF StateSound, Supplied, Attempting, Idle
  <2> QED BY <2>8, <2>9
<1>10. OneAttempts'
  BY <1>3, IdleSound DEF StudyInv, OneAttempts, Tables
<1> QED BY <1>7, <1>8, <1>9, <1>10 DEF StudyInv

-----------------------------------------------------------------------------
(* The theorems.                                                           *)

(* StudyInv holds throughout, whatever commands overlap and wherever they  *)
(* are killed (openai_gpt56_r2.py, openai_live_pilot.py, storage.py).      *)
THEOREM StudyInvariant == Spec => []StudyInv
<1>1. Init => StudyInv
  BY InitSound
<1>2. StudyInv /\ [Next]_vars => StudyInv'
  <2> SUFFICES ASSUME StudyInv, [Next]_vars
               PROVE  StudyInv'
    OBVIOUS
  <2>1. CASE UNCHANGED vars
    BY <2>1 DEF vars, StudyInv, Tables, SlotSound, OneAttempts, StateSound, Attempting, Supplied,
                Reached, Occupied
  <2>2. CASE Edit
    BY <2>2, EditSound
  <2>3. ASSUME NEW p \in Procs, Start(p) \/ ModelUnavailable(p) \/ Kill(p)
                                \/ CliInit(p) \/ CliCapture(p)
        PROVE  StudyInv'
    BY <2>3, InitializeSound, ReadersSound DEF Start
  <2>4. ASSUME NEW p \in Procs, Step(p)
        PROVE  StudyInv'
    BY <2>4, WriteBlockAuthorizationSound, MakePackSound, WritePackSound, ReadersSound,
       PublishStagedRunSound, CreateAttemptSound, SendRequestSound, WriteAttemptSound DEF Step
  <2> QED BY <2>1, <2>2, <2>3, <2>4 DEF Next
<1> QED BY <1>1, <1>2, PTL DEF Spec

(* The state of a study has its type. *)
THEOREM TypeCorrect == Spec => []TypeOK
<1>1. StudyInv => TypeOK
  BY DEF StudyInv, Tables, SlotSound, TypeOK
<1> QED BY <1>1, StudyInvariant, PTL

(* The scan of the run directories never comes to refuse them: slots are   *)
(* occupied in order, each by a complete run of its own (r2_state.py).     *)
THEOREM StudyAlwaysReadable == Spec => []StudyStaysReadable
<1>1. StudyInv => StudyStaysReadable
  <2> SUFFICES ASSUME StudyInv, plan # None, NEW s \in Slots, Occupied(s)
               PROVE  /\ \A t \in 1 .. s - 1 : Occupied(t)
                      /\ runs[s].docs # None
                      /\ runs[s].docs.auth.execution = s
                      /\ runs[s].docs.campaign = plan[s].treatment
                      /\ AttemptState(s) \in {"initialized", "attempt_uncommitted",
                                              "captured", "interrupted"}
    BY DEF StudyStaysReadable, ScanSucceeds
  <2>1. SlotSound(s) /\ Reached(s) /\ runs[s] \in RunsOf(s)
    BY DEF StudyInv, SlotSound, Occupied
  <2>2. PICK t \in Trees : runs[s].docs = Pack(s, t)
    BY <2>1 DEF RunsOf
  <2>3. \A r \in 1 .. s - 1 : Occupied(r)
    BY <2>1, PlanInBlocks DEF Reached, Slots
  <2>4. runs[s].docs # None
    BY <2>2, NoneAssumption
  <2>5. runs[s].docs.auth.execution = s /\ runs[s].docs.campaign = plan[s].treatment
    BY <2>2 DEF Pack, Authorization, CampaignOf, StudyInv
  <2>6. AttemptState(s) \in {"initialized", "attempt_uncommitted", "captured", "interrupted"}
    BY <2>1 DEF RunsOf, Attempts, AttemptState
  <2> QED BY <2>3, <2>4, <2>5, <2>6
<1> QED BY <1>1, StudyInvariant, PTL

(* One request at most goes out for a slot, whoever executes it, and only  *)
(* in a block that was authorised (openai_gpt56_r2.py, run.py).            *)
THEOREM AlwaysOneRequest == Spec => []OneRequestPerSlot
<1>1. StudyInv => OneRequestPerSlot
  BY DEF StudyInv, SlotSound, Reached, Occupied, OneRequestPerSlot
<1> QED BY <1>1, StudyInvariant, PTL

(* A run that exists is its slot's own, although the files it was made     *)
(* from can come from several packs (authorization.py, context.py).        *)
THEOREM RunAlwaysBindsSlot == Spec => []RunBindsSlot
<1>1. StudyInv => RunBindsSlot
  BY DEF StudyInv, SlotSound, RunsOf, Occupied, RunBindsSlot
<1> QED BY <1>1, StudyInvariant, PTL

-----------------------------------------------------------------------------
(* That the commands of a study, whatever overlaps and is killed,          *)
(* implement FixedStudy: blocks are granted and slots consumed in the      *)
(* order of the plan, and requests go out for consumed slots only.         *)

BlockOfSlot(s) == SlotsOf(Orders)[s].block

\* Every slot of the blocks before b is occupied.
Cleared(b) == \A s \in Slots : BlockOfSlot(s) < b => Occupied(s)

(* A block is authorised, or about to be, only when those before it are    *)
(* consumed.                                                               *)
BlocksInOrder ==
    /\ \A b \in Blocks : auth[b] # None => Cleared(b)
    /\ \A p \in Procs : proc[p].at = "authorize" =>
         proc[p].block \in Blocks /\ Cleared(proc[p].block)

OrderInv == StudyInv /\ BlocksInOrder

-----------------------------------------------------------------------------
(* What FixedStudy sees of a study.                                        *)

GrantedBlocks == {b \in Blocks : auth[b] # None}
ConsumedSlots == {s \in Slots : Occupied(s)}
RequestedSlots == {s \in Slots : sent[s] > 0}

\* The first slot of a block.
LEMMA FirstSlot ==
    ASSUME NEW b \in Blocks
    PROVE  \E f \in Slots : /\ BlockOfSlot(f) = b
                            /\ \A s \in Slots : s < f <=> BlockOfSlot(s) < b
  BY PlanInBlocks DEF BlockOfSlot

LEMMA Numbers ==
    /\ Slots \subseteq Nat \ {0} /\ Blocks \subseteq Nat \ {0}
    /\ Len(FlattenSeq(Orders)) \in Nat /\ Len(Orders) \in Nat
    /\ \A s \in Slots : BlockOfSlot(s) \in Blocks
  BY PlanInBlocks, StudyAssumption DEF Slots, Blocks, BlockOfSlot

LEMMA FiniteTables ==
    /\ IsFiniteSet(Slots) /\ IsFiniteSet(Blocks)
    /\ IsFiniteSet(ConsumedSlots) /\ IsFiniteSet(GrantedBlocks)
<1>1. IsFiniteSet(Slots) /\ IsFiniteSet(Blocks)
  BY Numbers, FS_Interval DEF Slots, Blocks
<1>2. ConsumedSlots \in SUBSET Slots /\ GrantedBlocks \in SUBSET Blocks
  BY DEF ConsumedSlots, GrantedBlocks
<1> QED BY <1>1, <1>2, FS_Subset

\* An occupied slot has all slots before it occupied, and its block granted.
LEMMA OccupiedInOrder ==
    ASSUME StudyInv, NEW s \in Slots, Occupied(s)
    PROVE  /\ \A t \in Slots : t < s => Occupied(t)
           /\ auth[BlockOfSlot(s)] # None
  BY DEF StudyInv, SlotSound, Reached, Occupied, BlockOfSlot

(* The slots before one that is reached and pending are the consumed ones. *)
LEMMA ConsumedBefore ==
    ASSUME StudyInv, NEW s \in Slots, ~Occupied(s), \A t \in Slots : t < s => Occupied(t)
    PROVE  ConsumedSlots = 1 .. s - 1 /\ Cardinality(ConsumedSlots) = s - 1
<1>1. ConsumedSlots = 1 .. s - 1
  <2>1. ASSUME NEW t \in ConsumedSlots PROVE t < s
    BY OccupiedInOrder, Numbers DEF ConsumedSlots
  <2> QED BY <2>1, Numbers DEF ConsumedSlots, Slots
<1> QED BY <1>1, FS_Interval, Numbers

(* The blocks before one that is cleared are granted. *)
LEMMA GrantedBefore ==
    ASSUME StudyInv, NEW b \in Blocks, Cleared(b), NEW c \in Blocks, c < b
    PROVE  auth[c] # None
<1>1. PICK f \in Slots : BlockOfSlot(f) = c
  BY FirstSlot
<1> QED BY <1>1, OccupiedInOrder DEF Cleared

(* When a cleared block is not granted yet, it is the next one, and its    *)
(* first slot is the next slot.                                            *)
LEMMA NextBlock ==
    ASSUME OrderInv, NEW b \in Blocks, Cleared(b), auth[b] = None
    PROVE  /\ GrantedBlocks = 1 .. b - 1 /\ Cardinality(GrantedBlocks) = b - 1
           /\ \E f \in Slots : BlockOfSlot(f) = b /\ Cardinality(ConsumedSlots) = f - 1
<1>1. PICK f \in Slots : BlockOfSlot(f) = b /\ \A s \in Slots : s < f <=> BlockOfSlot(s) < b
  BY FirstSlot
<1>2. ~Occupied(f)
  BY <1>1, OccupiedInOrder DEF OrderInv
<1>3. Cardinality(ConsumedSlots) = f - 1
  BY <1>1, <1>2, ConsumedBefore DEF OrderInv, Cleared
<1>4. GrantedBlocks = 1 .. b - 1
  <2>1. ASSUME NEW c \in GrantedBlocks PROVE c \in 1 .. b - 1
    <3>1. c \in Blocks /\ Cleared(c)
      BY DEF GrantedBlocks, OrderInv, BlocksInOrder
    <3>2. ~(b < c)
      BY <1>1, <1>2, <3>1 DEF Cleared
    <3> QED BY <3>1, <3>2, Numbers DEF GrantedBlocks
  <2>2. ASSUME NEW c \in 1 .. b - 1 PROVE c \in GrantedBlocks
    <3>1. c \in Blocks /\ c < b
      BY Numbers DEF Blocks
    <3> QED BY <3>1, GrantedBefore DEF GrantedBlocks, OrderInv
  <2> QED BY <2>1, <2>2
<1>5. Cardinality(GrantedBlocks) = b - 1
  BY <1>4, FS_Interval, Numbers
<1> QED BY <1>1, <1>3, <1>4, <1>5

-----------------------------------------------------------------------------
(* The invariant is inductive.                                             *)

LEMMA OrderInitially == Init => BlocksInOrder
  BY DEF Init, BlocksInOrder, Idle

\* Run directories are never removed.
LEMMA OccupiedStays ==
    ASSUME StudyInv, [Next]_vars, NEW s \in Slots, Occupied(s)
    PROVE  Occupied(s)'
<1>1. CASE runs' = runs
  BY <1>1 DEF Occupied
<1>2. ASSUME NEW p \in Procs, PublishStagedRun(p), runs' # runs
      PROVE  Occupied(s)'
  <2>1. ~Occupied(proc[p].slot) /\ runs' = [runs EXCEPT ![proc[p].slot] = proc[p].staging]
    BY <1>2 DEF PublishStagedRun
  <2> QED BY <2>1 DEF StudyInv, Tables, Occupied
<1>3. ASSUME NEW p \in Procs, NEW a, runs' = [runs EXCEPT ![proc[p].slot].attempt = a],
             a \in Attempts \ {None}
      PROVE  Occupied(s)'
  <2> DEFINE r == proc[p].slot
  <2>1. CASE s = r
    <3>1. PICK t \in Trees : runs[s] = [docs |-> Pack(s, t), attempt |-> runs[s].attempt]
      BY DEF StudyInv, SlotSound, RunsOf, Occupied
    <3>2. runs'[s] = [docs |-> Pack(s, t), attempt |-> a]
      BY <1>3, <2>1, <3>1 DEF StudyInv, Tables
    <3> QED BY <1>3, <3>2, RunTyped DEF Occupied
  <2>2. CASE s # r
    BY <1>3, <2>2 DEF StudyInv, Tables, Occupied
  <2> QED BY <2>1, <2>2
<1>4. ASSUME NEW p \in Procs, CreateAttempt(p) PROVE Occupied(s)'
  <2>1. runs' = runs \/ runs' = [runs EXCEPT ![proc[p].slot].attempt = "started"]
    BY <1>4 DEF CreateAttempt
  <2> QED BY <1>1, <1>3, <2>1, NoneAssumption DEF Attempts
<1>5. ASSUME NEW p \in Procs, WriteAttempt(p) PROVE Occupied(s)'
  <2>1. \E a \in {"captured", "interrupted"} : runs' = [runs EXCEPT ![proc[p].slot].attempt = a]
    BY <1>5 DEF WriteAttempt
  <2> QED BY <1>3, <2>1, NoneAssumption DEF Attempts
<1>6. \/ runs' = runs
      \/ \E p \in Procs : PublishStagedRun(p) \/ CreateAttempt(p) \/ WriteAttempt(p)
  BY DEF Next, Start, Step, vars, Initialize, BuildBlockAuthorization, ExecuteNext,
         WriteBlockAuthorization, MakePack, WritePack, PrepareStaging, SendRequest,
         CliInit, CliCapture, ModelUnavailable, Kill, Edit
<1> QED BY <1>1, <1>2, <1>4, <1>5, <1>6

\* The blocks before that of the next slot are cleared.
LEMMA NextIsCleared ==
    ASSUME NEW s \in NextPending
    PROVE  s \in Slots /\ BlockOfSlot(s) \in Blocks /\ Cleared(BlockOfSlot(s))
<1>1. s \in Slots /\ BlockOfSlot(s) \in Blocks
  BY Numbers DEF NextPending
<1>2. PICK f \in Slots : \A t \in Slots : t < f <=> BlockOfSlot(t) < BlockOfSlot(s)
  BY <1>1, FirstSlot
<1>3. ASSUME NEW t \in Slots, BlockOfSlot(t) < BlockOfSlot(s) PROVE Occupied(t)
  <2> DEFINE b == BlockOfSlot(s)
  <2> b \in Nat
    BY <1>1, Numbers
  <2> HIDE DEF b
  <2>0. \A u \in Slots : u < f <=> BlockOfSlot(u) < b
    BY <1>2 DEF b
  <2>1. t < f
    BY <2>0, <1>3 DEF b
  <2>2. ~(s < f)
    <3>1. BlockOfSlot(s) = b
      BY DEF b
    <3>2. ~(BlockOfSlot(s) < b)
      BY <3>1
    <3> QED BY <3>2, <2>0, <1>1
  <2>3. t \in 1 .. s - 1
    BY <1>1, <2>1, <2>2, Numbers
  <2> QED BY <2>3 DEF NextPending
<1> QED BY <1>1, <1>3 DEF Cleared

\* Only one command comes to authorise a block, and only one writes it.
LEMMA WhoAuthorises ==
    ASSUME StudyInv, [Next]_vars, NEW q \in Procs, proc'[q].at = "authorize"
    PROVE  \/ proc'[q] = proc[q]
           \/ /\ plan # None /\ Readable
              /\ \E s \in NextPending, o \in Operators :
                   proc'[q] = [at |-> "authorize", block |-> plan[s].block, operator |-> o]
<1>1. ASSUME NEW state, state.at # "authorize", NEW p \in Procs, Goto(p, state)
      PROVE  proc'[q] = proc[q]
  BY <1>1 DEF Goto, StudyInv, Tables
<1>2. CASE UNCHANGED proc
  BY <1>2
<1>3. ASSUME NEW p \in Procs, BuildBlockAuthorization(p)
      PROVE  \/ proc'[q] = proc[q]
             \/ /\ plan # None /\ Readable
                /\ \E s \in NextPending, o \in Operators :
                     proc'[q] = [at |-> "authorize", block |-> plan[s].block, operator |-> o]
  BY <1>3 DEF BuildBlockAuthorization, Goto, StudyInv, Tables
<1>4. Idle.at # "authorize"
  BY DEF Idle
<1>5. ASSUME NEW p \in Procs,
             \/ WriteBlockAuthorization(p) \/ MakePack(p) \/ PrepareStaging(p)
             \/ PublishStagedRun(p) \/ CreateAttempt(p) \/ WriteAttempt(p)
             \/ ModelUnavailable(p) \/ Kill(p)
      PROVE  proc'[q] = proc[q]
  BY <1>1, <1>4, <1>5 DEF Stop, WriteBlockAuthorization, MakePack, PrepareStaging,
     PublishStagedRun, CreateAttempt, WriteAttempt, ModelUnavailable, Kill
<1>6. ASSUME NEW p \in Procs,
             ExecuteNext(p) \/ WritePack(p) \/ SendRequest(p) \/ CliInit(p) \/ CliCapture(p)
      PROVE  proc'[q] = proc[q]
  BY <1>1, <1>6 DEF ExecuteNext, WritePack, SendRequest, CliInit, CliCapture
<1> QED BY <1>2, <1>3, <1>5, <1>6 DEF Next, vars, Start, Step, Initialize, Edit

LEMMA OrderStep == OrderInv /\ [Next]_vars => BlocksInOrder'
<1> SUFFICES ASSUME OrderInv, [Next]_vars PROVE BlocksInOrder'
  OBVIOUS
<1>1. \A s \in Slots : Occupied(s) => Occupied(s)'
  BY OccupiedStays DEF OrderInv
<1>2. \A b : Cleared(b) => Cleared(b)'
  BY <1>1 DEF Cleared
<1>3. ASSUME NEW b \in Blocks, auth'[b] # None PROVE Cleared(b)'
  <2>1. CASE auth' = auth
    BY <1>2, <1>3, <2>1 DEF OrderInv, BlocksInOrder
  <2>2. ASSUME NEW p \in Procs, WriteBlockAuthorization(p) PROVE Cleared(b)'
    <3>1. Cleared(proc[p].block)
      BY <2>2 DEF WriteBlockAuthorization, OrderInv, BlocksInOrder
    <3>2. auth'[b] = auth[b] \/ b = proc[p].block
      BY <2>2 DEF WriteBlockAuthorization, OrderInv, StudyInv, Tables
    <3> QED BY <1>2, <1>3, <3>1, <3>2 DEF OrderInv, BlocksInOrder
  <2>3. auth' = auth \/ \E p \in Procs : WriteBlockAuthorization(p)
    BY DEF Next, Start, Step, vars, Initialize, BuildBlockAuthorization, ExecuteNext,
           MakePack, WritePack, PrepareStaging, PublishStagedRun, CreateAttempt, SendRequest,
           WriteAttempt, CliInit, CliCapture, ModelUnavailable, Kill, Edit
  <2> QED BY <2>1, <2>2, <2>3
<1>4. ASSUME NEW q \in Procs, proc'[q].at = "authorize"
      PROVE  (proc[q].block \in Blocks /\ Cleared(proc[q].block))'
  <2>1. PICK b \in Blocks : Cleared(b) /\ proc'[q].block = b
    <3>1. CASE proc'[q] = proc[q]
      BY <1>4, <3>1 DEF OrderInv, BlocksInOrder
    <3>2. ASSUME plan # None, Readable, NEW s \in NextPending, NEW o \in Operators,
                 proc'[q] = [at |-> "authorize", block |-> plan[s].block, operator |-> o]
          PROVE  proc'[q].block = BlockOfSlot(s)
      BY <3>2 DEF Readable, BlockOfSlot
    <3>3. StudyInv
      BY DEF OrderInv
    <3>4. CASE proc'[q] # proc[q]
      <4>1. PICK s \in NextPending : proc'[q].block = BlockOfSlot(s)
        BY <1>4, <3>4, <3>2, <3>3, WhoAuthorises
      <4> QED BY <4>1, NextIsCleared
    <3> QED BY <3>1, <3>4
  <2>2. \A s \in Slots : BlockOfSlot(s) < b => Occupied(s)'
    BY <1>1, <2>1 DEF Cleared
  <2> QED BY <2>1, <2>2 DEF Cleared, BlockOfSlot
<1> QED BY <1>3, <1>4 DEF BlocksInOrder

(* Blocks are authorised in their order, none before those in front of it  *)
(* are consumed (openai_gpt56_r2.py, authorize_block).                     *)
THEOREM OrderInvariant == Spec => []OrderInv
<1>1. Init => OrderInv
  BY InitSound, OrderInitially DEF OrderInv
<1>2. StudyInv' /\ OrderInv /\ [Next]_vars => OrderInv'
  BY OrderStep DEF OrderInv
<1> QED BY <1>1, <1>2, StudyInvariant, PTL DEF Spec

-----------------------------------------------------------------------------
(* The refinement, action by action.                                       *)

-----------------------------------------------------------------------------
(* The refinement.                                                         *)

\* One element more of an initial segment of the numbers.
LEMMA NextSegment ==
    ASSUME NEW n \in Nat \ {0}
    PROVE  /\ (1 .. n - 1) \cup {n} = 1 .. n
           /\ n - 1 \in Nat /\ n - 1 + 1 = n
           /\ Cardinality(1 .. n) = n
<1>1. (1 .. n - 1) \cup {n} = 1 .. n /\ n - 1 \in Nat /\ n - 1 + 1 = n
  OBVIOUS
<1>2. Cardinality(1 .. n) = n
  <2>1. Cardinality(1 .. n) = IF 1 > n THEN 0 ELSE n - 1 + 1
    BY FS_Interval
  <2> QED BY <2>1
<1> QED BY <1>1, <1>2

\* A finite set has at least the elements of a segment inside it.
LEMMA SegmentWithin ==
    ASSUME NEW S, IsFiniteSet(S), NEW n \in Nat \ {0}, 1 .. n \subseteq S
    PROVE  n <= Cardinality(S) /\ n \in 1 .. Cardinality(S)
<1>1. 1 .. n \in SUBSET S
  OBVIOUS
<1>2. Cardinality(1 .. n) <= Cardinality(S)
  BY <1>1, FS_Subset
<1>3. Cardinality(S) \in Nat
  BY FS_CardinalityType
<1> QED BY <1>2, <1>3, NextSegment

(* A step that writes no authorization, makes no run directory and sends   *)
(* no request is none of FixedStudy.                                       *)
LEMMA Unseen ==
    ASSUME auth' = auth, sent' = sent, \A s \in Slots : Occupied(s)' <=> Occupied(s)
    PROVE  UNCHANGED Study!svars
<1>1. {s \in Slots : Occupied(s)'} = {s \in Slots : Occupied(s)}
  OBVIOUS
<1> QED BY <1>1 DEF Study!svars

\* The authorization written is that of the next block.
LEMMA WriteGrants ==
    ASSUME OrderInv, NEW p \in Procs, WriteBlockAuthorization(p), auth' # auth
    PROVE  Study!Grant
<1> DEFINE b == proc[p].block
<1>1. /\ b \in Blocks /\ Cleared(b) /\ auth[b] = None
      /\ auth' = [auth EXCEPT ![b] = proc[p].operator]
      /\ proc[p].operator # None
      /\ runs' = runs /\ sent' = sent
  BY StudyAssumption DEF WriteBlockAuthorization, OrderInv, BlocksInOrder, StudyInv, StateSound
<1>2. PICK f \in Slots : BlockOfSlot(f) = b /\ Cardinality(ConsumedSlots) = f - 1
  BY <1>1, NextBlock
<1>3. GrantedBlocks = 1 .. b - 1 /\ Cardinality(GrantedBlocks) = b - 1
  BY <1>1, NextBlock
<1>4. GrantedBlocks' = 1 .. b
  <2>1. GrantedBlocks' = GrantedBlocks \cup {b}
    BY <1>1 DEF GrantedBlocks, OrderInv, StudyInv, Tables
  <2>2. b \in Nat \ {0}
    BY <1>1, Numbers
  <2> QED BY <2>1, <2>2, <1>3, NextSegment
<1>5. Cardinality(GrantedBlocks') = b
  <2>1. b \in Nat \ {0}
    BY <1>1, Numbers
  <2> QED BY <2>1, <1>4, NextSegment
<1>6. ConsumedSlots' = ConsumedSlots
  BY <1>1 DEF ConsumedSlots, Occupied
<1>7. /\ Cardinality(ConsumedSlots) < Len(FlattenSeq(Orders))
      /\ BlockOfSlot(Cardinality(ConsumedSlots) + 1) = Cardinality(GrantedBlocks) + 1
      /\ Cardinality(GrantedBlocks') = Cardinality(GrantedBlocks) + 1
  <2>1. f \in Nat \ {0} /\ f <= Len(FlattenSeq(Orders))
    BY Numbers DEF Slots
  <2>2. b \in Nat \ {0}
    BY <1>1, Numbers
  <2>3. f - 1 + 1 = f /\ b - 1 + 1 = b
    BY <2>1, <2>2, NextSegment
  <2>4. f - 1 < Len(FlattenSeq(Orders))
    BY <2>1, Numbers
  <2> QED BY <1>2, <1>3, <1>5, <2>3, <2>4
<1> QED BY <1>1, <1>6, <1>7 DEF Study!Grant, GrantedBlocks, ConsumedSlots, BlockOfSlot

\* The run directory that appears is that of the next slot.
LEMMA PublishConsumes ==
    ASSUME OrderInv, NEW p \in Procs, PublishStagedRun(p), ~Occupied(proc[p].slot)
    PROVE  Study!Consume
<1> DEFINE s == proc[p].slot
<1>1. /\ s \in Slots /\ Reached(s) /\ ~Occupied(s)
      /\ runs' = [runs EXCEPT ![s] = proc[p].staging]
      /\ auth' = auth /\ sent' = sent
  BY DEF PublishStagedRun, OrderInv, StudyInv, StateSound
<1>2. \E t \in Trees : proc[p].staging = [docs |-> Pack(s, t), attempt |-> None]
  BY DEF PublishStagedRun, OrderInv, StudyInv, StateSound
<1>3. proc[p].staging # None
  BY <1>1, <1>2, RunTyped DEF Attempts
<1>4. ConsumedSlots = 1 .. s - 1 /\ Cardinality(ConsumedSlots) = s - 1
  BY <1>1, ConsumedBefore DEF Reached, OrderInv
<1>5. ConsumedSlots' = 1 .. s
  <2>1. ConsumedSlots' = ConsumedSlots \cup {s}
    BY <1>1, <1>3 DEF ConsumedSlots, Occupied, OrderInv, StudyInv, Tables
  <2>2. s \in Nat \ {0}
    BY <1>1, Numbers
  <2> QED BY <2>1, <2>2, <1>4, NextSegment
<1>6. Cardinality(ConsumedSlots') = s
  <2>1. s \in Nat \ {0}
    BY <1>1, Numbers
  <2> QED BY <2>1, <1>5, NextSegment
<1>7. BlockOfSlot(s) <= Cardinality(GrantedBlocks)
  <2> DEFINE b == BlockOfSlot(s)
  <2>1. b \in Blocks /\ auth[b] # None /\ Cleared(b)
    BY <1>1, Numbers DEF Reached, BlockOfSlot, OrderInv, BlocksInOrder
  <2>2. 1 .. b \subseteq GrantedBlocks
    <3>1. ASSUME NEW c \in 1 .. b PROVE c \in GrantedBlocks
      <4>1. c \in Blocks /\ (c = b \/ c < b)
        BY <2>1, Numbers DEF Blocks
      <4> QED BY <4>1, <2>1, GrantedBefore DEF GrantedBlocks, OrderInv
    <3> QED BY <3>1
  <2>3. b \in Nat \ {0}
    BY <2>1, Numbers
  <2> QED BY <2>2, <2>3, SegmentWithin, FiniteTables
<1>8. /\ Cardinality(ConsumedSlots) < Len(FlattenSeq(Orders))
      /\ BlockOfSlot(Cardinality(ConsumedSlots) + 1) <= Cardinality(GrantedBlocks)
      /\ Cardinality(ConsumedSlots') = Cardinality(ConsumedSlots) + 1
  <2>1. s \in Nat \ {0} /\ s <= Len(FlattenSeq(Orders))
    BY <1>1, Numbers DEF Slots
  <2>2. s - 1 + 1 = s
    BY <2>1, NextSegment
  <2>3. s - 1 < Len(FlattenSeq(Orders))
    BY <2>1, Numbers
  <2> QED BY <1>4, <1>6, <1>7, <2>2, <2>3
<1> QED BY <1>1, <1>8 DEF Study!Consume, GrantedBlocks, ConsumedSlots, BlockOfSlot

\* The request sent is the first of a consumed slot.
LEMMA SendRequests ==
    ASSUME OrderInv, NEW p \in Procs, SendRequest(p)
    PROVE  Study!Request
<1> DEFINE s == proc[p].slot
<1>1. /\ s \in Slots /\ Occupied(s) /\ sent[s] = 0
      /\ sent' = [sent EXCEPT ![s] = 1]
      /\ runs' = runs /\ auth' = auth
  <2>1. s \in Slots /\ Occupied(s) /\ sent[s] = 0
    BY DEF SendRequest, OrderInv, StudyInv, StateSound, Occupied
  <2> QED BY <2>1 DEF SendRequest
<1>2. s \notin RequestedSlots /\ RequestedSlots' = RequestedSlots \cup {s}
  BY <1>1 DEF RequestedSlots, OrderInv, StudyInv, Tables
<1>3. s \in 1 .. Cardinality(ConsumedSlots)
  <2>1. 1 .. s \subseteq ConsumedSlots
    <3>1. ASSUME NEW t \in 1 .. s PROVE t \in ConsumedSlots
      <4>1. t \in Slots /\ (t = s \/ t < s)
        BY <1>1, Numbers DEF Slots
      <4> QED BY <4>1, <1>1, OccupiedInOrder DEF ConsumedSlots, OrderInv
    <3> QED BY <3>1
  <2>2. s \in Nat \ {0}
    BY <1>1, Numbers
  <2> QED BY <2>1, <2>2, SegmentWithin, FiniteTables
<1>4. \A t \in Slots : Occupied(t)' <=> Occupied(t)
  BY <1>1 DEF Occupied
<1>5. {t \in Slots : Occupied(t)'} = {t \in Slots : Occupied(t)}
  BY <1>4
<1> QED BY <1>1, <1>2, <1>3, <1>5 DEF Study!Request, RequestedSlots, ConsumedSlots

LEMMA StudyInitially == Init => Study!StudyInit
<1> SUFFICES ASSUME Init PROVE Study!StudyInit
  OBVIOUS
<1>1. GrantedBlocks = {} /\ ConsumedSlots = {} /\ RequestedSlots = {}
  BY DEF Init, GrantedBlocks, ConsumedSlots, RequestedSlots, Occupied
<1>2. Cardinality(GrantedBlocks) = 0 /\ Cardinality(ConsumedSlots) = 0
  BY <1>1, FS_EmptySet
<1> QED BY <1>1, <1>2 DEF Study!StudyInit, GrantedBlocks, ConsumedSlots, RequestedSlots

LEMMA StudySteps ==
    ASSUME OrderInv, [Next]_vars
    PROVE  [Study!StudyNext]_(Study!svars)
<1>1. CASE auth' = auth /\ sent' = sent /\ runs' = runs
  BY <1>1, Unseen DEF Occupied
<1>2. ASSUME NEW p \in Procs, WriteBlockAuthorization(p)
      PROVE  [Study!StudyNext]_(Study!svars)
  BY <1>2, <1>1, WriteGrants DEF WriteBlockAuthorization, Study!StudyNext
<1>3. ASSUME NEW p \in Procs, PublishStagedRun(p)
      PROVE  [Study!StudyNext]_(Study!svars)
  BY <1>3, <1>1, PublishConsumes DEF PublishStagedRun, Study!StudyNext
<1>4. ASSUME NEW p \in Procs, SendRequest(p)
      PROVE  [Study!StudyNext]_(Study!svars)
  BY <1>4, SendRequests DEF Study!StudyNext
<1>5. ASSUME NEW p \in Procs, CreateAttempt(p) \/ WriteAttempt(p)
      PROVE  [Study!StudyNext]_(Study!svars)
  <2>1. proc[p].slot \in Slots /\ Occupied(proc[p].slot) /\ auth' = auth /\ sent' = sent
    BY <1>5 DEF CreateAttempt, WriteAttempt, OrderInv, StudyInv, StateSound, Occupied
  <2>2. \A s \in Slots : s # proc[p].slot => runs'[s] = runs[s]
    BY <1>5 DEF CreateAttempt, WriteAttempt, OrderInv, StudyInv, Tables
  <2>3. \A s \in Slots : Occupied(s) => Occupied(s)'
    BY OccupiedStays DEF OrderInv
  <2>4. \A s \in Slots : Occupied(s)' <=> Occupied(s)
    BY <2>1, <2>2, <2>3 DEF Occupied
  <2> QED BY <2>1, <2>4, Unseen
<1>6. \/ auth' = auth /\ sent' = sent /\ runs' = runs
      \/ \E p \in Procs : \/ WriteBlockAuthorization(p) \/ PublishStagedRun(p)
                          \/ SendRequest(p) \/ CreateAttempt(p) \/ WriteAttempt(p)
  BY DEF Next, Start, Step, vars, Initialize, BuildBlockAuthorization, ExecuteNext,
         MakePack, WritePack, PrepareStaging, CliInit, CliCapture, ModelUnavailable, Kill, Edit
<1> QED BY <1>1, <1>2, <1>3, <1>4, <1>5, <1>6

(* The study goes as its documents describe it, however many commands      *)
(* overlap and are killed (openai_gpt56_r2.py, r2_state.py).               *)
THEOREM StudyRefinement == Spec => ImplementsStudy
<1>1. Init => Study!StudyInit
  BY StudyInitially
<1>2. OrderInv /\ [Next]_vars => [Study!StudyNext]_(Study!svars)
  BY StudySteps
<1> QED BY <1>1, <1>2, OrderInvariant, PTL DEF Spec, ImplementsStudy, Study!StudySpec
=============================================================================
