------------------------- MODULE StreamBufferProofs -------------------------
(***************************************************************************)
(* The reference counts of stream_buffer are exact and the data it hands   *)
(* out stays intact, for any number of blocks and refs and any sizes:      *)
(* BufferInv (StreamBuffer) is an inductive invariant, and CountExact,     *)
(* DataIntact and RetainedIntact follow.                                   *)
(*                                                                         *)
(* The counts and the data depend on each other.  A block is rewound or    *)
(* reallocated when its counter is one; that no ref has pointers into it   *)
(* then follows from the counter being exact.                              *)
(***************************************************************************)
EXTENDS StreamBuffer, FiniteSetTheorems, TLAPS

-----------------------------------------------------------------------------
(* Counting.                                                               *)

(* Exchanging the holdings of two holders does not change their number. *)
LEMMA Exchanged ==
  ASSUME NEW S, NEW T, IsFiniteSet(S), NEW r, NEW s, r # s,
         r \in T <=> s \in S, s \in T <=> r \in S,
         \A o : o # r /\ o # s => (o \in T <=> o \in S)
  PROVE  IsFiniteSet(T) /\ Cardinality(T) = Cardinality(S)
<1>1. CASE (r \in S /\ s \in S) \/ (r \notin S /\ s \notin S)
  <2>1. T = S
    BY <1>1
  <2>2. QED
    BY <2>1
<1>2. CASE r \in S /\ s \notin S
  <2>1. PICK M : M = S \ {r}
    OBVIOUS
  <2>2. IsFiniteSet(M) /\ Cardinality(M) = Cardinality(S) - 1 /\ Cardinality(S) \in Nat
    BY <1>2, <2>1, FS_RemoveElement, FS_CardinalityType
  <2>3. T = M \cup {s} /\ s \notin M
    BY <1>2, <2>1
  <2>4. IsFiniteSet(M \cup {s}) /\ Cardinality(M \cup {s}) = Cardinality(M) + 1
    BY <2>2, <2>3, FS_AddElement
  <2>5. QED
    BY <2>2, <2>3, <2>4
<1>3. CASE r \notin S /\ s \in S
  <2>1. PICK M : M = S \ {s}
    OBVIOUS
  <2>2. IsFiniteSet(M) /\ Cardinality(M) = Cardinality(S) - 1 /\ Cardinality(S) \in Nat
    BY <1>3, <2>1, FS_RemoveElement, FS_CardinalityType
  <2>3. T = M \cup {r} /\ r \notin M
    BY <1>3, <2>1
  <2>4. IsFiniteSet(M \cup {r}) /\ Cardinality(M \cup {r}) = Cardinality(M) + 1
    BY <2>2, <2>3, FS_AddElement
  <2>5. QED
    BY <2>2, <2>3, <2>4
<1>4. QED
  BY <1>1, <1>2, <1>3

(* A set with two members counts two at least; a set that counts one has   *)
(* one member.                                                             *)
LEMMA CountTwo ==
  ASSUME NEW S, IsFiniteSet(S), NEW a \in S, NEW b \in S, a # b
  PROVE  Cardinality(S) >= 2
<1>1. PICK M : M = S \ {a}
  OBVIOUS
<1>2. IsFiniteSet(M) /\ Cardinality(M) = Cardinality(S) - 1 /\ Cardinality(S) \in Nat
  BY <1>1, FS_RemoveElement, FS_CardinalityType
<1>3. Cardinality(M) # 0 /\ Cardinality(M) \in Nat
  BY <1>1, <1>2, FS_EmptySet, FS_CardinalityType
<1>4. QED
  BY <1>2, <1>3

-----------------------------------------------------------------------------
(* Who holds a block.                                                      *)

(* The holders, member by member. *)
LEMMA HoldersMember ==
  ASSUME NEW b
  PROVE  /\ \A o : o \in Holders(b) <=>
              (o \in Refs \cup {MRef} /\ b \in m_array[o]) \/ (o = MBuf /\ b = m_buffer)
         /\ \A o : o \in Holders(b)' <=>
              (o \in Refs \cup {MRef} /\ b \in m_array'[o]) \/ (o = MBuf /\ b = m_buffer')
BY DEF Holders

(* There are finitely many. *)
LEMMA HoldersFinite ==
  ASSUME NEW b
  PROVE  IsFiniteSet(Holders(b)) /\ IsFiniteSet(Holders(b)')
<1>1. IsFiniteSet(Refs \cup {MRef})
  BY BufferAssumption, FS_AddElement
<1>2. IsFiniteSet((Refs \cup {MRef}) \cup {MBuf})
  BY <1>1, FS_AddElement
<1>3. Holders(b) \subseteq (Refs \cup {MRef}) \cup {MBuf}
      /\ Holders(b)' \subseteq (Refs \cup {MRef}) \cup {MBuf}
  BY DEF Holders
<1>4. QED
  BY <1>2, <1>3, FS_Subset

(* A block with a holder is allocated; with two, it is not the last one's; *)
(* with a counter of one it has no other.                                  *)
LEMMA HolderKeeps ==
  ASSUME BufferInv, NEW b \in Blocks, NEW o \in Holders(b)
  PROVE  /\ count[b] \in Nat /\ count[b] >= 1 /\ size[b] # 0
         /\ \A u \in Holders(b) : u # o => count[b] >= 2
<1>1. count[b] = Cardinality(Holders(b)) /\ (size[b] = 0 <=> count[b] = 0)
  BY DEF BufferInv, CountExact
<1>2. Cardinality(Holders(b)) \in Nat /\ Cardinality(Holders(b)) # 0
  BY HoldersFinite, FS_CardinalityType, FS_EmptySet
<1>3. \A u \in Holders(b) : u # o => Cardinality(Holders(b)) >= 2
  BY HoldersFinite, CountTwo
<1>4. QED
  BY <1>1, <1>2, <1>3

(* A free block has no holder. *)
LEMMA FreeUnheld ==
  ASSUME BufferInv, NEW b \in Blocks, size[b] = 0
  PROVE  count[b] = 0 /\ Holders(b) = {}
BY HolderKeeps DEF BufferInv, CountExact

-----------------------------------------------------------------------------
(* Types and calls.                                                        *)

(* The sizes that expand_buffer computes. *)
LEMMA DoubledFacts ==
  ASSUME NEW s, NEW need, NEW n \in Doubled(s, need)
  PROVE  n \in Nat /\ n <= MaxSize /\ n >= need
BY BufferAssumption DEF Doubled

(* Types, and the bounds of the current block. *)
LEMMA TypesKept ==
  ASSUME BufferInv, Next
  PROVE  TypeOK' /\ CallsOK'
<1> USE BufferAssumption DEF ownVars, refVars, heapVars, callVars, TypeOK, CallsOK
<1>1. TypeOK /\ CallsOK /\ DataIntact
  BY DEF BufferInv
<1>2. ASSUME NEW n \in 1..MaxBytes, buffer_filled(n) PROVE TypeOK' /\ CallsOK'
  <2>1. m_buffer \in Blocks
    BY <1>1, <1>2 DEF buffer_filled, Ready
  <2>2. PICK row : row = [i \in Offsets |-> IF m_used <= i /\ i < m_used + n
                                           THEN received + 1 + i - m_used ELSE mem[m_buffer][i]]
    OBVIOUS
  <2>3. row \in [Offsets -> Nat]
    BY <1>1, <2>1, <2>2 DEF Offsets
  <2>4. mem' = [mem EXCEPT ![m_buffer] = row]
    BY <1>1, <1>2, <2>1, <2>2 DEF buffer_filled
  <2>5. mem' \in [Blocks -> [Offsets -> Nat]]
    BY <1>1, <2>3, <2>4
  <2>6. QED
    BY <1>1, <1>2, <2>5 DEF buffer_filled, Ready
<1>3. ASSUME NEW n \in 1..MaxBytes, data_consumed(n) PROVE TypeOK' /\ CallsOK'
  <2>1. m_buffer \in Blocks /\ m_used + m_free = size[m_buffer] /\ size[m_buffer] <= MaxSize
    BY <1>1, <1>3 DEF data_consumed, Ready, DataIntact
  <2>2. ASSUME NEW i \in m_off..(m_off + n - 1)
        PROVE  At(m_buffer, i, mem[m_buffer][i]) \in Pointer
    <3>1. i \in Offsets /\ i \in Nat
      BY <1>1, <1>3, <2>1 DEF data_consumed, Offsets
    <3>2. QED
      BY <1>1, <2>1, <3>1 DEF At, Pointer
  <2>3. parsed' \subseteq Pointer
    BY <1>1, <1>3, <2>2 DEF data_consumed
  <2>4. QED
    BY <1>1, <1>3, <2>3 DEF data_consumed
<1>4. ASSUME NEW len \in Lens, reserve_buffer(len) PROVE TypeOK' /\ CallsOK'
  <2>1. Header <= m_used
    BY <1>1, <1>4 DEF reserve_buffer, Ready, DataIntact
  <2>2. QED
    BY <1>1, <1>4, <2>1 DEF reserve_buffer, Ready
<1>5. ASSUME ExpandInPlace PROVE TypeOK' /\ CallsOK'
  <2>1. PICK b \in {m_buffer} \cup {c \in Blocks : size[c] = 0},
             next \in Doubled(m_used + m_free, want + m_used) :
          /\ m_buffer' = b /\ m_free' = next - m_used
          /\ size' = [c \in Blocks |-> IF c = b THEN next ELSE IF c = m_buffer THEN 0 ELSE size[c]]
          /\ count' = [c \in Blocks |-> IF c = b THEN 1 ELSE IF c = m_buffer THEN 0 ELSE count[c]]
          /\ mem' = [mem EXCEPT ![b] = mem[m_buffer]]
    BY <1>5 DEF ExpandInPlace
  <2>2. next \in Nat /\ next <= MaxSize /\ next >= want + m_used
    BY DoubledFacts
  <2>3. m_buffer \in Blocks /\ b \in Blocks
    BY <1>1, <1>5 DEF ExpandInPlace
  <2>4. QED
    BY <1>1, <1>5, <2>1, <2>2, <2>3 DEF ExpandInPlace
<1>6. ASSUME ExpandElsewhere PROVE TypeOK' /\ CallsOK'
  <2>1. PICK b \in {c \in Blocks : size[c] = 0}, next \in Doubled(Larger(InitSize, Header), NeedIn) :
          /\ m_buffer' = b
          /\ m_used' = m_used - m_off + Header /\ m_free' = next - m_used'
          /\ size' = [size EXCEPT ![b] = next] /\ count' = [count EXCEPT ![b] = 1]
          /\ mem' = [mem EXCEPT ![b] = Copied(b)]
          /\ m_array' = Moved
    BY <1>6 DEF ExpandElsewhere
  <2>2. m_buffer \in Blocks /\ m_off <= m_used /\ m_used + m_free = size[m_buffer]
    BY <1>1, <1>6 DEF ExpandElsewhere, DataIntact
  <2>3. next \in Nat /\ next <= MaxSize /\ next >= want + (m_used - m_off) + Header
    BY DoubledFacts DEF NeedIn
  <2>4. Copied(b) \in [Offsets -> Nat]
    BY <1>1, <2>2 DEF Copied, Offsets
  <2>5. mem' \in [Blocks -> [Offsets -> Nat]]
    BY <1>1, <2>1, <2>4
  <2>6. QED
    BY <1>1, <1>6, <2>1, <2>2, <2>3, <2>5 DEF ExpandElsewhere, Moved
<1>7. ASSUME ExpandFails PROVE TypeOK' /\ CallsOK'
  BY <1>1, <1>7 DEF ExpandFails
<1>8. ASSUME NEW r \in Refs, retain_to(r) PROVE TypeOK' /\ CallsOK'
  <2>1. m_buffer \in Blocks /\ m_buffer # None
    BY <1>1, <1>8 DEF retain_to, Ready
  <2>2. m_array' \in [Refs \cup {MRef} -> SUBSET Blocks]
    BY <1>1, <1>8, <2>1 DEF retain_to
  <2>3. count' \in [Blocks -> Int] /\ held' \in [Refs -> SUBSET Pointer]
    BY <1>1, <1>8, <2>1 DEF retain_to
  <2>4. QED
    BY <1>1, <1>8, <2>1, <2>2, <2>3 DEF retain_to, Ready
<1>9. ASSUME NEW r \in Refs, retain(r) PROVE TypeOK' /\ CallsOK'
  BY <1>1, <1>9 DEF retain, Ready
<1>10. ASSUME Destroy PROVE TypeOK' /\ CallsOK'
  BY <1>1, <1>10 DEF Destroy, Ready, decr_count
<1>11. ASSUME NEW r \in Refs, clear(r) PROVE TypeOK' /\ CallsOK'
  BY <1>1, <1>11 DEF clear
<1>12. ASSUME NEW o \in Refs \cup {MRef}, each_decr(o) PROVE TypeOK' /\ CallsOK'
  <2>1. CASE UNCHANGED <<m_array, heapVars>> /\ clearing' = clearing \ {o}
    BY <1>1, <1>12, <2>1 DEF each_decr
  <2>2. ASSUME NEW b \in m_array[o], decr_count(b), m_array' = [m_array EXCEPT ![o] = @ \ {b}],
               UNCHANGED clearing
        PROVE  TypeOK' /\ CallsOK'
    <3>1. b \in Blocks /\ m_array' \in [Refs \cup {MRef} -> SUBSET Blocks]
      BY <1>1, <2>2
    <3>2. count' \in [Blocks -> Int] /\ size' \in [Blocks -> Nat] /\ \A c \in Blocks : size'[c] <= size[c]
      BY <1>1, <2>2, <3>1 DEF decr_count
    <3>3. QED
      BY <1>1, <1>12, <2>2, <3>1, <3>2 DEF each_decr
  <2>3. QED
    BY <1>12, <2>1, <2>2 DEF each_decr
<1>13. ASSUME NEW r \in Refs, NEW s \in Refs, swap(r, s) PROVE TypeOK' /\ CallsOK'
  BY <1>1, <1>13 DEF swap
<1>14. ASSUME Finished PROVE TypeOK' /\ CallsOK'
  BY <1>1, <1>14 DEF Finished, vars
<1>15. QED
  BY <1>2, <1>3, <1>4, <1>5, <1>6, <1>7, <1>8, <1>9, <1>10, <1>11, <1>12, <1>13, <1>14
     DEF Next, BufferStep, RefStep

-----------------------------------------------------------------------------
(* Reference counts.                                                       *)

CountOK(b) == count[b] = Cardinality(Holders(b)) /\ (size[b] = 0 <=> count[b] = 0)

(* A block whose holders, counter and allocation stay. *)
LEMMA CountFrame ==
  ASSUME NEW b, CountOK(b), \A o : o \in Holders(b)' <=> o \in Holders(b), count'[b] = count[b],
         size'[b] = 0 <=> size[b] = 0
  PROVE  CountOK(b)'
<1>1. Holders(b)' = Holders(b)
  OBVIOUS
<1>2. QED
  BY <1>1 DEF CountOK

(* A block of which two holders exchange what they hold. *)
LEMMA CountExchanged ==
  ASSUME NEW b, CountOK(b), NEW r, NEW s, r # s,
         r \in Holders(b)' <=> s \in Holders(b), s \in Holders(b)' <=> r \in Holders(b),
         \A o : o # r /\ o # s => (o \in Holders(b)' <=> o \in Holders(b)),
         count'[b] = count[b], size'[b] = size[b]
  PROVE  CountOK(b)'
<1>1. Cardinality(Holders(b)') = Cardinality(Holders(b))
  BY HoldersFinite, Exchanged
<1>2. QED
  BY <1>1 DEF CountOK

(* decr_count by one of the holders of the block. *)
LEMMA CountDropped ==
  ASSUME BufferInv, NEW b \in Blocks, NEW h \in Holders(b), decr_count(b),
         \A o : o \in Holders(b)' <=> o \in Holders(b) /\ o # h
  PROVE  CountOK(b)'
<1>1. CountOK(b) /\ count \in [Blocks -> Int] /\ size \in [Blocks -> Nat]
  BY DEF BufferInv, CountExact, CountOK, TypeOK
<1>2. Holders(b)' = Holders(b) \ {h}
  OBVIOUS
<1>3. Cardinality(Holders(b)') = Cardinality(Holders(b)) - 1
  BY <1>2, HoldersFinite, FS_RemoveElement
<1>4. count[b] \in Nat /\ count[b] >= 1 /\ size[b] # 0
  BY HolderKeeps
<1>5. count'[b] = count[b] - 1 /\ size'[b] = IF count[b] = 1 THEN 0 ELSE size[b]
  BY <1>1 DEF decr_count
<1>6. QED
  BY <1>1, <1>3, <1>4, <1>5 DEF CountOK

(* The holder m_buffer alone. *)
LEMMA CountNew ==
  ASSUME NEW b, \A o : o \in Holders(b)' <=> o = MBuf, count'[b] = 1, size'[b] # 0
  PROVE  CountOK(b)'
<1>1. Holders(b)' = {MBuf}
  OBVIOUS
<1>2. Cardinality(Holders(b)') = 1
  BY <1>1, FS_Singleton
<1>3. QED
  BY <1>2 DEF CountOK

(* No holder at all. *)
LEMMA CountNone ==
  ASSUME NEW b, \A o : o \notin Holders(b)', count'[b] = 0, size'[b] = 0
  PROVE  CountOK(b)'
<1>1. Holders(b)' = {}
  OBVIOUS
<1>2. Cardinality(Holders(b)') = 0
  BY <1>1, FS_EmptySet
<1>3. QED
  BY <1>2 DEF CountOK

(* each_decr: a ref in clear() drops a block. *)
LEMMA CountEachDecr ==
  ASSUME BufferInv, NEW o \in Refs \cup {MRef}, each_decr(o)
  PROVE  CountExact'
<1>1. TypeOK /\ CountExact
  BY DEF BufferInv
<1>2. \A b \in Blocks : CountOK(b)
  BY <1>1 DEF CountExact, CountOK
<1>3. m_buffer' = m_buffer
  BY DEF each_decr, ownVars
<1>4. CASE m_array[o] = {} /\ clearing' = clearing \ {o} /\ UNCHANGED <<m_array, heapVars>>
  <2>1. \A b \in Blocks : Holders(b)' = Holders(b)
    BY <1>3, <1>4 DEF Holders
  <2>2. m_buffer' \notin m_array'[MRef] \/ MRef \in clearing'
    BY <1>1, <1>3, <1>4 DEF CountExact
  <2>3. QED
    BY <1>1, <1>4, <2>1, <2>2 DEF CountExact, heapVars
<1>5. ASSUME NEW b \in m_array[o], decr_count(b), m_array' = [m_array EXCEPT ![o] = @ \ {b}],
             UNCHANGED clearing
      PROVE  CountExact'
  <2>1. b \in Blocks /\ o \in Holders(b) /\ o # MBuf
    BY <1>1, <1>5, HoldersMember, BufferAssumption DEF TypeOK
  <2>2. \A u : u \in Holders(b)' <=> u \in Holders(b) /\ u # o
    BY <1>1, <1>3, <1>5, <2>1, HoldersMember DEF TypeOK
  <2>3. CountOK(b)'
    BY <1>5, <2>1, <2>2, CountDropped
  <2>4. ASSUME NEW c \in Blocks, c # b PROVE CountOK(c)'
    <3>1. \A u : u \in Holders(c)' <=> u \in Holders(c)
      BY <1>1, <1>3, <1>5, <2>4, HoldersMember DEF TypeOK
    <3>2. count'[c] = count[c] /\ size'[c] = size[c]
      BY <1>1, <1>5, <2>1, <2>4 DEF decr_count, TypeOK
    <3>3. QED
      BY <1>2, <3>1, <3>2, CountFrame
  <2>5. m_buffer' \notin m_array'[MRef] \/ MRef \in clearing'
    BY <1>1, <1>3, <1>5 DEF CountExact, TypeOK
  <2>6. QED
    BY <2>3, <2>4, <2>5 DEF CountExact, CountOK
<1>6. QED
  BY <1>4, <1>5 DEF each_decr

(* ~stream_buffer drops the current block. *)
LEMMA CountDestroy ==
  ASSUME BufferInv, Destroy
  PROVE  CountExact'
<1>1. TypeOK /\ CountExact
  BY DEF BufferInv
<1>2. \A b \in Blocks : CountOK(b)
  BY <1>1 DEF CountExact, CountOK
<1>3. PICK b \in Blocks : b = m_buffer
  BY <1>1 DEF Destroy, Ready, TypeOK
<1>4. m_buffer' = None /\ m_array' = m_array /\ decr_count(b) /\ MRef \in clearing'
  BY <1>3 DEF Destroy
<1>5. MBuf \in Holders(b) /\ \A u : u \in Holders(b)' <=> u \in Holders(b) /\ u # MBuf
  BY <1>3, <1>4, HoldersMember, BufferAssumption
<1>6. CountOK(b)'
  BY <1>4, <1>5, CountDropped
<1>7. ASSUME NEW c \in Blocks, c # b PROVE CountOK(c)'
  <2>1. \A u : u \in Holders(c)' <=> u \in Holders(c)
    BY <1>3, <1>4, <1>7, HoldersMember, BufferAssumption
  <2>2. count'[c] = count[c] /\ size'[c] = size[c]
    BY <1>1, <1>4, <1>7 DEF decr_count, TypeOK
  <2>3. QED
    BY <1>2, <2>1, <2>2, CountFrame
<1>8. QED
  BY <1>4, <1>6, <1>7 DEF CountExact, CountOK

(* retain, and swap of two refs: the holdings of r and s are exchanged. *)
LEMMA CountSwap ==
  ASSUME BufferInv, NEW r \in Refs \cup {MRef}, NEW s \in Refs \cup {MRef}, r # s,
         m_array' = [m_array EXCEPT ![r] = m_array[s], ![s] = m_array[r]],
         m_buffer' = m_buffer, heapVars' = heapVars,
         m_buffer' \notin m_array'[MRef] \/ MRef \in clearing'
  PROVE  CountExact'
<1>1. TypeOK /\ CountExact
  BY DEF BufferInv
<1>2. /\ m_array'[r] = m_array[s] /\ m_array'[s] = m_array[r]
      /\ \A o \in Refs \cup {MRef} : o # r /\ o # s => m_array'[o] = m_array[o]
  BY <1>1 DEF TypeOK
<1>3. ASSUME NEW b \in Blocks PROVE CountOK(b)'
  <2>1. CountOK(b) /\ count'[b] = count[b] /\ size'[b] = size[b]
    BY <1>1 DEF CountExact, CountOK, heapVars
  <2>2. r \in Holders(b)' <=> s \in Holders(b)
    BY <1>2, HoldersMember, BufferAssumption
  <2>3. s \in Holders(b)' <=> r \in Holders(b)
    BY <1>2, HoldersMember, BufferAssumption
  <2>4. \A o : o # r /\ o # s => (o \in Holders(b)' <=> o \in Holders(b))
    BY <1>2, HoldersMember
  <2>5. QED
    BY <2>1, <2>2, <2>3, <2>4, CountExchanged
<1>4. QED
  BY <1>3 DEF CountExact, CountOK

(* retain_to: m_buffer has one holder more, and r and m_ref are exchanged. *)
LEMMA CountRetainTo ==
  ASSUME BufferInv, NEW r \in Refs, retain_to(r)
  PROVE  CountExact'
<1>1. TypeOK /\ CountExact
  BY DEF BufferInv
<1>2. PICK mb \in Blocks : mb = m_buffer
  BY <1>1 DEF retain_to, Ready, TypeOK
<1>3. /\ m_buffer' = mb /\ size' = size /\ MRef \in clearing'
      /\ mb \notin m_array[MRef] /\ r # MRef /\ r # MBuf /\ MRef # MBuf
      /\ count' = [count EXCEPT ![mb] = @ + 1]
      /\ m_array' = [m_array EXCEPT ![r] = m_array[MRef] \cup {mb}, ![MRef] = m_array[r]]
  BY <1>1, <1>2, BufferAssumption DEF retain_to, Ready, CountExact
<1>4. /\ m_array'[r] = m_array[MRef] \cup {mb} /\ m_array'[MRef] = m_array[r]
      /\ \A o \in Refs \cup {MRef} : o # r /\ o # MRef => m_array'[o] = m_array[o]
  BY <1>1, <1>3 DEF TypeOK
<1>5. ASSUME NEW b \in Blocks, b # mb PROVE CountOK(b)'
  <2>1. CountOK(b) /\ count'[b] = count[b] /\ size'[b] = size[b]
    BY <1>1, <1>3, <1>5 DEF CountExact, CountOK, TypeOK
  <2>2. r \in Holders(b)' <=> MRef \in Holders(b)
    BY <1>3, <1>4, <1>5, HoldersMember
  <2>3. MRef \in Holders(b)' <=> r \in Holders(b)
    BY <1>3, <1>4, <1>5, HoldersMember
  <2>4. \A o : o # r /\ o # MRef => (o \in Holders(b)' <=> o \in Holders(b))
    BY <1>2, <1>3, <1>4, <1>5, HoldersMember
  <2>5. QED
    BY <1>3, <2>1, <2>2, <2>3, <2>4, CountExchanged
<1>6. CountOK(mb)'
  <2>1. PICK S : S = Holders(mb) \cup {MRef}
    OBVIOUS
  <2>2. MRef \notin Holders(mb) /\ MBuf \in Holders(mb)
    BY <1>2, <1>3, HoldersMember
  <2>3. IsFiniteSet(S) /\ Cardinality(S) = Cardinality(Holders(mb)) + 1
    BY <2>1, <2>2, HoldersFinite, FS_AddElement
  <2>4. r \in Holders(mb)' /\ MRef \in S
    BY <1>3, <1>4, <2>1, HoldersMember
  <2>5. MRef \in Holders(mb)' <=> r \in S
    BY <1>3, <1>4, <2>1, HoldersMember
  <2>6. \A o : o # r /\ o # MRef => (o \in Holders(mb)' <=> o \in S)
    BY <1>2, <1>3, <1>4, <2>1, HoldersMember
  <2>7. Cardinality(Holders(mb)') = Cardinality(S)
    BY <1>3, <2>3, <2>4, <2>5, <2>6, Exchanged
  <2>8. count'[mb] = count[mb] + 1 /\ size'[mb] = size[mb]
    BY <1>1, <1>3 DEF TypeOK
  <2>9. count[mb] = Cardinality(Holders(mb)) /\ count[mb] \in Nat /\ count[mb] >= 1 /\ size[mb] # 0
    BY <1>1, <2>2, HolderKeeps DEF CountExact
  <2>10. QED
    BY <2>3, <2>7, <2>8, <2>9 DEF CountOK
<1>7. QED
  BY <1>3, <1>5, <1>6 DEF CountExact, CountOK

(* expand_buffer with realloc: the only holder takes its block along. *)
LEMMA CountInPlace ==
  ASSUME BufferInv, ExpandInPlace
  PROVE  CountExact'
<1>1. TypeOK /\ CountExact /\ CallsOK /\ DataIntact
  BY DEF BufferInv
<1>2. PICK mb \in Blocks : mb = m_buffer
  BY <1>1 DEF ExpandInPlace, CallsOK, TypeOK
<1>3. PICK b \in {mb} \cup {c \in Blocks : size[c] = 0},
           next \in Doubled(m_used + m_free, want + m_used) :
        /\ m_buffer' = b
        /\ size' = [c \in Blocks |-> IF c = b THEN next ELSE IF c = mb THEN 0 ELSE size[c]]
        /\ count' = [c \in Blocks |-> IF c = b THEN 1 ELSE IF c = mb THEN 0 ELSE count[c]]
  BY <1>2 DEF ExpandInPlace
<1>4. b \in Blocks /\ next # 0
  <2>1. next \in Nat /\ next >= want + m_used
    BY DoubledFacts
  <2>2. Header <= m_off /\ m_off <= m_used /\ Header > 0
    BY <1>1, BufferAssumption DEF ExpandInPlace, CallsOK, DataIntact
  <2>3. QED
    BY <1>1, <1>2, <1>3, <2>1, <2>2, BufferAssumption DEF TypeOK
<1>5. m_array' = m_array /\ clearing' = clearing /\ count[mb] = 1
  BY <1>2 DEF ExpandInPlace, refVars
<1>6. MBuf \in Holders(mb) /\ \A o \in Holders(mb) : o = MBuf
  <2>1. MBuf \in Holders(mb)
    BY <1>2, HoldersMember
  <2>2. QED
    BY <1>5, <2>1, HolderKeeps
<1>7. \A o \in Refs \cup {MRef} : b \notin m_array[o] /\ mb \notin m_array[o]
  <2>1. \A o \in Refs \cup {MRef} : mb \notin m_array[o]
    BY <1>6, HoldersMember, BufferAssumption
  <2>2. CASE b = mb
    BY <2>1, <2>2
  <2>3. CASE b # mb
    <3>1. Holders(b) = {}
      BY <1>3, <1>4, <2>3, FreeUnheld
    <3>2. QED
      BY <2>1, <3>1, HoldersMember
  <2>4. QED
    BY <2>2, <2>3
<1>8. CountOK(b)'
  <2>1. \A o : o \in Holders(b)' <=> o = MBuf
    BY <1>3, <1>5, <1>7, HoldersMember
  <2>2. QED
    BY <1>3, <1>4, <2>1, CountNew
<1>9. ASSUME NEW c \in Blocks, c # b PROVE CountOK(c)'
  <2>1. CASE c = mb
    <3>1. \A o : o \notin Holders(c)'
      BY <1>3, <1>5, <1>7, <1>9, <2>1, HoldersMember
    <3>2. QED
      BY <1>3, <1>9, <2>1, <3>1, CountNone
  <2>2. CASE c # mb
    <3>1. \A o : o \in Holders(c)' <=> o \in Holders(c)
      BY <1>2, <1>3, <1>5, <1>9, <2>2, HoldersMember
    <3>2. CountOK(c) /\ count'[c] = count[c] /\ size'[c] = size[c]
      BY <1>1, <1>3, <1>9, <2>2 DEF CountExact, CountOK
    <3>3. QED
      BY <3>1, <3>2, CountFrame
  <2>3. QED
    BY <2>1, <2>2
<1>10. m_buffer' \notin m_array'[MRef]
  BY <1>3, <1>5, <1>7
<1>11. QED
  BY <1>8, <1>9, <1>10 DEF CountExact, CountOK

(* expand_buffer with a new block: m_ref takes the old one over. *)
LEMMA CountElsewhere ==
  ASSUME BufferInv, ExpandElsewhere
  PROVE  CountExact'
<1>1. TypeOK /\ CountExact /\ CallsOK /\ DataIntact
  BY DEF BufferInv
<1>2. PICK mb \in Blocks : mb = m_buffer
  BY <1>1 DEF ExpandElsewhere, CallsOK, TypeOK
<1>3. PICK b \in {c \in Blocks : size[c] = 0}, next \in Doubled(Larger(InitSize, Header), NeedIn) :
        /\ m_buffer' = b
        /\ size' = [size EXCEPT ![b] = next] /\ count' = [count EXCEPT ![b] = 1]
        /\ m_array' = [m_array EXCEPT ![MRef] = @ \cup {mb}]
  BY <1>2 DEF ExpandElsewhere, Moved
<1>4. next # 0
  <2>1. next \in Nat /\ next >= want + (m_used - m_off) + Header
    BY DoubledFacts DEF NeedIn
  <2>2. m_off <= m_used
    BY <1>1 DEF ExpandElsewhere, CallsOK, DataIntact
  <2>3. QED
    BY <1>1, <2>1, <2>2, BufferAssumption DEF TypeOK
<1>5. MBuf \in Holders(mb) /\ mb \notin m_array[MRef] /\ MRef # MBuf /\ MBuf \notin Refs
  BY <1>1, <1>2, HoldersMember, BufferAssumption DEF ExpandElsewhere, CallsOK, CountExact
<1>6. b \in Blocks /\ b # mb /\ Holders(b) = {}
  BY <1>3, <1>5, FreeUnheld
<1>7. /\ m_array'[MRef] = m_array[MRef] \cup {mb}
      /\ \A o \in Refs : o # MRef => m_array'[o] = m_array[o]
  BY <1>1, <1>3 DEF TypeOK
<1>8. CountOK(b)'
  <2>1. \A o : o \in Holders(b)' <=> o = MBuf
    BY <1>3, <1>6, <1>7, HoldersMember
  <2>2. count'[b] = 1 /\ size'[b] # 0
    BY <1>1, <1>3, <1>4, <1>6 DEF TypeOK
  <2>3. QED
    BY <2>1, <2>2, CountNew
<1>9. ASSUME NEW c \in Blocks, c # b PROVE CountOK(c)'
  <2>1. CountOK(c) /\ count'[c] = count[c] /\ size'[c] = size[c]
    BY <1>1, <1>3, <1>9 DEF CountExact, CountOK, TypeOK
  <2>2. CASE c = mb
    <3>1. MBuf \in Holders(c)' <=> MRef \in Holders(c)
      BY <1>2, <1>3, <1>5, <1>9, <2>2, HoldersMember
    <3>2. MRef \in Holders(c)' <=> MBuf \in Holders(c)
      BY <1>2, <1>5, <1>7, <2>2, HoldersMember
    <3>3. \A o : o # MBuf /\ o # MRef => (o \in Holders(c)' <=> o \in Holders(c))
      BY <1>7, HoldersMember
    <3>4. QED
      BY <1>5, <2>1, <3>1, <3>2, <3>3, CountExchanged
  <2>3. CASE c # mb
    <3>1. \A o : o \in Holders(c)' <=> o \in Holders(c)
      BY <1>2, <1>3, <1>7, <1>9, <2>3, HoldersMember
    <3>2. QED
      BY <2>1, <3>1, CountFrame
  <2>4. QED
    BY <2>2, <2>3
<1>10. m_buffer' \notin m_array'[MRef]
  BY <1>3, <1>6, <1>7, HoldersMember
<1>11. QED
  BY <1>8, <1>9, <1>10 DEF CountExact, CountOK

(* Every step keeps the counts exact. *)
LEMMA CountKept ==
  ASSUME BufferInv, Next
  PROVE  CountExact'
<1>1. TypeOK /\ CountExact
  BY DEF BufferInv
<1>2. CASE UNCHANGED <<m_buffer, m_array, heapVars>> /\ clearing \subseteq clearing'
  <2>1. \A b \in Blocks : Holders(b)' = Holders(b)
    BY <1>2 DEF Holders
  <2>2. QED
    BY <1>1, <1>2, <2>1 DEF CountExact, heapVars
<1>3. \A n \in 1..MaxBytes : buffer_filled(n) \/ data_consumed(n)
        => UNCHANGED <<m_buffer, m_array, heapVars>> /\ clearing \subseteq clearing'
  BY DEF buffer_filled, data_consumed, refVars
<1>4. (\E len \in Lens : reserve_buffer(len)) \/ ExpandFails \/ Finished
        => UNCHANGED <<m_buffer, m_array, heapVars>> /\ clearing \subseteq clearing'
  BY DEF reserve_buffer, ExpandFails, Finished, refVars, ownVars, vars, heapVars
<1>5. \A r \in Refs : clear(r)
        => UNCHANGED <<m_buffer, m_array, heapVars>> /\ clearing \subseteq clearing'
  BY DEF clear, ownVars
<1>6. ASSUME NEW r \in Refs, retain(r) PROVE CountExact'
  <2>1. r # MRef
    BY BufferAssumption
  <2>2. m_array' = [m_array EXCEPT ![r] = m_array[MRef], ![MRef] = m_array[r]]
    BY <1>6 DEF retain
  <2>3. m_buffer' \notin m_array'[MRef]
    BY <1>1, <1>6, <2>1 DEF retain, TypeOK
  <2>4. m_buffer' = m_buffer /\ heapVars' = heapVars
    BY <1>6 DEF retain
  <2>5. QED
    BY <2>1, <2>2, <2>3, <2>4, CountSwap
<1>7. ASSUME NEW r \in Refs, NEW s \in Refs, swap(r, s) PROVE CountExact'
  <2>1. m_array' = [m_array EXCEPT ![r] = m_array[s], ![s] = m_array[r]] /\ r # s
    BY <1>7 DEF swap
  <2>2. m_buffer' = m_buffer /\ heapVars' = heapVars /\ clearing' = clearing
    BY <1>7 DEF swap, ownVars
  <2>3. m_array'[MRef] = m_array[MRef]
    BY <1>1, <2>1, BufferAssumption DEF TypeOK
  <2>4. m_buffer' \notin m_array'[MRef] \/ MRef \in clearing'
    BY <1>1, <2>2, <2>3 DEF CountExact
  <2>5. QED
    BY <2>1, <2>2, <2>4, CountSwap
<1>8. QED
  BY <1>2, <1>3, <1>4, <1>5, <1>6, <1>7, CountInPlace, CountElsewhere, CountRetainTo,
     CountDestroy, CountEachDecr DEF Next, BufferStep, RefStep

-----------------------------------------------------------------------------
(* The unparsed data.                                                      *)

(* A block that somebody else holds is not freed. *)
LEMMA NotFreed ==
  ASSUME BufferInv, NEW b \in Blocks, NEW o \in Holders(b), NEW h \in Holders(b), h # o, decr_count(b)
  PROVE  size' = size
<1>1. count[b] >= 2 /\ count[b] \in Nat
  BY HolderKeeps
<1>2. QED
  BY <1>1 DEF decr_count

(* read and buffer_filled append. *)
LEMMA DataFilled ==
  ASSUME BufferInv, NEW n \in 1..MaxBytes, buffer_filled(n)
  PROVE  DataIntact'
<1>1. TypeOK /\ DataIntact /\ CallsOK
  BY DEF BufferInv
<1>2. PICK mb \in Blocks : mb = m_buffer
  BY <1>1 DEF buffer_filled, Ready, TypeOK
<1>3. /\ m_buffer' = mb /\ size' = size /\ m_off' = m_off /\ m_used' = m_used + n
      /\ m_free' = m_free - n /\ received' = received + n /\ n <= m_free
  BY <1>2 DEF buffer_filled, heapVars
<1>4. /\ m_off \in Nat /\ m_used \in Nat /\ m_free \in Nat /\ received \in Nat /\ n \in Nat
      /\ m_off <= m_used /\ m_used + m_free = size[mb] /\ size[mb] <= MaxSize
      /\ \A i \in m_off..(m_used - 1) : mem[mb][i] = received + 1 + i - m_used
  BY <1>1, <1>2, <1>3, BufferAssumption DEF TypeOK, DataIntact, CallsOK
<1>5. \A i \in Offsets : mem'[mb][i] = IF m_used <= i /\ i < m_used + n
                                      THEN received + 1 + i - m_used ELSE mem[mb][i]
  BY <1>1, <1>2 DEF buffer_filled, TypeOK
<1>6. ASSUME NEW i \in m_off..(m_used' - 1) PROVE mem'[mb][i] = received' + 1 + i - m_used'
  <2>1. i \in Offsets /\ i \in Nat
    BY <1>3, <1>4, BufferAssumption DEF Offsets
  <2>2. received' + 1 + i - m_used' = received + 1 + i - m_used
    BY <1>3, <1>4, <2>1
  <2>3. CASE i < m_used
    BY <1>4, <1>5, <2>1, <2>2, <2>3
  <2>4. CASE m_used <= i
    BY <1>3, <1>4, <1>5, <2>1, <2>2, <2>4
  <2>5. QED
    BY <1>4, <2>1, <2>3, <2>4
<1>7. QED
  BY <1>3, <1>4, <1>6 DEF DataIntact

(* expand_buffer keeps the data, in place or behind the counter of the new *)
(* block.                                                                  *)
LEMMA DataInPlace ==
  ASSUME BufferInv, ExpandInPlace
  PROVE  DataIntact'
<1>1. TypeOK /\ DataIntact /\ CallsOK
  BY DEF BufferInv
<1>2. PICK mb \in Blocks : mb = m_buffer
  BY <1>1 DEF ExpandInPlace, CallsOK, TypeOK
<1>3. PICK b \in {m_buffer} \cup {c \in Blocks : size[c] = 0},
           next \in Doubled(m_used + m_free, want + m_used) :
        /\ m_buffer' = b /\ m_free' = next - m_used
        /\ size' = [c \in Blocks |-> IF c = b THEN next ELSE IF c = m_buffer THEN 0 ELSE size[c]]
        /\ mem' = [mem EXCEPT ![b] = mem[m_buffer]]
  BY DEF ExpandInPlace
<1>4. m_used' = m_used /\ m_off' = m_off /\ received' = received
  BY DEF ExpandInPlace
<1>5. next \in Nat /\ next >= want + m_used
  BY DoubledFacts
<1>6. size'[b] = next /\ mem'[b] = mem[mb]
  BY <1>1, <1>2, <1>3 DEF TypeOK
<1>7. /\ m_off <= m_used /\ m_used \in Nat /\ want \in Nat
      /\ \A i \in m_off..(m_used - 1) : mem[mb][i] = received + 1 + i - m_used
  BY <1>1, <1>2, BufferAssumption DEF DataIntact, TypeOK
<1>8. QED
  BY <1>3, <1>4, <1>5, <1>6, <1>7 DEF DataIntact

(* The same for the new block. *)
LEMMA DataElsewhere ==
  ASSUME BufferInv, ExpandElsewhere
  PROVE  DataIntact'
<1>1. TypeOK /\ DataIntact /\ CallsOK
  BY DEF BufferInv
<1>2. PICK mb \in Blocks : mb = m_buffer
  BY <1>1 DEF ExpandElsewhere, CallsOK, TypeOK
<1>3. PICK b \in Blocks, next \in Doubled(Larger(InitSize, Header), NeedIn) :
        /\ m_buffer' = b /\ m_used' = m_used - m_off + Header /\ m_free' = next - m_used'
        /\ size' = [size EXCEPT ![b] = next] /\ mem' = [mem EXCEPT ![b] = Copied(b)]
  BY <1>2 DEF ExpandElsewhere
<1>4. m_off' = Header /\ received' = received
  BY DEF ExpandElsewhere
<1>5. next \in Nat /\ next <= MaxSize /\ next >= want + (m_used - m_off) + Header
  BY DoubledFacts DEF NeedIn
<1>6. size'[b] = next /\ mem'[b] = Copied(b)
  BY <1>1, <1>3 DEF TypeOK
<1>7. /\ m_off <= m_used /\ m_off \in Nat /\ m_used \in Nat /\ want \in Nat /\ Header \in Nat
      /\ received \in Nat
      /\ \A i \in m_off..(m_used - 1) : mem[mb][i] = received + 1 + i - m_used
  BY <1>1, <1>2, BufferAssumption DEF DataIntact, TypeOK
<1>8. ASSUME NEW i \in Header..(m_used' - 1) PROVE mem'[b][i] = received + 1 + i - m_used'
  <2>1. i \in Nat /\ Header <= i /\ i < m_used - m_off + Header /\ i \in Offsets
    BY <1>3, <1>5, <1>7, BufferAssumption DEF Offsets
  <2>2. PICK j \in m_off..(m_used - 1) : j = m_off + i - Header
    BY <1>7, <2>1
  <2>3. mem'[b][i] = mem[mb][j]
    BY <1>2, <1>6, <2>1, <2>2 DEF Copied
  <2>4. mem[mb][j] = received + 1 + j - m_used
    BY <1>7, <2>2
  <2>5. QED
    BY <1>3, <1>7, <2>1, <2>2, <2>3, <2>4
<1>9. QED
  BY <1>3, <1>4, <1>5, <1>6, <1>7, <1>8 DEF DataIntact

(* Every step keeps the unparsed data. *)
LEMMA DataKept ==
  ASSUME BufferInv, Next
  PROVE  DataIntact'
<1>1. TypeOK /\ DataIntact /\ CallsOK
  BY DEF BufferInv
<1>2. ASSUME NEW n \in 1..MaxBytes, data_consumed(n) PROVE DataIntact'
  <2>1. m_off' = m_off + n /\ n <= m_used - m_off /\ m_buffer # None
    BY <1>2 DEF data_consumed, Ready
  <2>2. m_buffer' = m_buffer /\ m_used' = m_used /\ m_free' = m_free /\ size' = size /\ mem' = mem
        /\ received' = received
    BY <1>2 DEF data_consumed, heapVars
  <2>3. m_off' \in Nat /\ m_off \in Nat /\ m_off' >= m_off /\ m_off' <= m_used
    BY <1>1, <2>1 DEF TypeOK
  <2>4. \A i \in m_off'..(m_used - 1) : i \in m_off..(m_used - 1)
    BY <1>1, <2>3 DEF TypeOK
  <2>5. QED
    BY <1>1, <2>1, <2>2, <2>3, <2>4 DEF DataIntact
<1>3. ASSUME NEW len \in Lens, reserve_buffer(len) PROVE DataIntact'
  <2>1. m_buffer' = m_buffer /\ size' = size /\ mem' = mem /\ received' = received
    BY <1>3 DEF reserve_buffer, heapVars
  <2>2. CASE UNCHANGED <<m_used, m_free, m_off>>
    BY <1>1, <2>1, <2>2 DEF DataIntact
  <2>3. CASE m_free' = m_free + m_used - Header /\ m_used' = Header /\ m_off' = Header
    <3>1. m_buffer # None /\ Header <= m_used /\ Header \in Nat /\ m_used \in Nat /\ m_free \in Nat
          /\ m_used + m_free = size[m_buffer]
      BY <1>1, <1>3, BufferAssumption DEF reserve_buffer, Ready, DataIntact, CallsOK, TypeOK
    <3>2. m_off' <= m_used' /\ m_free' >= 0 /\ m_used' + m_free' = size'[m_buffer']
      BY <2>1, <2>3, <3>1
    <3>3. \A i \in m_off'..(m_used' - 1) : FALSE
      BY <2>3, <3>1
    <3>4. QED
      BY <3>2, <3>3 DEF DataIntact
  <2>4. QED
    BY <1>3, <2>2, <2>3 DEF reserve_buffer
<1>4. CASE UNCHANGED <<m_buffer, m_used, m_free, m_off, size, mem, received>>
  BY <1>1, <1>4 DEF DataIntact
<1>5. ASSUME ExpandFails \/ Finished PROVE DataIntact'
  BY <1>4, <1>5 DEF ExpandFails, Finished, ownVars, heapVars, vars
<1>6. ASSUME NEW r \in Refs, retain_to(r) \/ retain(r) \/ clear(r) PROVE DataIntact'
  BY <1>4, <1>6 DEF retain_to, retain, clear, ownVars, heapVars
<1>7. ASSUME NEW r \in Refs, NEW s \in Refs, swap(r, s) PROVE DataIntact'
  BY <1>4, <1>7 DEF swap, ownVars, heapVars
<1>8. ASSUME Destroy PROVE DataIntact'
  BY <1>8 DEF Destroy, DataIntact
<1>9. ASSUME NEW o \in Refs \cup {MRef}, each_decr(o) PROVE DataIntact'
  <2>1. UNCHANGED <<m_buffer, m_used, m_free, m_off, mem, received>>
    BY <1>9 DEF each_decr, ownVars
  <2>2. CASE size' = size
    BY <1>4, <2>1, <2>2
  <2>3. ASSUME NEW b \in m_array[o], decr_count(b) PROVE DataIntact'
    <3>1. b \in Blocks /\ o \in Holders(b) /\ o # MBuf
      BY <1>1, <2>3, HoldersMember, BufferAssumption DEF TypeOK
    <3>2. CASE b = m_buffer
      <4>1. MBuf \in Holders(b)
        BY <3>2, HoldersMember
      <4>2. size' = size
        BY <2>3, <3>1, <4>1, NotFreed
      <4>3. QED
        BY <2>2, <4>2
    <3>3. CASE b # m_buffer
      <4>1. m_buffer # None => size'[m_buffer] = size[m_buffer]
        BY <1>1, <2>3, <3>1, <3>3 DEF decr_count, TypeOK
      <4>2. QED
        BY <1>1, <2>1, <4>1 DEF DataIntact
    <3>4. QED
      BY <3>2, <3>3
  <2>4. QED
    BY <1>9, <2>2, <2>3 DEF each_decr, heapVars
<1>10. QED
  BY <1>2, <1>3, <1>5, <1>6, <1>7, <1>8, <1>9, DataFilled, DataInPlace, DataElsewhere
     DEF Next, BufferStep, RefStep

-----------------------------------------------------------------------------
(* Pointers.                                                               *)

Undisturbed(b) == size'[b] = size[b] /\ mem'[b] = mem[b]

(* The pointer of a ref. *)
LEMMA HeldFacts ==
  ASSUME BufferInv, NEW r \in Refs, NEW p \in held[r]
  PROVE  /\ p \in Pointer /\ p.blk \in Blocks /\ p.off \in Nat /\ r \notin clearing
         /\ p.blk \in m_array[r] /\ Kept(p) /\ InParsedPart(p) /\ r \in Holders(p.blk)
         /\ size[p.blk] # 0 /\ r # MBuf /\ r # MRef /\ p.blk # None
<1>1. p \in Pointer /\ TypeOK /\ HeldOK
  BY DEF BufferInv, TypeOK
<1>2. p.blk \in Blocks /\ p.off \in Nat
  BY <1>1 DEF Pointer
<1>3. r \notin clearing /\ p.blk \in m_array[r] /\ Kept(p) /\ InParsedPart(p)
  BY <1>1 DEF HeldOK
<1>4. size[p.blk] # 0
  BY <1>1, <1>2, <1>3 DEF Kept, TypeOK
<1>5. r \in Holders(p.blk)
  BY <1>3, HoldersMember
<1>6. QED
  BY <1>1, <1>2, <1>3, <1>4, <1>5, BufferAssumption

(* A pointer to parsed data. *)
LEMMA ParsedFacts ==
  ASSUME BufferInv, NEW p \in parsed
  PROVE  /\ p \in Pointer /\ p.blk \in Blocks /\ p.off \in Nat /\ MRef \notin clearing
         /\ m_buffer # None /\ Kept(p) /\ InParsedPart(p) /\ size[p.blk] # 0
         /\ p.blk = m_buffer \/ p.blk \in m_array[MRef]
<1>1. p \in Pointer /\ TypeOK /\ ParsedOK
  BY DEF BufferInv, TypeOK
<1>2. p.blk \in Blocks /\ p.off \in Nat
  BY <1>1 DEF Pointer
<1>3. /\ MRef \notin clearing /\ m_buffer # None /\ Kept(p) /\ InParsedPart(p)
      /\ p.blk = m_buffer \/ p.blk \in m_array[MRef]
  BY <1>1 DEF ParsedOK
<1>4. size[p.blk] # 0
  BY <1>1, <1>2, <1>3 DEF Kept, TypeOK
<1>5. QED
  BY <1>1, <1>2, <1>3, <1>4

(* Nobody points into a block whose counter is one but the parser. *)
LEMMA AloneUnheld ==
  ASSUME BufferInv, m_buffer # None, count[m_buffer] = 1, NEW r \in Refs, NEW p \in held[r]
  PROVE  p.blk # m_buffer
<1>1. SUFFICES ASSUME p.blk = m_buffer PROVE FALSE
  OBVIOUS
<1>2. PICK b \in Blocks : b = m_buffer
  BY DEF BufferInv, TypeOK
<1>3. r \in Holders(b) /\ r # MBuf
  BY <1>1, <1>2, HeldFacts
<1>4. MBuf \in Holders(b)
  BY <1>2, HoldersMember
<1>5. count[b] >= 2
  BY <1>3, <1>4, HolderKeeps
<1>6. QED
  BY <1>2, <1>5

(* read and buffer_filled write behind the data that was parsed. *)
LEMMA FilledKept ==
  ASSUME BufferInv, NEW n \in 1..MaxBytes, buffer_filled(n),
         NEW p \in Pointer, Kept(p), InParsedPart(p)
  PROVE  Kept(p)' /\ InParsedPart(p)'
<1>1. TypeOK /\ DataIntact /\ CallsOK
  BY DEF BufferInv
<1>2. PICK mb \in Blocks : mb = m_buffer
  BY <1>1 DEF buffer_filled, Ready, TypeOK
<1>3. size' = size /\ m_off' = m_off /\ m_buffer' = m_buffer
  BY DEF buffer_filled, heapVars
<1>4. p.blk \in Blocks /\ p.off \in Nat
  BY DEF Pointer
<1>5. CASE p.blk = mb
  <2>1. p.off < m_off /\ m_off <= m_used /\ m_off \in Nat /\ m_used \in Nat
    BY <1>1, <1>2, <1>5, BufferAssumption DEF InParsedPart, DataIntact, TypeOK
  <2>2. p.off \in Offsets
    BY <1>1, <1>4, BufferAssumption DEF Kept, CallsOK, TypeOK, Offsets
  <2>3. mem'[mb][p.off] = IF m_used <= p.off /\ p.off < m_used + n
                          THEN received + 1 + p.off - m_used ELSE mem[mb][p.off]
    BY <1>1, <1>2, <2>2 DEF buffer_filled, TypeOK
  <2>4. mem'[mb][p.off] = mem[mb][p.off]
    BY <1>4, <2>1, <2>3
  <2>5. QED
    BY <1>3, <1>5, <2>4 DEF Kept, InParsedPart
<1>6. CASE p.blk # mb
  <2>1. mem'[p.blk] = mem[p.blk]
    BY <1>1, <1>2, <1>4, <1>6 DEF buffer_filled, TypeOK
  <2>2. QED
    BY <1>3, <2>1 DEF Kept, InParsedPart
<1>7. QED
  BY <1>5, <1>6

(* A pointer into a block that the step does not touch. *)
LEMMA UndisturbedKept ==
  ASSUME NEW p, Kept(p), Undisturbed(p.blk)
  PROVE  Kept(p)'
BY DEF Kept, Undisturbed

(* expand_buffer touches the current block, when its counter is one, and a *)
(* free one.                                                               *)
LEMMA InPlaceTouches ==
  ASSUME BufferInv, ExpandInPlace, NEW c \in Blocks, c # m_buffer, size[c] # 0
  PROVE  Undisturbed(c) /\ c # m_buffer'
<1>1. TypeOK
  BY DEF BufferInv
<1>2. PICK b \in {m_buffer} \cup {d \in Blocks : size[d] = 0},
           next \in Doubled(m_used + m_free, want + m_used) :
        /\ m_buffer' = b
        /\ size' = [d \in Blocks |-> IF d = b THEN next ELSE IF d = m_buffer THEN 0 ELSE size[d]]
        /\ mem' = [mem EXCEPT ![b] = mem[m_buffer]]
  BY DEF ExpandInPlace
<1>3. c # b
  BY <1>2
<1>4. QED
  BY <1>1, <1>2, <1>3 DEF Undisturbed, TypeOK

(* Otherwise a free one only. *)
LEMMA ElsewhereTouches ==
  ASSUME BufferInv, ExpandElsewhere, NEW c \in Blocks, size[c] # 0
  PROVE  Undisturbed(c) /\ c # m_buffer'
<1>1. TypeOK
  BY DEF BufferInv
<1>2. PICK b \in {d \in Blocks : size[d] = 0}, next \in Doubled(Larger(InitSize, Header), NeedIn) :
        /\ m_buffer' = b
        /\ size' = [size EXCEPT ![b] = next]
        /\ mem' = [mem EXCEPT ![b] = Copied(b)]
  BY DEF ExpandElsewhere
<1>3. c # b
  BY <1>2
<1>4. QED
  BY <1>1, <1>2, <1>3 DEF Undisturbed, TypeOK

(* decr_count frees no block that another holder has. *)
LEMMA DecrTouches ==
  ASSUME BufferInv, NEW b \in Blocks, NEW o \in Holders(b), decr_count(b), mem' = mem,
         NEW c \in Blocks, NEW h \in Holders(c), h # o
  PROVE  Undisturbed(c)
<1>1. CASE c = b
  <2>1. size' = size
    BY <1>1, NotFreed
  <2>2. QED
    BY <2>1 DEF Undisturbed
<1>2. CASE c # b
  <2>1. size \in [Blocks -> Nat]
    BY DEF BufferInv, TypeOK
  <2>2. QED
    BY <1>2, <2>1 DEF decr_count, Undisturbed
<1>3. QED
  BY <1>1, <1>2

(* Every step keeps what the refs hold. *)
LEMMA HeldKept ==
  ASSUME BufferInv, Next
  PROVE  HeldOK'
<1>1. TypeOK /\ DataIntact /\ CallsOK /\ HeldOK
  BY DEF BufferInv
<1>2. CASE /\ UNCHANGED <<m_buffer, m_array, size, mem, held>> /\ clearing' \subseteq clearing
           /\ m_off' >= m_off /\ m_off' \in Nat
  <2>1. ASSUME NEW r \in Refs, NEW p \in held[r] PROVE Kept(p)' /\ InParsedPart(p)'
    <3>1. Kept(p) /\ InParsedPart(p) /\ p.off \in Nat
      BY <2>1, HeldFacts
    <3>2. QED
      BY <1>1, <1>2, <3>1 DEF Kept, InParsedPart, TypeOK
  <2>2. QED
    BY <1>1, <1>2, <2>1 DEF HeldOK
<1>3. ASSUME NEW n \in 1..MaxBytes, buffer_filled(n) PROVE HeldOK'
  <2>1. UNCHANGED <<m_array, clearing, held>>
    BY <1>3 DEF buffer_filled, refVars
  <2>2. ASSUME NEW r \in Refs, NEW p \in held[r] PROVE Kept(p)' /\ InParsedPart(p)'
    BY <1>3, <2>2, HeldFacts, FilledKept
  <2>3. QED
    BY <1>1, <2>1, <2>2 DEF HeldOK
<1>4. ASSUME NEW n \in 1..MaxBytes, data_consumed(n) PROVE HeldOK'
  <2>1. m_off' >= m_off /\ m_off' \in Nat
    BY <1>1, <1>4 DEF data_consumed, TypeOK
  <2>2. QED
    BY <1>2, <1>4, <2>1 DEF data_consumed, refVars, heapVars
<1>5. ASSUME NEW len \in Lens, reserve_buffer(len) PROVE HeldOK'
  <2>1. UNCHANGED <<m_buffer, m_array, size, mem, held, clearing>> /\ m_buffer # None
    BY <1>5 DEF reserve_buffer, refVars, heapVars, Ready
  <2>2. CASE Rewindable
    <3>1. ASSUME NEW r \in Refs, NEW p \in held[r] PROVE Kept(p)' /\ InParsedPart(p)'
      <4>1. Kept(p) /\ p.blk # m_buffer
        BY <2>1, <2>2, <3>1, HeldFacts, AloneUnheld DEF Rewindable
      <4>2. QED
        BY <2>1, <4>1 DEF Kept, InParsedPart
    <3>2. QED
      BY <1>1, <2>1, <3>1 DEF HeldOK
  <2>3. CASE ~Rewindable
    BY <1>1, <1>2, <1>5, <2>1, <2>3 DEF reserve_buffer, TypeOK
  <2>4. QED
    BY <2>2, <2>3
<1>6. ASSUME ExpandInPlace PROVE HeldOK'
  <2>1. UNCHANGED <<m_array, clearing, held>> /\ m_buffer # None /\ count[m_buffer] = 1
    BY <1>1, <1>6 DEF ExpandInPlace, refVars, CallsOK
  <2>2. ASSUME NEW r \in Refs, NEW p \in held[r] PROVE Kept(p)' /\ InParsedPart(p)'
    <3>1. Kept(p) /\ p.blk \in Blocks /\ size[p.blk] # 0
      BY <2>2, HeldFacts
    <3>2. p.blk # m_buffer
      BY <2>1, <2>2, AloneUnheld
    <3>3. Undisturbed(p.blk) /\ p.blk # m_buffer'
      BY <1>6, <3>1, <3>2, InPlaceTouches
    <3>4. Kept(p)'
      BY <3>1, <3>3, UndisturbedKept
    <3>5. QED
      BY <3>3, <3>4 DEF InParsedPart
  <2>3. QED
    BY <1>1, <2>1, <2>2 DEF HeldOK
<1>7. ASSUME ExpandElsewhere PROVE HeldOK'
  <2>1. UNCHANGED <<clearing, held>> /\ m_array' = Moved
    BY <1>7 DEF ExpandElsewhere
  <2>2. \A r \in Refs : m_array'[r] = m_array[r]
    BY <1>1, <2>1, BufferAssumption DEF Moved, TypeOK
  <2>3. ASSUME NEW r \in Refs, NEW p \in held[r] PROVE Kept(p)' /\ InParsedPart(p)'
    <3>1. Kept(p) /\ p.blk \in Blocks /\ size[p.blk] # 0
      BY <2>3, HeldFacts
    <3>2. Undisturbed(p.blk) /\ p.blk # m_buffer'
      BY <1>7, <3>1, ElsewhereTouches
    <3>3. Kept(p)'
      BY <3>1, <3>2, UndisturbedKept
    <3>4. QED
      BY <3>2, <3>3 DEF InParsedPart
  <2>4. QED
    BY <1>1, <2>1, <2>2, <2>3 DEF HeldOK
<1>8. ASSUME NEW r \in Refs, retain_to(r) PROVE HeldOK'
  <2>1. /\ UNCHANGED <<m_buffer, m_off, size, mem>> /\ clearing' = clearing \cup {MRef}
        /\ r \notin clearing /\ r # MRef
    BY <1>8, BufferAssumption DEF retain_to
  <2>2. /\ m_array'[r] = m_array[MRef] \cup {m_buffer} /\ held'[r] = parsed
        /\ \A s \in Refs : s # r => m_array'[s] = m_array[s] /\ held'[s] = held[s]
    <3>1. m_array' = [m_array EXCEPT ![r] = m_array[MRef] \cup {m_buffer}, ![MRef] = m_array[r]]
          /\ held' = [held EXCEPT ![r] = parsed]
      BY <1>8 DEF retain_to
    <3>2. \A s \in Refs : s # MRef /\ s \in DOMAIN m_array /\ s \in DOMAIN held
      BY <1>1, BufferAssumption DEF TypeOK
    <3>3. m_array'[r] = m_array[MRef] \cup {m_buffer} /\ \A s \in Refs : s # r => m_array'[s] = m_array[s]
      BY <3>1, <3>2, <2>1
    <3>4. held'[r] = parsed /\ \A s \in Refs : s # r => held'[s] = held[s]
      BY <3>1, <3>2
    <3>5. QED
      BY <3>3, <3>4
  <2>3. ASSUME NEW p \in parsed PROVE p.blk \in m_array'[r] /\ Kept(p)' /\ InParsedPart(p)'
    <3>1. Kept(p) /\ InParsedPart(p) /\ (p.blk = m_buffer \/ p.blk \in m_array[MRef])
      BY <2>3, ParsedFacts
    <3>2. QED
      BY <2>1, <2>2, <3>1 DEF Kept, InParsedPart
  <2>4. ASSUME NEW s \in Refs, s # r, NEW p \in held[s]
        PROVE  s \notin clearing' /\ p.blk \in m_array'[s] /\ Kept(p)' /\ InParsedPart(p)'
    <3>1. Kept(p) /\ InParsedPart(p) /\ p.blk \in m_array[s] /\ s \notin clearing /\ s # MRef
      BY <2>4, HeldFacts
    <3>2. QED
      BY <2>1, <2>2, <2>4, <3>1 DEF Kept, InParsedPart
  <2>5. QED
    BY <2>1, <2>2, <2>3, <2>4 DEF HeldOK
<1>9. ASSUME NEW r \in Refs, retain(r) PROVE HeldOK'
  <2>1. UNCHANGED <<m_buffer, m_off, size, mem, clearing>> /\ r \notin clearing /\ r # MRef
    BY <1>9, BufferAssumption DEF retain, heapVars
  <2>2. /\ m_array'[r] = m_array[MRef] /\ held'[r] = {p \in parsed : p.blk # m_buffer}
        /\ \A s \in Refs : s # r => m_array'[s] = m_array[s] /\ held'[s] = held[s]
    <3>1. m_array' = [m_array EXCEPT ![r] = m_array[MRef], ![MRef] = {}]
          /\ held' = [held EXCEPT ![r] = {p \in parsed : p.blk # m_buffer}]
      BY <1>9 DEF retain
    <3>2. \A s \in Refs : s # MRef /\ s \in DOMAIN m_array /\ s \in DOMAIN held
      BY <1>1, BufferAssumption DEF TypeOK
    <3>3. m_array'[r] = m_array[MRef] /\ \A s \in Refs : s # r => m_array'[s] = m_array[s]
      BY <3>1, <3>2, <2>1
    <3>4. held'[r] = {p \in parsed : p.blk # m_buffer} /\ \A s \in Refs : s # r => held'[s] = held[s]
      BY <3>1, <3>2
    <3>5. QED
      BY <3>3, <3>4
  <2>3. ASSUME NEW p \in held'[r] PROVE p.blk \in m_array'[r] /\ Kept(p)' /\ InParsedPart(p)'
    <3>1. p \in parsed /\ p.blk # m_buffer
      BY <2>2, <2>3
    <3>2. Kept(p) /\ (p.blk = m_buffer \/ p.blk \in m_array[MRef])
      BY <3>1, ParsedFacts
    <3>3. QED
      BY <2>1, <2>2, <3>1, <3>2 DEF Kept, InParsedPart
  <2>4. ASSUME NEW s \in Refs, s # r, NEW p \in held[s]
        PROVE  s \notin clearing' /\ p.blk \in m_array'[s] /\ Kept(p)' /\ InParsedPart(p)'
    <3>1. Kept(p) /\ InParsedPart(p) /\ p.blk \in m_array[s] /\ s \notin clearing
      BY <2>4, HeldFacts
    <3>2. QED
      BY <2>1, <2>2, <2>4, <3>1 DEF Kept, InParsedPart
  <2>5. QED
    BY <2>1, <2>2, <2>3, <2>4 DEF HeldOK
<1>10. ASSUME Destroy PROVE HeldOK'
  <2>1. /\ UNCHANGED <<m_array, mem, held>> /\ clearing' = clearing \cup {MRef}
        /\ m_buffer # None /\ m_buffer' = None /\ decr_count(m_buffer) /\ mem' = mem
    BY <1>10 DEF Destroy, Ready
  <2>2. m_buffer \in Blocks /\ MBuf \in Holders(m_buffer)
    BY <1>1, <2>1, HoldersMember DEF TypeOK
  <2>3. ASSUME NEW r \in Refs, NEW p \in held[r]
        PROVE  r \notin clearing' /\ p.blk \in m_array'[r] /\ Kept(p)' /\ InParsedPart(p)'
    <3>1. /\ p.blk \in Blocks /\ r \notin clearing /\ p.blk \in m_array[r] /\ Kept(p)
          /\ r \in Holders(p.blk) /\ r # MBuf /\ r # MRef /\ p.blk # None
      BY <2>3, HeldFacts
    <3>2. Undisturbed(p.blk)
      BY <2>1, <2>2, <3>1, DecrTouches
    <3>3. Kept(p)'
      BY <3>1, <3>2, UndisturbedKept
    <3>4. QED
      BY <2>1, <3>1, <3>3 DEF InParsedPart
  <2>4. QED
    BY <2>1, <2>3 DEF HeldOK
<1>11. ASSUME NEW r \in Refs, clear(r) PROVE HeldOK'
  <2>1. UNCHANGED <<m_buffer, m_off, m_array, size, mem>> /\ clearing' = clearing \cup {r}
    BY <1>11 DEF clear, ownVars, heapVars
  <2>2. held'[r] = {} /\ \A s \in Refs : s # r => held'[s] = held[s]
    BY <1>1, <1>11 DEF clear, TypeOK
  <2>3. ASSUME NEW s \in Refs, NEW p \in held'[s]
        PROVE  s \notin clearing' /\ p.blk \in m_array'[s] /\ Kept(p)' /\ InParsedPart(p)'
    <3>1. s # r /\ p \in held[s]
      BY <2>2, <2>3
    <3>2. Kept(p) /\ InParsedPart(p) /\ p.blk \in m_array[s] /\ s \notin clearing
      BY <3>1, HeldFacts
    <3>3. QED
      BY <2>1, <3>1, <3>2 DEF Kept, InParsedPart
  <2>4. QED
    BY <2>3 DEF HeldOK
<1>12. ASSUME NEW o \in Refs \cup {MRef}, each_decr(o) PROVE HeldOK'
  <2>1. UNCHANGED <<m_buffer, m_off, mem, held>> /\ o \in clearing
    BY <1>12 DEF each_decr, ownVars
  <2>2. CASE UNCHANGED <<m_array, heapVars>> /\ clearing' = clearing \ {o}
    BY <1>1, <1>2, <2>1, <2>2 DEF TypeOK, heapVars
  <2>3. ASSUME NEW b \in m_array[o], decr_count(b), m_array' = [m_array EXCEPT ![o] = @ \ {b}],
               UNCHANGED clearing
        PROVE  HeldOK'
    <3>1. b \in Blocks /\ o \in Holders(b)
      BY <1>1, <2>3, HoldersMember DEF TypeOK
    <3>2. ASSUME NEW r \in Refs, NEW p \in held[r]
          PROVE  r \notin clearing' /\ p.blk \in m_array'[r] /\ Kept(p)' /\ InParsedPart(p)'
      <4>1. /\ p.blk \in Blocks /\ r \notin clearing /\ p.blk \in m_array[r] /\ Kept(p)
            /\ r \in Holders(p.blk) /\ InParsedPart(p)
        BY <3>2, HeldFacts
      <4>2. r # o /\ m_array'[r] = m_array[r]
        BY <1>1, <2>1, <2>3, <4>1 DEF TypeOK
      <4>3. Undisturbed(p.blk)
        BY <2>1, <2>3, <3>1, <4>1, <4>2, DecrTouches
      <4>4. Kept(p)'
        BY <4>1, <4>3, UndisturbedKept
      <4>5. QED
        BY <2>1, <2>3, <4>1, <4>2, <4>4 DEF InParsedPart
    <3>3. QED
      BY <2>1, <3>2 DEF HeldOK
  <2>4. QED
    BY <1>12, <2>2, <2>3 DEF each_decr
<1>13. ASSUME NEW r \in Refs, NEW s \in Refs, swap(r, s) PROVE HeldOK'
  <2>1. UNCHANGED <<m_buffer, m_off, clearing, size, mem>> /\ r \notin clearing /\ s \notin clearing /\ r # s
    BY <1>13 DEF swap, ownVars, heapVars
  <2>2. /\ m_array'[r] = m_array[s] /\ held'[r] = held[s]
        /\ m_array'[s] = m_array[r] /\ held'[s] = held[r]
        /\ \A u \in Refs : u # r /\ u # s => m_array'[u] = m_array[u] /\ held'[u] = held[u]
    BY <1>1, <1>13, <2>1 DEF swap, TypeOK
  <2>3. ASSUME NEW u \in Refs, NEW p \in held'[u]
        PROVE  u \notin clearing' /\ p.blk \in m_array'[u] /\ Kept(p)' /\ InParsedPart(p)'
    <3>1. PICK v \in Refs : p \in held[v] /\ m_array'[u] = m_array[v]
      BY <2>2, <2>3
    <3>2. Kept(p) /\ InParsedPart(p) /\ p.blk \in m_array[v]
      BY <3>1, HeldFacts
    <3>3. u \notin clearing
      BY <2>1, <2>2, <2>3, HeldFacts
    <3>4. QED
      BY <2>1, <3>1, <3>2, <3>3 DEF Kept, InParsedPart
  <2>4. QED
    BY <2>3 DEF HeldOK
<1>14. ASSUME ExpandFails \/ Finished PROVE HeldOK'
  BY <1>1, <1>2, <1>14 DEF ExpandFails, Finished, ownVars, refVars, heapVars, vars, TypeOK
<1>15. QED
  BY <1>3, <1>4, <1>5, <1>6, <1>7, <1>8, <1>9, <1>10, <1>11, <1>12, <1>13, <1>14
     DEF Next, BufferStep, RefStep

(* Every step keeps what was parsed and not retained. *)
LEMMA ParsedKept ==
  ASSUME BufferInv, Next
  PROVE  ParsedOK'
<1>1. TypeOK /\ DataIntact /\ CallsOK /\ ParsedOK
  BY DEF BufferInv
<1>2. CASE /\ UNCHANGED <<m_buffer, size, mem>> /\ parsed' \subseteq parsed
           /\ m_array'[MRef] = m_array[MRef] /\ (MRef \in clearing' => MRef \in clearing)
           /\ m_off' >= m_off /\ m_off' \in Nat
  <2>1. ASSUME NEW p \in parsed PROVE Kept(p)' /\ InParsedPart(p)'
    <3>1. Kept(p) /\ InParsedPart(p) /\ p.off \in Nat
      BY <2>1, ParsedFacts
    <3>2. QED
      BY <1>1, <1>2, <3>1 DEF Kept, InParsedPart, TypeOK
  <2>2. QED
    BY <1>1, <1>2, <2>1 DEF ParsedOK
<1>3. ASSUME NEW n \in 1..MaxBytes, buffer_filled(n) PROVE ParsedOK'
  <2>1. UNCHANGED <<m_array, clearing, parsed, m_buffer>>
    BY <1>3 DEF buffer_filled, refVars
  <2>2. ASSUME NEW p \in parsed PROVE Kept(p)' /\ InParsedPart(p)'
    BY <1>3, <2>2, ParsedFacts, FilledKept
  <2>3. QED
    BY <1>1, <2>1, <2>2 DEF ParsedOK
<1>4. ASSUME NEW n \in 1..MaxBytes, data_consumed(n) PROVE ParsedOK'
  <2>1. /\ UNCHANGED <<m_buffer, m_array, clearing, size, mem>> /\ MRef \notin clearing
        /\ m_buffer # None /\ m_off' = m_off + n /\ n <= m_used - m_off
    BY <1>4 DEF data_consumed, refVars, heapVars, Ready
  <2>2. ASSUME NEW p \in parsed
        PROVE  /\ MRef \notin clearing' /\ m_buffer' # None /\ Kept(p)' /\ InParsedPart(p)'
               /\ p.blk = m_buffer' \/ p.blk \in m_array'[MRef]
    <3>1. /\ Kept(p) /\ InParsedPart(p) /\ p.off \in Nat
          /\ p.blk = m_buffer \/ p.blk \in m_array[MRef]
      BY <2>2, ParsedFacts
    <3>2. InParsedPart(p)'
      BY <1>1, <2>1, <3>1 DEF InParsedPart, TypeOK
    <3>3. QED
      BY <2>1, <3>1, <3>2 DEF Kept
  <2>3. ASSUME NEW i \in m_off..(m_off + n - 1), NEW p, p = At(m_buffer, i, mem[m_buffer][i])
        PROVE  /\ MRef \notin clearing' /\ m_buffer' # None /\ Kept(p)' /\ InParsedPart(p)'
               /\ p.blk = m_buffer' \/ p.blk \in m_array'[MRef]
    <3>1. p.blk = m_buffer /\ p.off = i /\ p.byte = mem[m_buffer][i]
      BY <2>3 DEF At
    <3>2. /\ Header <= m_off /\ m_used + m_free = size[m_buffer] /\ m_off \in Nat /\ m_used \in Nat
          /\ m_free \in Nat /\ Header \in Nat
      BY <1>1, <2>1, BufferAssumption DEF DataIntact, CallsOK, TypeOK
    <3>3. Header <= i /\ i < m_off' /\ size[m_buffer] > i
      BY <2>1, <3>2
    <3>4. QED
      BY <2>1, <3>1, <3>3 DEF Kept, InParsedPart
  <2>4. parsed' = parsed \cup {At(m_buffer, i, mem[m_buffer][i]) : i \in m_off..(m_off + n - 1)}
    BY <1>4 DEF data_consumed
  <2>5. QED
    BY <2>2, <2>3, <2>4 DEF ParsedOK
<1>5. ASSUME NEW len \in Lens, reserve_buffer(len) PROVE ParsedOK'
  <2>1. UNCHANGED <<m_buffer, m_array, size, mem, clearing>> /\ m_buffer # None
    BY <1>5 DEF reserve_buffer, refVars, heapVars, Ready
  <2>2. CASE Rewindable
    <3>1. parsed' = {p \in parsed : p.blk # m_buffer}
      BY <1>5, <2>2 DEF reserve_buffer
    <3>2. ASSUME NEW p \in parsed, p.blk # m_buffer PROVE Kept(p)' /\ InParsedPart(p)'
      <4>1. Kept(p)
        BY <3>2, ParsedFacts
      <4>2. QED
        BY <2>1, <3>2, <4>1 DEF Kept, InParsedPart
    <3>3. QED
      BY <1>1, <2>1, <3>1, <3>2 DEF ParsedOK
  <2>3. CASE ~Rewindable
    BY <1>1, <1>2, <1>5, <2>1, <2>3 DEF reserve_buffer, TypeOK
  <2>4. QED
    BY <2>2, <2>3
<1>6. ASSUME ExpandInPlace PROVE ParsedOK'
  <2>1. UNCHANGED <<m_array, clearing, parsed>> /\ m_buffer # None /\ m_off = Header
    BY <1>1, <1>6 DEF ExpandInPlace, refVars, CallsOK
  <2>2. m_buffer' # None
    <3>1. PICK b \in {m_buffer} \cup {d \in Blocks : size[d] = 0} : m_buffer' = b
      BY <1>6 DEF ExpandInPlace
    <3>2. QED
      BY <2>1, <3>1, BufferAssumption
  <2>3. ASSUME NEW p \in parsed
        PROVE  p.blk \in m_array[MRef] /\ Kept(p)' /\ InParsedPart(p)'
    <3>1. /\ Kept(p) /\ p.blk \in Blocks /\ size[p.blk] # 0 /\ InParsedPart(p) /\ p.off \in Nat
          /\ p.blk = m_buffer \/ p.blk \in m_array[MRef]
      BY <2>3, ParsedFacts
    <3>2. p.blk # m_buffer
      BY <2>1, <3>1, BufferAssumption DEF InParsedPart
    <3>3. Undisturbed(p.blk) /\ p.blk # m_buffer'
      BY <1>6, <3>1, <3>2, InPlaceTouches
    <3>4. Kept(p)'
      BY <3>1, <3>3, UndisturbedKept
    <3>5. QED
      BY <3>1, <3>2, <3>3, <3>4 DEF InParsedPart
  <2>4. QED
    BY <1>1, <2>1, <2>2, <2>3 DEF ParsedOK
<1>7. ASSUME ExpandElsewhere PROVE ParsedOK'
  <2>1. UNCHANGED <<clearing, parsed>> /\ m_array' = Moved
    BY <1>7 DEF ExpandElsewhere
  <2>2. m_array'[MRef] = m_array[MRef] \cup {m_buffer}
    BY <1>1, <2>1 DEF Moved, TypeOK
  <2>3. m_buffer' # None
    <3>1. PICK b \in {d \in Blocks : size[d] = 0} : m_buffer' = b
      BY <1>7 DEF ExpandElsewhere
    <3>2. QED
      BY <3>1, BufferAssumption
  <2>4. ASSUME NEW p \in parsed PROVE p.blk \in m_array'[MRef] /\ Kept(p)' /\ InParsedPart(p)'
    <3>1. /\ Kept(p) /\ p.blk \in Blocks /\ size[p.blk] # 0
          /\ p.blk = m_buffer \/ p.blk \in m_array[MRef]
      BY <2>4, ParsedFacts
    <3>2. Undisturbed(p.blk) /\ p.blk # m_buffer'
      BY <1>7, <3>1, ElsewhereTouches
    <3>3. Kept(p)'
      BY <3>1, <3>2, UndisturbedKept
    <3>4. QED
      BY <2>2, <3>1, <3>2, <3>3 DEF InParsedPart
  <2>5. QED
    BY <1>1, <2>1, <2>3, <2>4 DEF ParsedOK
<1>8. ASSUME NEW r \in Refs, retain(r) PROVE ParsedOK'
  <2>1. /\ UNCHANGED <<m_buffer, m_off, size, mem, clearing>> /\ MRef \notin clearing
        /\ m_buffer # None /\ parsed' = {p \in parsed : p.blk = m_buffer}
    BY <1>8 DEF retain, heapVars, Ready
  <2>2. ASSUME NEW p \in parsed PROVE Kept(p)' /\ InParsedPart(p)'
    <3>1. Kept(p) /\ InParsedPart(p)
      BY <2>2, ParsedFacts
    <3>2. QED
      BY <2>1, <3>1 DEF Kept, InParsedPart
  <2>3. QED
    BY <2>1, <2>2 DEF ParsedOK
<1>9. ASSUME (\E r \in Refs : retain_to(r)) \/ Destroy PROVE ParsedOK'
  <2>1. parsed' = {}
    BY <1>9 DEF retain_to, Destroy
  <2>2. QED
    BY <2>1 DEF ParsedOK
<1>10. ASSUME NEW r \in Refs, clear(r) PROVE ParsedOK'
  BY <1>1, <1>2, <1>10, BufferAssumption DEF clear, ownVars, heapVars, TypeOK
<1>11. ASSUME NEW o \in Refs \cup {MRef}, each_decr(o) PROVE ParsedOK'
  <2>1. UNCHANGED <<m_buffer, m_off, mem, parsed>> /\ o \in clearing
    BY <1>11 DEF each_decr, ownVars
  <2>2. CASE UNCHANGED <<m_array, heapVars>> /\ clearing' = clearing \ {o}
    BY <1>1, <1>2, <2>1, <2>2 DEF TypeOK, heapVars
  <2>3. ASSUME NEW b \in m_array[o], decr_count(b), m_array' = [m_array EXCEPT ![o] = @ \ {b}],
               UNCHANGED clearing
        PROVE  ParsedOK'
    <3>1. b \in Blocks /\ o \in Holders(b) /\ o # MBuf
      BY <1>1, <2>3, HoldersMember, BufferAssumption DEF TypeOK
    <3>2. ASSUME NEW p \in parsed
          PROVE  /\ MRef \notin clearing' /\ m_buffer' # None /\ Kept(p)' /\ InParsedPart(p)'
                 /\ p.blk = m_buffer' \/ p.blk \in m_array'[MRef]
      <4>1. /\ p.blk \in Blocks /\ MRef \notin clearing /\ m_buffer # None /\ Kept(p)
            /\ InParsedPart(p) /\ (p.blk = m_buffer \/ p.blk \in m_array[MRef])
        BY <3>2, ParsedFacts
      <4>2. MRef # o
        BY <2>1, <4>1
      <4>3. m_array'[MRef] = m_array[MRef]
        BY <1>1, <2>3, <4>2 DEF TypeOK
      <4>4. PICK h \in Holders(p.blk) : h # o
        BY <3>1, <4>1, <4>2, HoldersMember
      <4>5. Undisturbed(p.blk)
        BY <2>1, <2>3, <3>1, <4>1, <4>4, DecrTouches
      <4>6. Kept(p)'
        BY <4>1, <4>5, UndisturbedKept
      <4>7. QED
        BY <2>1, <2>3, <4>1, <4>3, <4>6 DEF InParsedPart
    <3>3. QED
      BY <2>1, <3>2 DEF ParsedOK
  <2>4. QED
    BY <1>11, <2>2, <2>3 DEF each_decr
<1>12. ASSUME NEW r \in Refs, NEW s \in Refs, swap(r, s) PROVE ParsedOK'
  <2>1. m_array' = [m_array EXCEPT ![r] = m_array[s], ![s] = m_array[r]]
    BY <1>12 DEF swap
  <2>2. m_array'[MRef] = m_array[MRef]
    BY <1>1, <2>1, BufferAssumption DEF TypeOK
  <2>3. QED
    BY <1>1, <1>2, <1>12, <2>2 DEF swap, ownVars, heapVars, TypeOK
<1>13. ASSUME ExpandFails \/ Finished PROVE ParsedOK'
  BY <1>1, <1>2, <1>13 DEF ExpandFails, Finished, ownVars, refVars, heapVars, vars, TypeOK
<1>14. QED
  BY <1>3, <1>4, <1>5, <1>6, <1>7, <1>8, <1>9, <1>10, <1>11, <1>12, <1>13
     DEF Next, BufferStep, RefStep

-----------------------------------------------------------------------------
(* The theorems.                                                           *)

(* The constructor establishes the invariant. *)
LEMMA BufferInit ==
  ASSUME Init
  PROVE  BufferInv
<1>1. PICK sz \in Nat : sz = Larger(InitSize, Header) /\ sz <= MaxSize /\ sz >= Header /\ sz # 0
  BY BufferAssumption DEF Init, Larger
<1>2. /\ m_buffer \in Blocks /\ m_buffer # None /\ m_used = Header /\ m_free = sz - Header
      /\ m_off = Header /\ Header \in Nat
  BY <1>1, BufferAssumption DEF Init
<1>3. /\ m_array = [o \in Refs \cup {MRef} |-> {}] /\ clearing = {}
      /\ parsed = {} /\ held = [r \in Refs |-> {}]
  BY DEF Init
<1>4. /\ count = [b \in Blocks |-> IF b = m_buffer THEN 1 ELSE 0]
      /\ size = [b \in Blocks |-> IF b = m_buffer THEN sz ELSE 0]
  BY <1>1 DEF Init
<1>5. TypeOK
  <2>1. m_buffer \in Blocks \cup {None} /\ m_used \in Nat /\ m_free \in Nat /\ m_off \in Nat
    BY <1>1, <1>2
  <2>2. count \in [Blocks -> Int] /\ size \in [Blocks -> Nat]
    BY <1>1, <1>4
  <2>3. mem \in [Blocks -> [Offsets -> Nat]] /\ received \in Nat /\ pc \in {"idle", "expand"}
        /\ want \in Nat
    BY DEF Init
  <2>4. m_array \in [Refs \cup {MRef} -> SUBSET Blocks] /\ clearing \subseteq Refs \cup {MRef}
        /\ parsed \subseteq Pointer /\ held \in [Refs -> SUBSET Pointer]
    BY <1>3
  <2>5. QED
    BY <2>1, <2>2, <2>3, <2>4 DEF TypeOK
<1>6. CountExact
  <2>1. ASSUME NEW b \in Blocks
        PROVE  count[b] = Cardinality(Holders(b)) /\ (size[b] = 0 <=> count[b] = 0)
    <3>1. Holders(b) = IF b = m_buffer THEN {MBuf} ELSE {}
      BY <1>3 DEF Holders
    <3>2. Cardinality(Holders(b)) = IF b = m_buffer THEN 1 ELSE 0
      BY <3>1, FS_EmptySet, FS_Singleton
    <3>3. QED
      BY <1>1, <1>4, <3>2
  <2>2. QED
    BY <1>3, <2>1 DEF CountExact
<1>7. DataIntact
  <2>1. \A i \in m_off..(m_used - 1) : FALSE
    BY <1>2
  <2>2. m_off <= m_used /\ m_free >= 0 /\ m_used + m_free = size[m_buffer]
    BY <1>1, <1>2, <1>4
  <2>3. QED
    BY <2>1, <2>2 DEF DataIntact
<1>8. CallsOK
  BY <1>1, <1>2, <1>4, BufferAssumption DEF Init, CallsOK
<1>9. HeldOK /\ ParsedOK
  BY <1>3 DEF HeldOK, ParsedOK
<1>10. QED
  BY <1>5, <1>6, <1>7, <1>8, <1>9 DEF BufferInv

(* The inductive invariant holds, for any blocks, refs and sizes. *)
THEOREM BufferCorrect == Spec => []BufferInv
<1>1. Init => BufferInv
  BY BufferInit
<1>2. BufferInv /\ [Next]_vars => BufferInv'
  <2>1. ASSUME BufferInv, Next PROVE BufferInv'
    BY <2>1, TypesKept, CountKept, DataKept, HeldKept, ParsedKept DEF BufferInv
  <2>2. ASSUME BufferInv, UNCHANGED vars PROVE BufferInv'
    <3> USE <2>2 DEF vars, ownVars, refVars, heapVars, callVars, BufferInv
    <3>1. TypeOK'
      BY DEF TypeOK
    <3>2. CountExact'
      BY DEF CountExact, Holders
    <3>3. DataIntact' /\ CallsOK'
      BY DEF DataIntact, CallsOK
    <3>4. HeldOK' /\ ParsedOK'
      BY DEF HeldOK, ParsedOK, Kept, InParsedPart
    <3>5. QED
      BY <3>1, <3>2, <3>3, <3>4
  <2>3. QED
    BY <2>1, <2>2
<1>3. QED
  BY <1>1, <1>2, PTL DEF Spec

(* The counter in every block is the number of its holders and the block   *)
(* is allocated exactly while it has one, whatever order threads retain    *)
(* and drop it in.                                                         *)
THEOREM CountAlwaysExact == Spec => []CountExact
<1>1. BufferInv => CountExact
  BY DEF BufferInv
<1>2. QED
  BY <1>1, BufferCorrect, PTL

(* The unparsed data is what was received and not consumed, through every  *)
(* rewind, reallocation and move.                                          *)
THEOREM DataAlwaysIntact == Spec => []DataIntact
<1>1. BufferInv => DataIntact
  BY DEF BufferInv
<1>2. QED
  BY <1>1, BufferCorrect, PTL

(* What was parsed stays where it is, in blocks that have not been freed,  *)
(* until the ref that retains it is cleared or the block is rewound.       *)
THEOREM RetainedAlwaysIntact == Spec => []RetainedIntact
<1>1. BufferInv => RetainedIntact
  BY DEF BufferInv, HeldOK, ParsedOK, RetainedIntact
<1>2. QED
  BY <1>1, BufferCorrect, PTL

=============================================================================
