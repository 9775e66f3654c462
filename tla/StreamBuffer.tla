---------------------------- MODULE StreamBuffer ----------------------------
(***************************************************************************)
(* mp::stream_buffer (mp/stream_buffer.h): the input buffer of a handler.  *)
(* It fills a heap block from the socket, hands parts of it to a parser,   *)
(* and starts over at the beginning of the block, or in another block,     *)
(* when it needs space.  What was parsed stays where it is as long as a    *)
(* stream_buffer::ref holds the block: each block starts with a counter of *)
(* its holders, which are the stream_buffer (m_buffer), its member m_ref   *)
(* and the refs of the program.  Refs are dropped by any thread; all other *)
(* operations belong to the thread of the handler.                         *)
(*                                                                         *)
(* Bytes are named by their position in the input.  A pointer that the     *)
(* parser keeps is a record of the block, the offset and the byte that     *)
(* should be found there.  m_array of a ref is a set of blocks: the code   *)
(* inserts m_buffer into m_ref only, where it never is (CountExact).       *)
(***************************************************************************)
EXTENDS Integers, FiniteSets

CONSTANTS
  Blocks,       \* addresses that malloc may return
  Refs,         \* the refs of the program
  MRef, MBuf,   \* the holders m_ref and m_buffer
  None,
  Header,       \* sizeof(count_t)
  InitSize,     \* initial_buffer_size
  Lens,         \* arguments of reserve_buffer
  MaxSize,      \* bound: size of a block
  MaxBytes      \* bound: bytes received

ASSUME BufferAssumption ==
  /\ IsFiniteSet(Refs) /\ MRef \notin Refs /\ MBuf \notin Refs \cup {MRef}
  /\ None \notin Blocks
  /\ Header \in Nat \ {0} /\ InitSize \in Nat /\ Lens \subseteq Nat
  /\ MaxSize \in Nat /\ MaxBytes \in Nat

VARIABLES
  m_buffer, m_used, m_free, m_off,
  m_array,      \* per ref and for m_ref: the blocks held
  clearing,     \* the refs in the middle of clear()
  count, size,  \* per block: its counter; its size, 0 when it is free
  mem,          \* per block: the bytes in it
  received,     \* bytes filled in so far
  parsed,       \* pointers to data consumed and not yet retained
  held,         \* per ref: pointers it is meant to keep valid
  pc, want      \* inside reserve_buffer(want)?

ownVars == <<m_buffer, m_used, m_free, m_off, parsed>>
refVars == <<m_array, clearing, held>>
heapVars == <<count, size>>
callVars == <<pc, want>>
vars == <<ownVars, refVars, heapVars, mem, received, callVars>>

Offsets == 0..(MaxSize - 1)
Pointer == [blk : Blocks, off : Nat, byte : Nat]
At(b, i, n) == [blk |-> b, off |-> i, byte |-> n]

Larger(m, n) == IF m < n THEN n ELSE m

(* while(next_size < need) { next_size *= 2; }, up to MaxSize. *)
Doubled(s, need) ==
  {n \in 0..MaxSize :
     /\ n >= need /\ \E k \in 0..MaxSize : n = s * 2^k
     /\ \A k \in 0..MaxSize : s * 2^k >= need => n <= s * 2^k}

(* decr_count frees the block when it was the last holder's. *)
decr_count(b) ==
  /\ count' = [count EXCEPT ![b] = @ - 1]
  /\ size' = IF count[b] = 1 THEN [size EXCEPT ![b] = 0] ELSE size

-----------------------------------------------------------------------------
(* The stream_buffer.                                                      *)

(* The handler is not inside another call. *)
Ready == pc = "idle" /\ m_buffer # None /\ MRef \notin clearing

(* read(fd, buffer(), buffer_capacity()), then buffer_filled(n). *)
buffer_filled(n) ==
  /\ Ready /\ n <= m_free /\ received + n <= MaxBytes
  /\ mem' = [mem EXCEPT ![m_buffer] =
               [i \in Offsets |-> IF m_used <= i /\ i < m_used + n
                                  THEN received + 1 + i - m_used ELSE @[i]]]
  /\ m_used' = m_used + n /\ m_free' = m_free - n
  /\ received' = received + n
  /\ UNCHANGED <<m_buffer, m_off, parsed, refVars, heapVars, callVars>>

(* The parser takes n bytes at data() and keeps pointers to them. *)
data_consumed(n) ==
  /\ Ready /\ n <= m_used - m_off
  /\ parsed' = parsed \cup {At(m_buffer, i, mem[m_buffer][i]) : i \in m_off..(m_off + n - 1)}
  /\ m_off' = m_off + n
  /\ UNCHANGED <<m_buffer, m_used, m_free, refVars, heapVars, mem, received, callVars>>

(* Mutant of Rewindable: the counter is not read. *)
Rewindable_always == m_used = m_off

Rewindable == m_used = m_off /\ count[m_buffer] = 1

(* reserve_buffer: a rewind voids the pointers into the block that were    *)
(* not retained.                                                           *)
reserve_buffer(len) ==
  /\ Ready
  /\ IF Rewindable
     THEN /\ m_free' = m_free + m_used - Header
          /\ m_used' = Header /\ m_off' = Header
          /\ parsed' = {p \in parsed : p.blk # m_buffer}
     ELSE UNCHANGED <<m_used, m_free, m_off, parsed>>
  /\ want' = len
  /\ pc' = IF m_free' < len THEN "expand" ELSE "idle"
  /\ UNCHANGED <<m_buffer, refVars, heapVars, mem, received>>

(* Mutant of NeedIn: the data that is kept is not counted. *)
NeedIn_dataless == want + Header

(* The size needed for the data kept and the space asked for. *)
NeedIn == want + (m_used - m_off) + Header

(* expand_buffer when nobody else holds the block: realloc, which may move *)
(* it.                                                                     *)
ExpandInPlace ==
  /\ pc = "expand" /\ m_off = Header /\ count[m_buffer] = 1
  /\ \E b \in {m_buffer} \cup {c \in Blocks : size[c] = 0},
        next \in Doubled(m_used + m_free, want + m_used) :
       /\ m_buffer' = b /\ m_free' = next - m_used
       /\ size' = [c \in Blocks |-> IF c = b THEN next ELSE IF c = m_buffer THEN 0 ELSE size[c]]
       /\ count' = [c \in Blocks |-> IF c = b THEN 1 ELSE IF c = m_buffer THEN 0 ELSE count[c]]
       /\ mem' = [mem EXCEPT ![b] = mem[m_buffer]]
  /\ pc' = "idle"
  /\ UNCHANGED <<m_used, m_off, parsed, refVars, received, want>>

(* Mutant of Moved: the old block is dropped. *)
Moved_dropped == m_array

(* m_ref.move(m_buffer): m_ref takes over the holding of the old block. *)
Moved == [m_array EXCEPT ![MRef] = @ \cup {m_buffer}]

(* memcpy of the unparsed data behind the counter of block b. *)
Copied(b) ==
  [i \in Offsets |-> IF Header <= i /\ i < m_used - m_off + Header
                     THEN mem[m_buffer][m_off + i - Header] ELSE mem[b][i]]

(* Otherwise: a new block, to which the data is copied. *)
ExpandElsewhere ==
  /\ pc = "expand" /\ ~(m_off = Header /\ count[m_buffer] = 1)
  /\ \E b \in {c \in Blocks : size[c] = 0},
        next \in Doubled(Larger(InitSize, Header), NeedIn) :
       /\ m_buffer' = b
       /\ m_used' = m_used - m_off + Header /\ m_free' = next - m_used'
       /\ size' = [size EXCEPT ![b] = next] /\ count' = [count EXCEPT ![b] = 1]
       /\ mem' = [mem EXCEPT ![b] = Copied(b)]
       /\ m_array' = Moved
  /\ m_off' = Header
  /\ pc' = "idle"
  /\ UNCHANGED <<parsed, clearing, held, received, want>>

(* malloc or realloc fails: bad_alloc, and nothing has changed. *)
ExpandFails ==
  /\ pc = "expand" /\ pc' = "idle" /\ want' = 0
  /\ UNCHANGED <<ownVars, refVars, heapVars, mem, received>>

(* m_ref.push(m_buffer), to->swap(m_ref), and m_ref.clear() begins. *)
retain_to(r) ==
  /\ Ready /\ r \notin clearing
  /\ count' = [count EXCEPT ![m_buffer] = @ + 1]
  /\ m_array' = [m_array EXCEPT ![r] = m_array[MRef] \cup {m_buffer}, ![MRef] = m_array[r]]
  /\ clearing' = clearing \cup {MRef}
  /\ held' = [held EXCEPT ![r] = parsed]
  /\ parsed' = {}
  /\ UNCHANGED <<m_buffer, m_used, m_free, m_off, size, mem, received, callVars>>

(* A new ref takes what m_ref holds, which m_buffer is not part of: it     *)
(* keeps what was parsed from earlier blocks.                              *)
retain(r) ==
  /\ Ready /\ r \notin clearing /\ m_array[r] = {}
  /\ m_array' = [m_array EXCEPT ![r] = m_array[MRef], ![MRef] = {}]
  /\ held' = [held EXCEPT ![r] = {p \in parsed : p.blk # m_buffer}]
  /\ parsed' = {p \in parsed : p.blk = m_buffer}
  /\ UNCHANGED <<m_buffer, m_used, m_free, m_off, clearing, heapVars, mem, received, callVars>>

(* ~stream_buffer: the block first, then m_ref. *)
Destroy ==
  /\ Ready
  /\ decr_count(m_buffer)
  /\ m_buffer' = None /\ parsed' = {}
  /\ clearing' = clearing \cup {MRef}
  /\ UNCHANGED <<m_used, m_free, m_off, m_array, held, mem, received, callVars>>

-----------------------------------------------------------------------------
(* The refs, in any thread.                                                *)

(* clear or ~ref: its pointers are void; the blocks follow one by one. *)
clear(r) ==
  /\ r \notin clearing /\ m_array[r] # {}
  /\ clearing' = clearing \cup {r} /\ held' = [held EXCEPT ![r] = {}]
  /\ UNCHANGED <<ownVars, m_array, heapVars, mem, received, callVars>>

each_decr(o) ==
  /\ o \in clearing
  /\ \/ \E b \in m_array[o] :
          /\ decr_count(b)
          /\ m_array' = [m_array EXCEPT ![o] = @ \ {b}]
          /\ UNCHANGED clearing
     \/ /\ m_array[o] = {}
        /\ clearing' = clearing \ {o}
        /\ UNCHANGED <<m_array, heapVars>>
  /\ UNCHANGED <<ownVars, held, mem, received, callVars>>

swap(r, s) ==
  /\ {r, s} \cap clearing = {} /\ r # s
  /\ m_array' = [m_array EXCEPT ![r] = m_array[s], ![s] = m_array[r]]
  /\ held' = [held EXCEPT ![r] = held[s], ![s] = held[r]]
  /\ UNCHANGED <<ownVars, clearing, heapVars, mem, received, callVars>>

-----------------------------------------------------------------------------
(* stream_buffer(initial_buffer_size): one block, with room for the        *)
(* counter at least.                                                       *)
Init ==
  LET initsz == Larger(InitSize, Header) IN
  /\ initsz <= MaxSize
  /\ m_buffer \in Blocks
  /\ m_used = Header /\ m_free = initsz - Header /\ m_off = Header
  /\ m_array = [o \in Refs \cup {MRef} |-> {}] /\ clearing = {}
  /\ count = [b \in Blocks |-> IF b = m_buffer THEN 1 ELSE 0]
  /\ size = [b \in Blocks |-> IF b = m_buffer THEN initsz ELSE 0]
  /\ mem = [b \in Blocks |-> [i \in Offsets |-> 0]]
  /\ received = 0 /\ parsed = {}
  /\ held = [r \in Refs |-> {}]
  /\ pc = "idle" /\ want = 0

BufferStep ==
  \/ \E n \in 1..MaxBytes : buffer_filled(n) \/ data_consumed(n)
  \/ \E len \in Lens : reserve_buffer(len)
  \/ ExpandInPlace \/ ExpandElsewhere \/ ExpandFails
  \/ \E r \in Refs : retain_to(r) \/ retain(r)
  \/ Destroy

RefStep ==
  \/ \E r \in Refs : clear(r)
  \/ \E o \in Refs \cup {MRef} : each_decr(o)
  \/ \E r, s \in Refs : swap(r, s)

(* The buffer is destroyed and all refs are empty. *)
Finished ==
  /\ m_buffer = None /\ clearing = {} /\ \A o \in DOMAIN m_array : m_array[o] = {}
  /\ UNCHANGED vars

Next == BufferStep \/ RefStep \/ Finished

Spec == Init /\ [][Next]_vars
-----------------------------------------------------------------------------
(* Properties.                                                             *)

TypeOK ==
  /\ m_buffer \in Blocks \cup {None} /\ m_used \in Nat /\ m_free \in Nat /\ m_off \in Nat
  /\ m_array \in [Refs \cup {MRef} -> SUBSET Blocks] /\ clearing \subseteq Refs \cup {MRef}
  /\ count \in [Blocks -> Int] /\ size \in [Blocks -> Nat]
  /\ mem \in [Blocks -> [Offsets -> Nat]] /\ received \in Nat
  /\ parsed \subseteq Pointer /\ held \in [Refs -> SUBSET Pointer]
  /\ pc \in {"idle", "expand"} /\ want \in Nat

(* Who holds block b: the refs, m_ref, and the stream_buffer itself. *)
Holders(b) ==
  {o \in Refs \cup {MRef} : b \in m_array[o]} \cup {o \in {MBuf} : b = m_buffer}

(* The counter of every block is the number of its holders, and the block  *)
(* is allocated exactly while it has one, whatever order threads retain    *)
(* and drop it in: no leak, no double free.  m_ref never holds the current *)
(* block, except on its way to be dropped: push and move add a new one.    *)
CountExact ==
  /\ \A b \in Blocks : count[b] = Cardinality(Holders(b)) /\ (size[b] = 0 <=> count[b] = 0)
  /\ m_buffer \notin m_array[MRef] \/ MRef \in clearing

(* The unparsed data is what was received and not consumed, in order,      *)
(* through every rewind, reallocation and move to another block; it and    *)
(* the free space behind it are inside the block.                          *)
DataIntact ==
  m_buffer # None =>
    /\ m_off <= m_used /\ m_free >= 0 /\ m_used + m_free = size[m_buffer]
    /\ \A i \in m_off..(m_used - 1) : mem[m_buffer][i] = received + 1 + i - m_used

(* What was parsed stays where it is, in blocks that have not been freed:  *)
(* for a ref until it is cleared, however the buffer goes on, and before   *)
(* that until the block is rewound.                                        *)
Kept(p) == size[p.blk] > p.off /\ mem[p.blk][p.off] = p.byte
RetainedIntact == \A p \in parsed \cup UNION {held[r] : r \in Refs} : Kept(p)

(* The inductive invariant behind these, BufferInv, adds the following.    *)

(* The unparsed data starts behind the counter, and a call that is about   *)
(* to expand the buffer is the only one.                                   *)
CallsOK ==
  /\ \A b \in Blocks : size[b] <= MaxSize
  /\ m_buffer # None => Header <= m_off
  /\ pc = "expand" => m_buffer # None /\ MRef \notin clearing

(* A ref holds the blocks that its pointers point into, so that nobody     *)
(* frees them; those into the current block are behind the counter and     *)
(* before the unparsed data, so that nobody writes there without a rewind. *)
InParsedPart(p) == p.blk = m_buffer => Header <= p.off /\ p.off < m_off
HeldOK ==
  \A r \in Refs : \A p \in held[r] :
    r \notin clearing /\ p.blk \in m_array[r] /\ Kept(p) /\ InParsedPart(p)

(* Before they are retained, m_buffer and m_ref do so. *)
ParsedOK ==
  \A p \in parsed :
    /\ MRef \notin clearing /\ m_buffer # None /\ Kept(p) /\ InParsedPart(p)
    /\ p.blk = m_buffer \/ p.blk \in m_array[MRef]

BufferInv == TypeOK /\ CountExact /\ DataIntact /\ CallsOK /\ HeldOK /\ ParsedOK

=============================================================================
