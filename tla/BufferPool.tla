----------------------------- MODULE BufferPool ------------------------------
(***************************************************************************)
(* BufferPool: the temporary buffers of filters.  Every environment (the   *)
(* core's and each worker's own) has a pool of buffers that are kept for   *)
(* the next request; buffers outside the pools come from malloc and go     *)
(* back to it.  Either kind may be freed through any environment.          *)
(*                                                                         *)
(* A buffer lies inside a block of malloc's, behind five words that say    *)
(* what it is.  An address is an integer.                                  *)
(***************************************************************************)
EXTENDS Integers, Sequences, SequencesExt

CONSTANTS
  Envs,       \* the environments
  Blocks,    \* the blocks that malloc can hand out
  Requests,      \* sizes that filters request
  Alignments, \* alignments that filters request, powers of two or not
  Origins,    \* addresses that malloc may return
  WordSize,   \* sizeof(void*), a power of two
  Null        \* a null pointer

(* Alignments do not exceed a page. *)
PowersOfTwo == {1, 2, 4, 8, 16, 32, 64, 128, 256, 512, 1024, 2048, 4096}

ASSUME BlocksAssumption ==
  /\ IsFiniteSet(Blocks)
  /\ Requests \subseteq Nat /\ Alignments \subseteq Nat \ {0} /\ Origins \subseteq Nat
  /\ WordSize \in PowersOfTwo /\ Null \notin Envs \cup Int

VARIABLES
  Map,         \* each environment's pooled buffers, by size
  desc,        \* each buffer's fields
  users,       \* the requests that each buffer has been handed out for
  memory_used, \* what the pools have reported to the core
  alive        \* the environments that have not been deleted

poolVars == <<Map, desc, users, memory_used, alive>>

NoBuffer == [ptr |-> Null, orig |-> Null, real |-> 0,
             pool |-> Null, size |-> 0, alignment |-> 0, in_use |-> FALSE]

PoolInit == /\ Map = [e \in Envs |-> <<>>]
            /\ desc = [b \in Blocks |-> NoBuffer]
            /\ users = [b \in Blocks |-> <<>>]
            /\ memory_used = 0
            /\ alive = Envs

Allocated == {b \in Blocks : desc[b].ptr # Null}

-----------------------------------------------------------------------------
(* PrivateAlloc, PrivateFree *)

ExtraFields == 5

Padded(alignment) == IF alignment > WordSize THEN alignment ELSE WordSize

Offset(alignment) == ExtraFields * WordSize + alignment - 1

RoundDown(address, alignment) == address - (address % alignment)

(* A block at orig that holds size bytes at a multiple of alignment.       *)
Block(orig, size, alignment, e, pooled) ==
  [ptr |-> RoundDown(orig + Offset(Padded(alignment)), Padded(alignment)),
   orig |-> orig, real |-> size + Offset(Padded(alignment)),
   pool |-> IF pooled THEN e ELSE Null,
   size |-> size, alignment |-> alignment, in_use |-> pooled]

PrivateAlloc(e, b, size, alignment, pooled) ==
  /\ desc[b].ptr = Null
  /\ Padded(alignment) \in PowersOfTwo
  /\ \E orig \in Origins :
       desc' = [desc EXCEPT ![b] = Block(orig, size, alignment, e, pooled)]
  /\ users' = [users EXCEPT ![b] = <<<<size, alignment>>>>]
  /\ memory_used' = memory_used + desc'[b].real

-----------------------------------------------------------------------------
(* Allocate *)

\* Mutant: a buffer in use is taken too.
Suits_InUse(b, size, alignment) ==
  desc[b].size >= size /\ desc[b].alignment >= alignment

Suits(b, size, alignment) ==
  desc[b].size >= size /\ ~desc[b].in_use /\ desc[b].alignment >= alignment

(* The first of the pool's buffers that will do. *)
Found(e, size, alignment) ==
  SelectInSeq(Map[e], LAMBDA b : Suits(b, size, alignment))

AllocatePooled(e, size, alignment) ==
  /\ e \in alive
  /\ LET i == Found(e, size, alignment)
     IN  /\ i # 0
         /\ desc' = [desc EXCEPT ![Map[e][i]].in_use = TRUE]
         /\ users' = [users EXCEPT ![Map[e][i]] = Append(@, <<size, alignment>>)]
  /\ UNCHANGED <<Map, memory_used, alive>>

(* Where the map puts a new buffer. *)
Place(e, size) == 1 + SelectLastInSeq(Map[e], LAMBDA c : desc[c].size <= size)

AllocateNew(e, b, size, alignment) ==
  /\ e \in alive
  /\ Found(e, size, alignment) = 0
  /\ PrivateAlloc(e, b, size, alignment, TRUE)
  /\ Map' = [Map EXCEPT ![e] = InsertAt(@, Place(e, size), b)]
  /\ UNCHANGED alive

AllocateNormal(e, b, size, alignment) ==
  /\ e \in alive
  /\ PrivateAlloc(e, b, size, alignment, FALSE)
  /\ UNCHANGED <<Map, alive>>

-----------------------------------------------------------------------------
(* Free *)

\* Mutant: what the block took is not given back.
PrivateFree_SizeOnly(b) ==
  /\ desc' = [desc EXCEPT ![b] = NoBuffer]
  /\ memory_used' = memory_used - desc[b].size

PrivateFree(b) ==
  /\ desc' = [desc EXCEPT ![b] = NoBuffer]
  /\ memory_used' = memory_used - desc[b].real

BackToPool(b) == /\ desc' = [desc EXCEPT ![b].in_use = FALSE]
                 /\ UNCHANGED memory_used

(* The filter that has the buffer frees it, through whatever environment.  *)
Free(b) ==
  /\ users[b] # <<>>
  /\ users' = [users EXCEPT ![b] = Tail(@)]
  /\ IF desc[b].pool # Null
     THEN BackToPool(b)
     ELSE PrivateFree(b)
  /\ UNCHANGED <<Map, alive>>

HandedOut(e) == {b \in ToSet(Map[e]) : users[b] # <<>>}

Reals == [b \in Blocks |-> desc[b].real]
SumReal(S) == MapThenSumSet(LAMBDA b : Reals[b], S)

(* What the destructor frees: all the pool has, used or not. *)
Freed(e) == ToSet(Map[e])

(* A filter gives pooled buffers back before the call it needs them for    *)
(* returns, and so before the environment of its thread is deleted.        *)
Destroy(e) ==
  /\ e \in alive /\ HandedOut(e) = {}
  /\ alive' = alive \ {e}
  /\ Map' = [Map EXCEPT ![e] = <<>>]
  /\ desc' = [b \in Blocks |-> IF b \in Freed(e) THEN NoBuffer ELSE desc[b]]
  /\ memory_used' = memory_used - SumReal(Freed(e))
  /\ UNCHANGED users

PoolNext == \/ \E e \in Envs, n \in Requests, a \in Alignments :
                 \/ AllocatePooled(e, n, a)
                 \/ \E b \in Blocks : AllocateNew(e, b, n, a) \/ AllocateNormal(e, b, n, a)
            \/ \E b \in Blocks : Free(b)
            \/ \E e \in Envs : Destroy(e)

PoolSpec == PoolInit /\ [][PoolNext]_poolVars
-----------------------------------------------------------------------------
(* Properties *)

Address == Int \cup {Null}
Descriptor == [ptr : Address, orig : Address, real : Nat, pool : Envs \cup {Null},
               size : Nat, alignment : Nat, in_use : BOOLEAN]

PoolTypeOK ==
  /\ Map \in [Envs -> Seq(Blocks)]
  /\ desc \in [Blocks -> Descriptor]
  /\ users \in [Blocks -> Seq(Requests \X Alignments)]
  /\ memory_used \in Nat /\ alive \subseteq Envs
  /\ \A b \in Blocks : users[b] # <<>> => desc[b].ptr # Null
  /\ \A b \in Blocks : desc[b].pool # Null => (desc[b].in_use <=> users[b] # <<>>)
  /\ \A e \in Envs : e \notin alive => Map[e] = <<>>

(* Whoever has a buffer, a recycled one too, has room for the bytes it     *)
(* asked for, at a multiple of the alignment it asked for, and writes      *)
(* neither outside the block nor over the five words.                      *)
RoomEnough ==
  \A b \in Blocks : \A i \in 1 .. Len(users[b]) :
    LET size == users[b][i][1]
        alignment == users[b][i][2]
        d == desc[b]
    IN  /\ alignment \in PowersOfTwo => d.ptr % alignment = 0
        /\ d.orig <= d.ptr - ExtraFields * WordSize
        /\ d.ptr + size <= d.orig + d.real

(* No buffer is handed out again before it is freed, whichever threads     *)
(* allocate and free it.                                                   *)
OneUser == \A b \in Blocks : Len(users[b]) <= 1

(* Together: everybody's buffer is theirs alone and fits them.             *)
BuffersFit == RoomEnough /\ OneUser

(* What the memory limit is compared with is the memory that the blocks    *)
(* really take, pooled and idle ones included.                             *)
MemoryExact == memory_used = SumReal(Allocated)

(* Every block is in the pool it belongs to once, or has a user who will   *)
(* free it.                                                                *)
NoBlockLost ==
  \A b \in Allocated :
    IF desc[b].pool = Null
    THEN users[b] # <<>>
    ELSE Cardinality({i \in DOMAIN Map[desc[b].pool] : Map[desc[b].pool][i] = b}) = 1

(* Together: the accounting is right, and nothing is lost to it.           *)
BuffersAccounted == PoolTypeOK /\ MemoryExact /\ NoBlockLost
=============================================================================
