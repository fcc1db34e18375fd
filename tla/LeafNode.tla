------------------------------ MODULE LeafNode ------------------------------
(***************************************************************************)
(* DataLeafNode of the bit masking exercise: a cube of DIM^3 values and a  *)
(* mask that has one bit for each, kept in DIM^2 cells of DIM bits.  A     *)
(* cell is the set of its bits that are set; the shifts and masks of the   *)
(* code are by powers of two and are written as \div, * and %.             *)
(***************************************************************************)
EXTENDS Integers, Sequences, SequencesExt

DIM(Log2Dim) == 2^Log2Dim

NewLeaf(Log2Dim) ==
  LET dim == DIM(Log2Dim)
  IN  [mask_bit_buffer |-> [index \in 0..dim * dim - 1 |-> {}],
       data_buffer     |-> [offset \in 0..dim * dim * dim - 1 |-> 0]]

toOffset(Log2Dim, x, y, z) ==
  LET dim == DIM(Log2Dim)
  IN  (x % dim) * 2^(2 * Log2Dim) + (y % dim) * 2^Log2Dim + (z % dim)

fromOffset(Log2Dim, offset) ==
  LET n == offset % 2^(2 * Log2Dim)
  IN  <<offset \div 2^(2 * Log2Dim), n \div 2^Log2Dim, n % 2^Log2Dim>>

\* Mutant: index = offset / DIM + 1u, as a comment in the code has it.
setActiveNext(Log2Dim, leaf, x, y, z, val) ==
  LET offset == toOffset(Log2Dim, x, y, z)
      index  == (offset \div DIM(Log2Dim) + 1) % (DIM(Log2Dim) * DIM(Log2Dim))
  IN  [leaf EXCEPT !.mask_bit_buffer[index] = @ \union {offset % DIM(Log2Dim)},
                   !.data_buffer[offset] = val]

setActive(Log2Dim, leaf, x, y, z, val) ==
  LET offset == toOffset(Log2Dim, x, y, z)
      index  == offset \div DIM(Log2Dim)
      shift  == offset - index * DIM(Log2Dim)
  IN  [leaf EXCEPT !.mask_bit_buffer[index] = @ \union {shift},
                   !.data_buffer[offset] = val]

\* whole_mask_ptr counts the bits of every cell, set or not.
traverse(Log2Dim, leaf) ==
  LET dim == DIM(Log2Dim)
      Active(whole_mask_ptr) ==
        whole_mask_ptr % dim \in leaf.mask_bit_buffer[whole_mask_ptr \div dim]
  IN  SelectSeq([k \in 1..dim * dim * dim |-> k - 1], Active)
=============================================================================
