-------------------------------- MODULE Bytes --------------------------------
(* Byte slices as the decoders of src/src/decode index them: from zero *)
EXTENDS Integers, SequencesExt

At(b, i) == b[i + 1]
Slice(b, i, j) == SubSeq(b, i + 1, j)      \* &b[i..j]
From(b, i) == Slice(b, i, Len(b))          \* &b[i..]
Be16(b, i) == 256 * At(b, i) + At(b, i + 1)
=============================================================================
