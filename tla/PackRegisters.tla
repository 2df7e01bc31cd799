--------------------------- MODULE PackRegisters ---------------------------
(***************************************************************************)
(* The pass PackRegisters: three or more narrow arguments of a function    *)
(* travel in one register.  The caller merges them with mul and xor, the   *)
(* callee takes them apart with udiv and urem.                             *)
(***************************************************************************)
EXTENDS Arithmetic, Sequences

CONSTANTS
  PACK_VALID_COUNT,   \* fewest arguments that are worth packing (3)
  PackBits            \* sizes of a packed argument ({8, 16, 32, 64})

ASSUME PackAssumption ==
  /\ PACK_VALID_COUNT \in Nat \ {0}
  /\ PackBits \subseteq Widths
  /\ WIDTH \in PackBits

(* Bits of the arguments from .. to, which are in the order of their size. *)
PackedSize(sizes, from, to) ==
  LET sum[k \in 0 .. Len(sizes)] == IF k = 0 THEN 0 ELSE sum[k - 1] + sizes[k]
  IN sum[to] - sum[from - 1]

(* The last of the arguments that fit in a word, from the given one on.    *)
PackedNow(sizes, from) ==
  CHOOSE to \in from .. Len(sizes) :
    /\ PackedSize(sizes, from, to) <= WIDTH
    /\ to = Len(sizes) \/ PackedSize(sizes, from, to + 1) > WIDTH

(* The last argument that travels with the given one, the first of its     *)
(* range: itself, when it is not packed.                                   *)
PackedTo(sizes, from) ==
  LET to == PackedNow(sizes, from)
  IN IF to + 1 - from >= PACK_VALID_COUNT THEN to ELSE from

(* The arguments of the new function each stand for a range of the old     *)
(* ones.  The first of the range that each of the old ones is in.          *)
ArgumentPackingInfo(sizes) ==
  LET from[i \in 1 .. Len(sizes)] ==
        IF i = 1 \/ PackedTo(sizes, from[i - 1]) < i THEN i ELSE from[i - 1]
  IN from

(* The type of a packed argument: the smallest that has room.              *)
PackType(sizes, from, to) ==
  CHOOSE b \in PackBits :
    /\ PackedSize(sizes, from, to) <= b
    /\ \A c \in PackBits : PackedSize(sizes, from, to) <= c => b <= c

(* The caller: from the last argument of a range to its first, each is put *)
(* below what is merged so far.                                            *)
PackRegistersFromCaller(sizes, vals, from, to) ==
  LET type == PackType(sizes, from, to)
      merged[k \in 0 .. to - from] ==
        IF k = 0 THEN vals[to]
        ELSE compute("xor", type, compute("mul", type, merged[k - 1], Pow2[sizes[to - k]]),
                     vals[to - k])
  IN merged[to - from]

(* The callee: argument i of a range, from the register they came in.      *)
(* What is left after the others are divided away is cut to the type, as   *)
(* the back end does for a trunc.                                          *)
PackRegistersFromCallee(sizes, reg, from, to, i) ==
  LET type == PackType(sizes, from, to)
      rest[k \in 0 .. i - from] ==
        IF k = 0 THEN reg ELSE compute("udiv", type, rest[k - 1], Pow2[sizes[from + k - 1]])
      one == IF i < to THEN compute("urem", type, rest[i - from], Pow2[sizes[i]])
                       ELSE rest[i - from]
  IN IF from < to /\ sizes[i] < WIDTH THEN compute("urem", WIDTH, one, Pow2[sizes[i]]) ELSE one

(* What the callee finds in parameter i when the caller passes vals.       *)
Passed(sizes, vals, i) ==
  LET from == ArgumentPackingInfo(sizes)[i]
      to == PackedTo(sizes, from)
  IN PackRegistersFromCallee(sizes, PackRegistersFromCaller(sizes, vals, from, to), from, to, i)

=============================================================================
