----------------------------- MODULE MCAmoUnit ------------------------------
(***************************************************************************)
(* AmoUnit on two words of two lanes of LaneWidth bits.  gen_amo_wdata is  *)
(* the code's (AmoAlu); Update is the meaning of each operation on signed  *)
(* and unsigned integers, which the code is compared with.                 *)
(***************************************************************************)
EXTENDS AmoUnit, AmoAlu, FiniteSetsExt

CONSTANTS a1, a2

MCWord(lo, hi) == [l \in {0, 1} |-> IF l = 0 THEN lo ELSE hi]
MCScOk == MCWord(0, 0)
MCScBad == MCWord(1, 0)
MCVals == 0 .. Bound(LaneWidth) - 1

Plain(op, a, w, m) ==
  [op |-> op, addr |-> a, mask |-> m, wdata |-> w, amoop |-> "SWAP",
   funct3 |-> "D", lane |-> IF 0 \in m THEN 0 ELSE 1]
AmoW(op, a, l, v) ==
  [op |-> "AMO", addr |-> a, mask |-> {l}, wdata |-> [MCScOk EXCEPT ![l] = v],
   amoop |-> op, funct3 |-> "W", lane |-> l]
AmoD(op, a, w) ==
  [op |-> "AMO", addr |-> a, mask |-> {0, 1}, wdata |-> w, amoop |-> op,
   funct3 |-> "D", lane |-> 0]

AmoOps == {"SWAP", "ADD", "XOR", "AND", "OR", "MIN", "MAX", "MINU", "MAXU"}

\* Loads and stores of one lane, LR and SC on both words, an SC on the lane
\* beside the reserved one, and every AMO on a whole word, the signed and the
\* carrying ones with two operands and on one lane as well.
MCRequests ==
  {Plain(op, a1, MCWord(1, 0), {0}) : op \in {"LOAD", "STORE"}}
    \cup {Plain(op, a, MCWord(1, 0), {0}) : op \in {"LR", "SC"}, a \in {a1, a2}}
    \cup {Plain("SC", a1, MCWord(0, 1), {1})}
    \cup {AmoD(op, a1, MCWord(0, 1)) : op \in AmoOps}
    \cup {AmoD(op, a1, MCWord(1, 0)) : op \in {"ADD", "MIN", "MAX"}}
    \cup {AmoW(op, a1, 0, 1) : op \in {"ADD", "MIN"}}

(***************************************************************************)
(* Reference semantics.                                                    *)
(***************************************************************************)
Bit(x, i) == (x \div 2 ^ i) % 2
FromBits(bit(_), bits) == SumSet({IF bit(i) = 1 THEN 2 ^ i ELSE 0 : i \in 0 .. bits - 1})

\* The representative of x in -2^(bits-1) .. 2^(bits-1) - 1.
AsSigned(x, bits) ==
  CHOOSE y \in -Bound(bits - 1) .. Bound(bits - 1) - 1 : (y - x) % Bound(bits) = 0

Reference(op, x, y, bits) ==
  LET signedLeast == CHOOSE z \in {x, y} : \A u \in {x, y} : AsSigned(z, bits) <= AsSigned(u, bits)
      signedMost  == CHOOSE z \in {x, y} : \A u \in {x, y} : AsSigned(z, bits) >= AsSigned(u, bits)
  IN CASE op = "SWAP" -> y
       [] op = "ADD"  -> CHOOSE z \in 0 .. Bound(bits) - 1 : (x + y - z) % Bound(bits) = 0
       [] op = "XOR"  -> FromBits(LAMBDA i : (Bit(x, i) + Bit(y, i)) % 2, bits)
       [] op = "AND"  -> FromBits(LAMBDA i : Bit(x, i) * Bit(y, i), bits)
       [] op = "OR"   -> FromBits(LAMBDA i : IF Bit(x, i) + Bit(y, i) > 0 THEN 1 ELSE 0, bits)
       [] op = "MIN"  -> signedLeast
       [] op = "MAX"  -> signedMost
       [] op = "MINU" -> Min({x, y})
       [] op = "MAXU" -> Max({x, y})

MCUpdate(r, w) ==
  IF r.funct3 = "W"
    THEN [l \in {0, 1} |-> IF l = r.lane THEN Reference(r.amoop, w[l], r.wdata[l], LaneWidth)
                                         ELSE w[l]]
    ELSE Split(Reference(r.amoop, Join(w), Join(r.wdata), 2 * LaneWidth))
=============================================================================
