------------------------------- MODULE AmoAlu -------------------------------
(***************************************************************************)
(* calc_amo_32, calc_amo_64 and gen_amo_wdata of src/amounit.sv, on lanes  *)
(* of LaneWidth bits instead of 32: a word has lanes 0 (low) and 1 (high). *)
(***************************************************************************)
EXTENDS Integers, Bitwise

CONSTANT LaneWidth

ASSUME LaneWidthAssumption == LaneWidth \in Nat \ {0}

Bound(bits) == 2 ^ bits
Unsigned(x, bits) == x
Signed(x, bits) == IF x >= Bound(bits - 1) THEN x - Bound(bits) ELSE x

calc_amo(amoop, wdata, rdata, bits) ==
  LET lts == Signed(wdata, bits) < Signed(rdata, bits)
      ltu == wdata < rdata
  IN CASE amoop = "SWAP" -> wdata
       [] amoop = "ADD"  -> (rdata + wdata) % Bound(bits)
       [] amoop = "XOR"  -> rdata ^^ wdata
       [] amoop = "AND"  -> rdata & wdata
       [] amoop = "OR"   -> rdata | wdata
       [] amoop = "MIN"  -> IF lts THEN wdata ELSE rdata
       [] amoop = "MAX"  -> IF ~lts THEN wdata ELSE rdata
       [] amoop = "MINU" -> IF ltu THEN wdata ELSE rdata
       [] amoop = "MAXU" -> IF ~ltu THEN wdata ELSE rdata

Join(word) == word[1] * Bound(LaneWidth) + word[0]
Split(x) == [l \in {0, 1} |-> IF l = 0 THEN x % Bound(LaneWidth) ELSE x \div Bound(LaneWidth)]

\* funct3 is 010 for the addressed lane (r.lane), 011 for the whole word.
gen_amo_word(r, rdata) ==
  IF r.funct3 = "W"
    THEN [rdata EXCEPT ![r.lane] =
            calc_amo(r.amoop, r.wdata[r.lane], @, LaneWidth)]
    ELSE Split(calc_amo(r.amoop, Join(r.wdata), Join(rdata), 2 * LaneWidth))
=============================================================================
