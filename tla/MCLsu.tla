-------------------------------- MODULE MCLsu -------------------------------
(***************************************************************************)
(* Lsu with two pages of RAM of two words each, which Sv39 swaps, a page   *)
(* whose first word is ROM, and a device page.                             *)
(***************************************************************************)
EXTENDS Lsu, TLC

MCPageMap == 0 :> 1 @@ 1 :> 0 @@ 2 :> 2 @@ 4 :> 4

I(op, addr, size, sv39, tfault, pmp, expt) ==
  [op |-> op, addr |-> addr, size |-> size, sv39 |-> sv39, tfault |-> tfault, pmp |-> pmp,
   expt |-> expt]

\* Accesses across words, across pages, across MMAP_RAM_END, behind it aligned
\* and not, across the end of ROM, and of the device, with and without
\* translation.
Accesses ==
  {I(op, x[1], x[2], v, FALSE, TRUE, FALSE) :
     op \in {"load", "store"}, v \in BOOLEAN, x \in {<<14, 4>>, <<20, 8>>, <<36, 8>>, <<66, 4>>}}
    \cup {I("load", x[1], x[2], FALSE, FALSE, TRUE, FALSE) : x \in {<<28, 4>>, <<29, 2>>}}
    \cup {I("store", 32, 4, FALSE, FALSE, TRUE, FALSE)}

\* Atomics, single bytes, faults of each kind, and no memory at all.
Others ==
  {I("amo", x, 4, v, FALSE, TRUE, FALSE) : x \in {4, 6}, v \in BOOLEAN}
    \cup {I("load", x, 1, TRUE, FALSE, TRUE, FALSE) : x \in {3, 64}}
    \cup {I("store", 5, 8, v, v, ~v, FALSE) : v \in BOOLEAN}
    \cup {I("store", 5, 8, FALSE, FALSE, TRUE, TRUE), I("load", 5, 8, TRUE, FALSE, FALSE, FALSE),
          I("alu", 0, 1, FALSE, FALSE, TRUE, FALSE)}

MCInsts == Accesses \cup Others
=============================================================================
