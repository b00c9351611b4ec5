------------------------------ MODULE MCDCache ------------------------------
(***************************************************************************)
(* Instances of DCache for TLC.  Two lines of two words and a buffer of two*)
(* entries are the smallest the parameter checks of dcache.sv allow; two   *)
(* tags make lines conflict, two byte lanes let accesses overlap in part.  *)
(***************************************************************************)
EXTENDS DCache

CONSTANTS t1, t2, io

MCUncached == {io}

Access(kind, a, m, v, f) ==
  [kind |-> kind, addr |-> a, mask |-> m, wdata |-> [b \in Bytes |-> v], fast |-> f]

A0 == <<t1, 0, 0>>
A1 == <<t1, 0, 1>>
B0 == <<t2, 0, 0>>
C1 == <<t1, 1, 1>>

\* Stores of one lane and of a whole word, loads of the line and of one that
\* conflicts with it, fast and slow, and an atomic.
RamOps ==
  {Access("load", A0, {0}, 0, TRUE), Access("load", A0, {0, 1}, 0, FALSE),
   Access("load", B0, {0, 1}, 0, TRUE),
   Access("store", A0, {0}, 1, FALSE), Access("store", A1, {0, 1}, 1, FALSE),
   Access("amo", A0, {0, 1}, 0, FALSE)}

\* Accesses to a device among accesses to cached lines.
DeviceOps ==
  {Access("load", io, {0}, 0, FALSE), Access("store", io, {0}, 1, FALSE),
   Access("load", A0, {0, 1}, 0, TRUE), Access("store", A0, {1}, 1, FALSE),
   Access("load", C1, {0}, 0, TRUE)}
=============================================================================
