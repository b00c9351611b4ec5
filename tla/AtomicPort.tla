----------------------------- MODULE AtomicPort -----------------------------
(***************************************************************************)
(* What the data side of the core expects of its memory port: one request  *)
(* at a time, performed in one indivisible step between the moment it is   *)
(* taken and the moment it is answered.  Load-reserved and store-          *)
(* conditional work on one reservation, which a trap may drop at any time  *)
(* before the store-conditional is performed.                              *)
(***************************************************************************)
CONSTANTS
  Addrs, Lanes, Vals,
  Requests,          \* [op, addr, lane, mask, wdata, ...]
  Update(_, _),      \* Update(r, w): the word an AMO r leaves in place of w
  ScOk, ScBad,       \* the two answers of a store-conditional
  None

VARIABLES phase, req, ok, ans, res, mem

portVars == <<phase, req, ok, ans, res, mem>>

Word == [Lanes -> Vals]
Merge(old, new, mask) == [l \in Lanes |-> IF l \in mask THEN new[l] ELSE old[l]]

Init ==
  /\ phase = "idle" /\ req = None /\ ok = FALSE /\ ans = None
  /\ res = None
  /\ mem \in [Addrs -> Word]

\* The request, whether a store-conditional still holds its reservation, and
\* the reservation as a new request r and a trap leave them.
NewOk(r, trap) == r.op = "SC" /\ res = <<r.addr, r.lane>> /\ ~trap

NewRes(r, trap) ==
  IF trap \/ r.op = "SC" THEN None
  ELSE IF r.op = "LR" THEN <<r.addr, r.lane>> ELSE res

\* The effect of r on memory and its answer, all at once.
Performed(r, good) ==
  LET w == mem[r.addr] IN
  /\ ans' = CASE r.op \in {"SC"} -> IF good THEN ScOk ELSE ScBad
              [] OTHER -> w
  /\ mem' = CASE r.op = "STORE"        -> [mem EXCEPT ![r.addr] = Merge(w, r.wdata, r.mask)]
              [] r.op = "SC" /\ good   -> [mem EXCEPT ![r.addr] = Merge(w, r.wdata, r.mask)]
              [] r.op \in {"LOAD", "LR"} \/ (r.op = "SC" /\ ~good) -> mem
              [] OTHER                 -> [mem EXCEPT ![r.addr] = Update(r, w)]

\* A request is taken when the port is idle or gives its last answer; it may
\* be performed at once.
Take(r, trap) ==
  /\ phase \in {"idle", "done"}
  /\ req' = r /\ res' = NewRes(r, trap)
  /\ \/ /\ phase' = "taken" /\ ok' = NewOk(r, trap)
        /\ ans' = None /\ UNCHANGED mem
     \/ /\ phase' = "done" /\ ok' = FALSE
        /\ Performed(r, NewOk(r, trap))

Perform(trap) ==
  /\ phase = "taken" /\ phase' = "done"
  /\ Performed(req, ok /\ ~trap)
  /\ ok' = FALSE
  /\ res' = (IF trap THEN None ELSE res)
  /\ UNCHANGED req

\* A trap while a request is waiting: a store-conditional then fails.
Trap ==
  /\ phase # "taken" \/ ~ok
  /\ res' = None
  /\ UNCHANGED <<phase, req, ok, ans, mem>>

Answer(trap) ==
  /\ phase = "done" /\ phase' = "idle"
  /\ req' = None /\ ans' = None /\ ok' = FALSE
  /\ res' = (IF trap THEN None ELSE res)
  /\ UNCHANGED mem

Next ==
  \/ \E r \in Requests, trap \in BOOLEAN : Take(r, trap)
  \/ \E trap \in BOOLEAN : Perform(trap) \/ Answer(trap)
  \/ Trap

Spec == Init /\ [][Next]_portVars
=============================================================================
