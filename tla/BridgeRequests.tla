--------------------------- MODULE BridgeRequests ---------------------------
(***************************************************************************)
(* What the typed operations of ObsControlBridge have in common.           *)
(*                                                                          *)
(* An operation may first consult OBS, then sends one request, then reads   *)
(* back what it asked for, several times at most if it is polled.  It is a  *)
(* record: the request and the target it names, the value it carries, what  *)
(* it consults, what it reads and which comparison the answer must pass.    *)
(*                                                                          *)
(* The plugin performs a request on the user-interface thread at once: its  *)
(* possible outcomes are a set of answers, each with the state after it.    *)
(***************************************************************************)
EXTENDS Integers

\* f where it is defined and g elsewhere: the f @@ g of TLC, in a form that can be proved about.
f ++ g == [x \in DOMAIN f \cup DOMAIN g |-> IF x \in DOMAIN f THEN f[x] ELSE g[x]]
With(f, x, v) == [y \in {x} |-> v] ++ f

Consults(domain, request, name, value, consult, read, matches) ==
  [domain |-> domain, request |-> request, name |-> name, value |-> value, consult |-> consult,
   read |-> read, target |-> name, matches |-> matches, polled |-> TRUE]
Asks(domain, request, name, value, read, matches) ==
  Consults(domain, request, name, value, "nothing", read, matches)
Once(operation) == [operation EXCEPT !.polled = FALSE]

\* The outcomes of a request: refused, or accepted with what the answer carries.
Refuse(state, code) == {[code |-> code, after |-> state, got |-> 0]}
Give(state, got) == {[code |-> "accepted", after |-> state, got |-> got]}
Accept(state) == Give(state, 0)

\* The answer to a read.
Failed(code) == [code |-> code]
Answered(seen) == [code |-> "ok", seen |-> seen]

\* A number as OBS keeps it: rounded to single precision, which is exact below 2^24.
Single(v) == LET ulp == IF v < 2^24 THEN 1 ELSE IF v < 2^25 THEN 2 ELSE 4
                 rest == v % ulp
             IN  IF 2 * rest > ulp THEN v - rest + ulp ELSE v - rest

\* The tolerances 1e-6 of a volume and 1e-3 of a position are a little more than one
\* of the units they are counted in, 2^-20 and 2^-10.
Tolerance == 1
Close(a, b) == a - b \in -Tolerance .. Tolerance
=============================================================================
