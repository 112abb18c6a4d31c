----------------------------- MODULE VendorCall -----------------------------
(***************************************************************************)
(* What the native plugin promises of one vendor call, whatever threads,   *)
(* queues and deadlines it is built from.  A call is answered once.  Its   *)
(* operation runs at most once.  An answer that says "refused", "timeout"  *)
(* or "unchanged" is a promise about the past and the future: the          *)
(* operation has not run and never will.  "ok" says that it ran; only      *)
(* "indeterminate" leaves the question open, and only after it may the     *)
(* operation still run behind the caller's back.                           *)
(***************************************************************************)
EXTENDS Naturals

CONSTANT Calls   \* the vendor calls that may be made

VARIABLES
    answer,      \* answer[c]: what the caller of c has been told; idle or open before
    performed    \* performed[c]: how often the operation of c has run

vars == <<answer, performed>>

\* Answers that say the operation neither ran nor will run.
Settled == {"refused", "timeout", "unchanged"}
Answers == Settled \cup {"ok", "failed", "indeterminate"}

Init == /\ answer = [c \in Calls |-> "idle"]
        /\ performed = [c \in Calls |-> 0]

Open(c) == /\ answer[c] = "idle"
           /\ answer' = [answer EXCEPT ![c] = "open"]
           /\ UNCHANGED performed

\* The operation runs: while the caller waits, or after the caller was told
\* that nobody knows.
Perform(c) == /\ answer[c] \in {"open", "indeterminate"}
              /\ performed[c] = 0
              /\ performed' = [performed EXCEPT ![c] = 1]
              /\ UNCHANGED answer

\* A refusal may also be immediate, from "idle".
Answer(c, a) == /\ \/ answer[c] = "open"
                   \/ answer[c] = "idle" /\ a = "refused"
                /\ a = "ok" => performed[c] = 1
                /\ a \in Settled => performed[c] = 0
                /\ answer' = [answer EXCEPT ![c] = a]
                /\ UNCHANGED performed

Next == \E c \in Calls : \/ Open(c)
                         \/ Perform(c)
                         \/ \E a \in Answers : Answer(c, a)

Spec == Init /\ [][Next]_vars
=============================================================================
