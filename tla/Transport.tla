----------------------------- MODULE Transport ------------------------------
(***************************************************************************)
(* The Python side of a vendor call: threads of the sidecar share one      *)
(* ObsWebSocketTransport (src/dcc_mcp_obs/protocol.py), which serialises   *)
(* them with a lock over one obs-websocket connection that it opens when   *)
(* it needs one and drops after any error.  The other end is the plugin,   *)
(* of which only the promise VendorCall is assumed; between the two,       *)
(* connections break, frames are lost, answers come late and the clock     *)
(* runs.  A frame that a closed or broken connection still carries may     *)
(* reach the plugin all the same.                                          *)
(***************************************************************************)
EXTENDS Integers, Sequences

CONSTANTS
    Callers,     \* threads, each makes one vendor call
    MaxTime,     \* the clock stops here (bound of the model)
    MaxBudget,   \* longest time a call leaves until its deadline
    EventLimit,  \* MAX_INTERLEAVED_EVENTS
    MaxWaiting,  \* no events are sent while so many frames wait (bound of the model)
    Codes        \* the answers the plugin may give (all, or a sample of them)

ASSUME BoundsAssumption == /\ MaxTime \in Nat
                           /\ MaxBudget \in Nat
                           /\ EventLimit \in Nat
                           /\ MaxWaiting \in Nat

VARIABLES
    now,         \* time.monotonic
    socket,      \* number of the connection in self._socket, 0 for None
    opened,      \* how many connections have been opened
    broken,      \* the connection in self._socket is gone at the other end
    inbox,       \* frames that arrived on it and were not read
    pc,          \* pc[c]: where the thread of c is in vendor_request
    mutating,    \* mutating[c]: its request is in MUTATING_VENDOR_REQUESTS
    deadline,    \* deadline[c]: its absolute deadline
    sent,        \* sent[c]: request_sent
    skipped,     \* skipped[c]: events it has read over
    result,      \* result[c]: what vendor_request returned or raised
    via,         \* via[c]: number of the connection its frame was sent on
    travelling,  \* calls whose frame is on its way to obs-websocket
    answer,      \* answer[c]: what the plugin answered
    performed    \* performed[c]: how often the plugin ran the operation

connVars == <<socket, opened, broken, inbox>>
callVars == <<mutating, deadline>>
callerVars == <<pc, sent, skipped, result>>
pluginVars == <<answer, performed>>
vars == <<now, connVars, callVars, callerVars, via, travelling, pluginVars>>

Plugin == INSTANCE VendorCall WITH Calls <- Callers

ASSUME CodesAssumption == Codes \subseteq Plugin!Answers

\* "locking" waits for self._lock; from "connect" on the thread holds it.
Holding == {"connect", "handshake", "prepare", "sending", "receiving", "recv"}

\* A call ends with an answer of the plugin, "interrupted", or an error code: "error"
\* is any but OBS_TIMEOUT, of the request, the connection, the handshake or the response.
ErrorCodes == {"OBS_TIMEOUT", "error"}

\* Frames from the other end that are not a response.  The body of a response is an
\* answer or "rejected", a requestStatus whose result is not true: obs-websocket did
\* not pass the request on.
Noise == [kind : {"event", "invalid"}]

Init ==
    /\ now = 0
    /\ socket = 0
    /\ opened = 0
    /\ broken = FALSE
    /\ inbox = <<>>
    /\ pc = [c \in Callers |-> "idle"]
    /\ mutating = [c \in Callers |-> FALSE]
    /\ deadline = [c \in Callers |-> 0]
    /\ sent = [c \in Callers |-> FALSE]
    /\ skipped = [c \in Callers |-> 0]
    /\ result = [c \in Callers |-> "none"]
    /\ via = [c \in Callers |-> 0]
    /\ travelling = {}
    /\ Plugin!Init

-----------------------------------------------------------------------------
LockFree == \A c \in Callers : pc[c] \notin Holding

\* _remaining raises
Overdue(c) == now >= deadline[c]

Go(c, state) == pc' = [pc EXCEPT ![c] = state]

Return(c, r) == /\ Go(c, "done")
                /\ result' = [result EXCEPT ![c] = r]

\* Mutant of Disconnect: the session is kept after an error.
KeepSocket == UNCHANGED <<socket, broken, inbox>>

\* _disconnect_locked
Disconnect == /\ socket' = 0
              /\ broken' = FALSE
              /\ inbox' = <<>>

\* Mutant of RaisedCode: an error after the send attempt is passed on as it is.
CodeAsIs(c, code) == code

RaisedCode(c, code) == IF sent[c] /\ mutating[c] THEN "indeterminate" ELSE code

\* The except clauses of vendor_request, then its finally.
Fail(c, code) == /\ Return(c, RaisedCode(c, code))
                 /\ Disconnect
                 /\ UNCHANGED <<now, opened, callVars, sent, skipped, via,
                                travelling, pluginVars>>

\* Nothing but the state of the thread changes.
OnlyGo(c, state) == /\ Go(c, state)
                    /\ UNCHANGED <<now, connVars, callVars, sent, skipped,
                                   result, via, travelling, pluginVars>>

-----------------------------------------------------------------------------
(* The calling threads.                                                    *)

\* A call with b units until its deadline; one with none left, or one that is
\* malformed, is refused before the lock.
Call(c, m, b) ==
    /\ pc[c] = "idle"
    /\ now + b <= MaxTime
    /\ mutating' = [mutating EXCEPT ![c] = m]
    /\ deadline' = [deadline EXCEPT ![c] = now + b]
    /\ \/ b > 0 /\ Go(c, "locking") /\ UNCHANGED result
       \/ b = 0 /\ Return(c, "OBS_TIMEOUT")
       \/ Return(c, "error")
    /\ UNCHANGED <<now, connVars, sent, skipped, via, travelling, pluginVars>>

\* The lock is free: an open connection is used as it is.
Acquire(c) == /\ pc[c] = "locking"
              /\ LockFree
              /\ OnlyGo(c, IF socket = 0 THEN "connect" ELSE "prepare")

AcquireTimesOut(c) ==
    /\ pc[c] = "locking"
    /\ Overdue(c)
    /\ Return(c, "OBS_TIMEOUT")
    /\ UNCHANGED <<now, connVars, callVars, sent, skipped, via, travelling,
                   pluginVars>>

\* The connector returns a socket; self._socket is set only after the
\* handshake.
Connect(c) == /\ pc[c] = "connect"
              /\ ~Overdue(c)
              /\ OnlyGo(c, "handshake")

Handshake(c) ==
    /\ pc[c] = "handshake"
    /\ now <= deadline[c]
    /\ Go(c, "prepare")
    /\ opened' = opened + 1
    /\ socket' = opened + 1
    /\ UNCHANGED <<now, broken, inbox, callVars, sent, skipped, result, via,
                   travelling, pluginVars>>

\* Connecting, the handshake and the preparation of the request each give up
\* when the deadline passes, with nothing sent.
PrepareTimesOut(c) == /\ pc[c] \in {"connect", "handshake", "prepare"}
                      /\ Overdue(c)
                      /\ Fail(c, "OBS_TIMEOUT")

\* The other end refuses the connection or the handshake.
ConnectFails(c) == /\ pc[c] \in {"connect", "handshake"}
                   /\ Fail(c, "error")

\* on_send_attempt, before the first byte.
MarkSent(c) ==
    /\ pc[c] = "prepare"
    /\ ~Overdue(c)
    /\ Go(c, "sending")
    /\ sent' = [sent EXCEPT ![c] = TRUE]
    /\ via' = [via EXCEPT ![c] = socket]
    /\ UNCHANGED <<now, connVars, callVars, skipped, result, travelling,
                   pluginVars>>

Send(c) ==
    /\ pc[c] = "sending"
    /\ Go(c, "receiving")
    /\ travelling' = travelling \cup {c}
    /\ UNCHANGED <<now, connVars, callVars, sent, skipped, result, via,
                   pluginVars>>

\* send raises, and the frame may have left or not.
SendFails(c) ==
    /\ pc[c] = "sending"
    /\ Return(c, RaisedCode(c, "error"))
    /\ Disconnect
    /\ travelling' \in {travelling, travelling \cup {c}}
    /\ UNCHANGED <<now, opened, callVars, sent, skipped, via, pluginVars>>

\* The deadline is looked at after the send and before every recv.
BeginRecv(c) == /\ pc[c] = "receiving"
                /\ \/ ~Overdue(c) /\ OnlyGo(c, "recv")
                   \/ Overdue(c) /\ Fail(c, "OBS_TIMEOUT")

\* Mutant of RecvTimesOut: the socket timeout is armed only for the first frame.
FirstRecvTimesOut(c) == /\ pc[c] = "recv"
                        /\ skipped[c] = 0
                        /\ Overdue(c)
                        /\ inbox = <<>> \/ now > deadline[c]
                        /\ Fail(c, "OBS_TIMEOUT")

\* recv runs into its timeout, or a frame comes after the deadline.
RecvTimesOut(c) == /\ pc[c] = "recv"
                   /\ Overdue(c)
                   /\ inbox = <<>> \/ now > deadline[c]
                   /\ Fail(c, "OBS_TIMEOUT")

RecvBreaks(c) == /\ pc[c] = "recv"
                 /\ broken
                 /\ Fail(c, "error")

EventsLeft(c) == skipped[c] < EventLimit

\* Mutant of Matches: the request id of a response is not compared.
MatchesAny(c, m) == TRUE

Matches(c, m) == m.id = c

\* A frame is read in time: an event is skipped, the own response ends the call
\* and leaves the connection open, anything else is an error.
Receive(c) ==
    /\ pc[c] = "recv"
    /\ inbox # <<>>
    /\ now <= deadline[c]
    /\ LET m == Head(inbox) IN
       \/ /\ m.kind = "event"
          /\ EventsLeft(c)
          /\ skipped' = [skipped EXCEPT ![c] = @ + 1]
          /\ Go(c, "receiving")
          /\ inbox' = Tail(inbox)
          /\ UNCHANGED <<now, socket, opened, broken, callVars, sent, result,
                         via, travelling, pluginVars>>
       \/ /\ \/ m.kind = "event" /\ ~EventsLeft(c)
             \/ m.kind = "invalid"
             \/ m.kind = "response" /\ ~Matches(c, m)
             \/ m.kind = "response" /\ m.body = "rejected"
          /\ Fail(c, "error")
       \/ /\ m.kind = "response"
          /\ Matches(c, m)
          /\ m.body # "rejected"
          /\ Return(c, m.body)
          /\ inbox' = Tail(inbox)
          /\ UNCHANGED <<now, socket, opened, broken, callVars, sent, skipped,
                         via, travelling, pluginVars>>

\* KeyboardInterrupt or SystemExit is no Exception: the lock is released, the
\* connection stays as it is.
Interrupt(c) ==
    /\ pc[c] \in Holding
    /\ Return(c, "interrupted")
    /\ UNCHANGED <<now, connVars, callVars, sent, skipped, via, travelling,
                   pluginVars>>

\* close() of another thread; the transport may be used again afterwards.
Close == /\ LockFree
         /\ socket # 0
         /\ Disconnect
         /\ UNCHANGED <<now, opened, callVars, callerVars, via, travelling,
                        pluginVars>>

-----------------------------------------------------------------------------
(* obs-websocket and the plugin behind it.                                 *)

Connected(c) == socket # 0 /\ via[c] = socket /\ ~broken

\* A response goes to the connection its request came from, if it still stands.
Respond(c, body) ==
    inbox' = IF Connected(c)
             THEN Append(inbox, [kind |-> "response", id |-> c, body |-> body])
             ELSE inbox

Deliver(c) ==
    /\ c \in travelling
    /\ travelling' = travelling \ {c}
    /\ \/ Plugin!Open(c) /\ UNCHANGED inbox
       \/ Plugin!Answer(c, "refused") /\ Respond(c, "rejected")
    /\ UNCHANGED <<now, socket, opened, broken, callVars, callerVars, via>>

\* A frame on a connection that no longer stands may be lost.
Lose(c) ==
    /\ c \in travelling
    /\ ~Connected(c)
    /\ travelling' = travelling \ {c}
    /\ UNCHANGED <<now, connVars, callVars, callerVars, via, pluginVars>>

PluginPerforms(c) ==
    /\ Plugin!Perform(c)
    /\ UNCHANGED <<now, connVars, callVars, callerVars, via, travelling>>

PluginAnswers(c, a) ==
    /\ answer[c] = "open"
    /\ Plugin!Answer(c, a)
    /\ Respond(c, a)
    /\ UNCHANGED <<now, socket, opened, broken, callVars, callerVars, via,
                   travelling>>

\* Frames nobody asked for; none is sent while MaxWaiting wait to be read.
Emit(m) ==
    /\ socket # 0
    /\ ~broken
    /\ Len(inbox) < MaxWaiting
    /\ inbox' = Append(inbox, m)
    /\ UNCHANGED <<now, socket, opened, broken, callVars, callerVars, via,
                   travelling, pluginVars>>

Break == /\ socket # 0
         /\ ~broken
         /\ broken' = TRUE
         /\ UNCHANGED <<now, socket, opened, inbox, callVars, callerVars, via,
                        travelling, pluginVars>>

Tick == /\ now < MaxTime
        /\ now' = now + 1
        /\ UNCHANGED <<connVars, callVars, callerVars, via, travelling,
                       pluginVars>>

-----------------------------------------------------------------------------

\* The steps a thread takes without anybody's help.
CallerStep(c) == \/ Acquire(c) \/ AcquireTimesOut(c) \/ PrepareTimesOut(c)
                 \/ MarkSent(c) \/ Send(c) \/ BeginRecv(c) \/ RecvTimesOut(c)
                 \/ Receive(c)

Environment(c) == \/ Connect(c) \/ Handshake(c)
                  \/ ConnectFails(c) \/ SendFails(c) \/ RecvBreaks(c)
                  \/ Interrupt(c)
                  \/ Deliver(c) \/ Lose(c) \/ PluginPerforms(c)
                  \/ \E a \in Codes : PluginAnswers(c, a)

Next == \/ Tick \/ Close \/ Break
        \/ \E m \in Noise : Emit(m)
        \/ \E c \in Callers :
              \/ \E m \in BOOLEAN, b \in 0..MaxBudget : Call(c, m, b)
              \/ CallerStep(c)
              \/ Environment(c)

Spec == Init /\ [][Next]_vars

\* Time passes and the threads of the sidecar are scheduled; OBS, the network
\* and the other end may do nothing at all.
FairSpec == Spec /\ WF_vars(Tick) /\ \A c \in Callers : WF_vars(CallerStep(c))

-----------------------------------------------------------------------------
(* Properties.                                                             *)

\* An answer that vendor_request returns is the plugin's answer to this call
\* and to no other, although an interrupted call leaves its own on the
\* connection (_receive_response compares the request ids).
OwnAnswer ==
    \A c \in Callers :
        result[c] \in Plugin!Answers \ {"indeterminate"} => result[c] = answer[c]

\* The connection that the next caller will find carries nothing of an earlier
\* call that ended in an error, neither its frame nor an answer still to come
\* (_disconnect_locked on every error).
CleanConnection ==
    \A c \in Callers :
        /\ socket # 0
        /\ via[c] = socket
        /\ \/ c \in travelling
           \/ answer[c] = "open"
           \/ \E i \in DOMAIN inbox : inbox[i].kind = "response" /\ inbox[i].id = c
        => pc[c] \in Holding \/ result[c] = "interrupted"

\* For mutations the transport keeps the promise of the plugin: seen from the
\* caller, an error of the transport that is not OBS_UI_INDETERMINATE is a
\* refusal, the operation neither ran nor will run.  For a read that was sent
\* such an error promises nothing.
SeenBy(c) ==
    CASE result[c] = "none" /\ pc[c] = "idle" -> "idle"
      [] result[c] = "none" /\ pc[c] # "idle" -> "open"
      [] result[c] \in Plugin!Answers -> result[c]
      [] result[c] \in ErrorCodes /\ (mutating[c] \/ ~sent[c]) -> "refused"
      [] OTHER -> "indeterminate"

EndToEnd == INSTANCE VendorCall WITH Calls <- Callers,
                                     answer <- [c \in Callers |-> SeenBy(c)]

ImplementsVendorCall == EndToEnd!Spec

\* Every call returns, though OBS, the network and the plugin stay silent.
CallersReturn == \A c \in Callers : pc[c] = "locking" ~> pc[c] = "done"
=============================================================================
