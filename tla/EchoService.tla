----------------------------- MODULE EchoService -----------------------------
(***************************************************************************)
(* What the echo server promises of a connection, whatever else goes on in *)
(* the server: it is read, and written to after something was received;    *)
(* and it is closed for a cause of its own only. A connection that got no  *)
(* record is neither served nor closed.                                    *)
(***************************************************************************)
CONSTANT Conns

VARIABLES phase,     \* "closed", "reading", "writing", "leaked"
          inbox,     \* what a connection has to read: "none", "data", "eof", "reset"
          overdue    \* connections that were silent for the timeout

vars == <<phase, inbox, overdue>>

Served == {c \in Conns : phase[c] \in {"reading", "writing"}}

Init ==
  /\ phase = [c \in Conns |-> "closed"] /\ inbox = [c \in Conns |-> "none"]
  /\ overdue = {}

Goes(c, to) == phase' = [phase EXCEPT ![c] = to]
Empties(c) == inbox' = [inbox EXCEPT ![c] = "none"]

Accept(c) ==
  /\ phase[c] = "closed" /\ Empties(c) /\ UNCHANGED overdue
  /\ Goes(c, "reading") \/ Goes(c, "leaked")

Receive(c) ==
  /\ phase[c] = "reading" /\ inbox[c] = "data"
  /\ Goes(c, "writing") /\ Empties(c) /\ overdue' = overdue \ {c}

Sent(c) ==
  /\ phase[c] = "writing" /\ Goes(c, "reading")
  /\ overdue' = overdue \ {c} /\ UNCHANGED inbox

(* The client has ended the connection, or was silent, or sending has failed. *)
Close(c) ==
  /\ \/ phase[c] = "reading" /\ inbox[c] \in {"eof", "reset"}
     \/ phase[c] = "writing"
     \/ c \in overdue
  /\ Goes(c, "closed") /\ Empties(c) /\ overdue' = overdue \ {c}

ClientActs(c, what) ==
  /\ c \in Served /\ what # inbox[c]
  /\ inbox' = [inbox EXCEPT ![c] = what] /\ UNCHANGED <<phase, overdue>>

TimePasses ==
  /\ overdue \subseteq overdue' /\ overdue' \subseteq Served
  /\ UNCHANGED <<phase, inbox>>

Next ==
  \/ \E c \in Conns : Accept(c) \/ Receive(c) \/ Sent(c) \/ Close(c)
  \/ \E c \in Conns, what \in {"data", "eof", "reset"} : ClientActs(c, what)
  \/ TimePasses

Spec == Init /\ [][Next]_vars
=============================================================================
