------------------------- MODULE ConnectionProtocol -------------------------
(***************************************************************************)
(* What the web server promises of its connections, whoever acts on them:  *)
(* a client is read until a request is complete, the request is processed  *)
(* and the answer is sent, in turn; an answer is prepared while it is      *)
(* being sent and at no other time.                                        *)
(***************************************************************************)
CONSTANT Conns

VARIABLES phase,      \* "closed", "reading", "processing", "answering";
                      \* "refused", "astray": see Refuse and Stray
          prepared    \* whether an answer is prepared

vars == <<phase, prepared>>

Init == phase \in [Conns -> {"closed", "reading"}] /\ prepared = [c \in Conns |-> FALSE]

Goes(c, from, to, answer) ==
  /\ phase[c] = from /\ phase' = [phase EXCEPT ![c] = to]
  /\ prepared' = [prepared EXCEPT ![c] = answer]

(* A client is let in; nothing is left over from the one before. *)
Accept(c) == Goes(c, "closed", "reading", FALSE)

(* A client is let in where its predecessor is still in use: nothing is promised *)
(* until it is closed.                                                           *)
Stray(c) == Goes(c, "closed", "astray", FALSE)

(* Something arrives and is handed on; or there is no room for it, and nothing   *)
(* happens to this client any more.                                              *)
Arrive(c) == Goes(c, "reading", "processing", FALSE)
Refuse(c) == Goes(c, "reading", "refused", FALSE)

(* The request is not complete; or it is, and is answered. *)
AskMore(c) == Goes(c, "processing", "reading", FALSE)
Prepare(c) == Goes(c, "processing", "answering", TRUE)

(* The whole answer is sent and the connection is kept. *)
Sent(c) == Goes(c, "answering", "reading", FALSE)

Close(c) == \E from \in {"reading", "processing", "answering", "astray"} :
              Goes(c, from, "closed", FALSE)

(* No step leaves the phase of its connection as it is; that is said first to    *)
(* spare TLC the actions when the server's step is none of these.                *)
Next == \E c \in Conns :
  /\ phase'[c] # phase[c]
  /\ \/ Accept(c) \/ Stray(c) \/ Arrive(c) \/ Refuse(c) \/ AskMore(c) \/ Prepare(c)
     \/ Sent(c) \/ Close(c)

Spec == Init /\ [][Next]_vars
=============================================================================
