------------------------------ MODULE ChatRoom ------------------------------
(***************************************************************************)
(* What the chat server promises its users, whatever its table, its array  *)
(* and its buffers do: what one says is put up for all others, in place of *)
(* what any member has put up for them before; a user hears what is put up *)
(* for it, once, unless it is replaced, or whoever said it has spoken      *)
(* without effect or left; and only users who have gone are taken out.     *)
(***************************************************************************)
CONSTANTS Users, Messages, NoOne,
          Nothing,       \* no message
          Lost           \* one that was overwritten before it was heard

VARIABLES members,       \* who is in the room
          gone,          \* members whose clients have left
          inbox, said,   \* what a client has said and is still unread; what was said at all
          due,           \* what a member was to hear and has not heard
          text, author   \* what is put up for a member, and who said it

vars == <<members, gone, inbox, said, due, text, author>>

Init ==
  /\ members = {} /\ gone = {} /\ said = {}
  /\ inbox = [c \in Users |-> Nothing] /\ due = [c \in Users |-> {}]
  /\ text = [c \in Users |-> Nothing] /\ author = [c \in Users |-> NoOne]

(* For the users in to, words of a become what is put up. *)
PutUp(to, words, a) ==
  /\ text' = [u \in Users |-> IF u \in to THEN words ELSE text[u]]
  /\ author' = [u \in Users |-> IF u \in to THEN a ELSE author[u]]

ReadersOf(c) == {u \in Users : author[u] = c}

Join(c) ==
  /\ c \notin members /\ members' = members \union {c}
  /\ UNCHANGED <<gone, inbox, said, due, text, author>>

Say(c) ==
  /\ c \in members /\ inbox[c] \in Messages
  /\ inbox' = [inbox EXCEPT ![c] = Nothing]
  /\ due' = [u \in Users |-> IF u \in members \ {c} THEN due[u] \union {inbox[c]} ELSE due[u]]
  /\ PutUp(members \ {c}, inbox[c], c)
  /\ UNCHANGED <<members, gone, said>>

(* Whoever spoke last seems to speak again, and has said nothing. *)
Overwrite(c) ==
  /\ c \in members /\ PutUp(ReadersOf(c), Lost, NoOne)
  /\ UNCHANGED <<members, gone, inbox, said, due>>

Hear(c) ==
  /\ c \in members
  /\ \/ text[c] \in due[c] /\ due' = [due EXCEPT ![c] = @ \ {text[c]}]
     \/ text[c] = Lost /\ \E m \in Messages \union {Nothing} : due' = [due EXCEPT ![c] = @ \ {m}]
  /\ PutUp({c}, Nothing, NoOne)
  /\ UNCHANGED <<members, gone, inbox, said>>

(* What c has said last stays where it is, or all its readers lose it. *)
Leave(c) ==
  /\ c \in gone
  /\ members' = members \ {c} /\ gone' = gone \ {c}
  /\ inbox' = [inbox EXCEPT ![c] = Nothing] /\ due' = [due EXCEPT ![c] = {}]
  /\ \E losers \in {{}, ReadersOf(c)} :
       /\ text' = [u \in Users |-> IF u = c THEN Nothing ELSE IF u \in losers THEN Lost ELSE text[u]]
       /\ author' = [u \in Users |-> IF u \in losers \union {c} THEN NoOne ELSE author[u]]
  /\ UNCHANGED said

ClientSays(c, m) ==
  /\ c \in members \ gone /\ inbox[c] = Nothing /\ m \notin said
  /\ inbox' = [inbox EXCEPT ![c] = m] /\ said' = said \union {m}
  /\ UNCHANGED <<members, gone, due, text, author>>

ClientLeaves(c) ==
  /\ c \in members /\ gone' = gone \union {c}
  /\ UNCHANGED <<members, inbox, said, due, text, author>>

Next ==
  \E c \in Users :
    \/ Join(c) \/ Say(c) \/ Overwrite(c) \/ Hear(c) \/ Leave(c) \/ ClientLeaves(c)
    \/ \E m \in Messages : ClientSays(c, m)

Spec == Init /\ [][Next]_vars
=============================================================================
