---------------------------- MODULE ContentPipe -----------------------------
(***************************************************************************)
(* What a translated stream promises, whatever the two protocols are: text,*)
(* reasoning and the arguments of every tool call are channels that        *)
(* deliver what was said, in order and to the right channel; and a client  *)
(* that is told that the answer is complete has all of it.                 *)
(***************************************************************************)
EXTENDS Sequences, SequencesExt

CONSTANT Channels

VARIABLES
  sent,    \* what the upstream has said, per channel
  heard,   \* what the client has understood, per channel
  closed   \* has the client been told that the answer is complete?

vars == <<sent, heard, closed>>

Init ==
  /\ sent = [c \in Channels |-> <<>>]
  /\ heard = [c \in Channels |-> <<>>]
  /\ closed = FALSE

Say ==
  /\ ~closed
  /\ \A c \in Channels : IsPrefix(sent[c], sent'[c])
  /\ UNCHANGED <<heard, closed>>

Hear ==
  /\ ~closed
  /\ \A c \in Channels : IsPrefix(heard[c], heard'[c]) /\ IsPrefix(heard'[c], sent[c])
  /\ UNCHANGED <<sent, closed>>

Close ==
  /\ ~closed
  /\ heard = sent
  /\ closed' = TRUE
  /\ UNCHANGED <<sent, heard>>

Next == Say \/ Hear \/ Close

Spec == Init /\ [][Next]_vars
=============================================================================
