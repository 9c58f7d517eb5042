------------------------------ MODULE Mailbox -------------------------------
(***************************************************************************)
(* What ipc.c promises of the inboxes, whatever their layout: each inbox   *)
(* is a bounded first-in first-out queue of messages; a message enters at  *)
(* the back of one inbox and leaves, once, from the front of that inbox.   *)
(***************************************************************************)
EXTENDS Naturals, Sequences

CONSTANTS
    Boxes,      \* the inboxes
    Messages,   \* what an inbox may hold
    Depth       \* how many messages fit (IPC_QUEUE_DEPTH)

VARIABLES
    inbox,      \* inbox -> sequence of messages
    taken       \* the inbox and message of the latest receive, or None

None == <<>>
mailVars == <<inbox, taken>>

MailInit ==
    /\ inbox = [b \in Boxes |-> <<>>]
    /\ taken = None

Put(b, m) ==
    /\ Len(inbox[b]) < Depth
    /\ inbox' = [inbox EXCEPT ![b] = Append(@, m)]
    /\ UNCHANGED taken

Take(b) ==
    /\ inbox[b] # <<>>
    /\ inbox' = [inbox EXCEPT ![b] = Tail(@)]
    /\ taken' = <<b, Head(inbox[b])>>

MailNext == \E b \in Boxes : Take(b) \/ \E m \in Messages : Put(b, m)

MailSpec == MailInit /\ [][MailNext]_mailVars
=============================================================================
