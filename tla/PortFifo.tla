------------------------------ MODULE PortFifo ------------------------------
(***************************************************************************)
(* What a port promises: while it is open it is a bounded first-in         *)
(* first-out queue; once it is closed its messages are disposed of, each   *)
(* once and in order, and only an empty port is opened again.              *)
(***************************************************************************)
EXTENDS Naturals, Sequences

CONSTANTS
  Port,      \* the ports
  Msg,       \* the messages
  Capacities \* the capacities a port may be opened with

VARIABLES
  open,      \* may messages be sent and received?
  capacity,  \* how many messages a port holds at most
  contents,  \* the messages sent and not handed over yet
  handed     \* the last message handed over, to a receiver or a dispose function

Init ==
  /\ open = [i \in Port |-> FALSE]
  /\ capacity = [i \in Port |-> 0]
  /\ contents = [i \in Port |-> <<>>]
  /\ handed = <<>>

Open(i, c) ==
  /\ ~open[i] /\ contents[i] = <<>>
  /\ open' = [open EXCEPT ![i] = TRUE]
  /\ capacity' = [capacity EXCEPT ![i] = c]
  /\ UNCHANGED <<contents, handed>>

Close(i) ==
  /\ open[i]
  /\ open' = [open EXCEPT ![i] = FALSE]
  /\ UNCHANGED <<capacity, contents, handed>>

Put(i, m) ==
  /\ open[i] /\ Len(contents[i]) < capacity[i]
  /\ contents' = [contents EXCEPT ![i] = Append(@, m)]
  /\ UNCHANGED <<open, capacity, handed>>

\* The oldest message is handed over: to a receiver while the port is open.
HandOver(i, to) ==
  /\ contents[i] # <<>>
  /\ handed' = <<to, i, Head(contents[i])>>
  /\ contents' = [contents EXCEPT ![i] = Tail(@)]
  /\ UNCHANGED <<open, capacity>>

Take(i) == open[i] /\ HandOver(i, "receiver")
Dispose(i) == ~open[i] /\ HandOver(i, "dispose")

Next ==
  \E i \in Port :
    \/ \E c \in Capacities : Open(i, c)
    \/ \E m \in Msg : Put(i, m)
    \/ Close(i) \/ Take(i) \/ Dispose(i)

Spec == Init /\ [][Next]_<<open, capacity, contents, handed>>
=============================================================================
