-------------------------------- MODULE Pipe --------------------------------
(***************************************************************************)
(* One direction of a ZeroMQ inproc pipe, as worker.cpp uses it: the two   *)
(* sockets of inproc://dispatch and of inproc://results keep ZeroMQ's      *)
(* default high-water marks, so a pipe holds Hwm = 1000 + 1000 messages.   *)
(*                                                                         *)
(* The library is not part of the repository.  What is kept of it is what  *)
(* decides when send() blocks: the sender counts the messages it has       *)
(* written, and learns how many have been read only after every Lwm        *)
(* messages.  A pipe from which Lwm-1 messages were read since its reader  *)
(* last reported has room for Hwm-Lwm+1 messages only, although it is      *)
(* empty.                                                                  *)
(***************************************************************************)
EXTENDS Integers, Sequences

CONSTANT Hwm  \* the high-water mark of one pipe

ASSUME HwmAssumption == Hwm \in Nat \ {0}

\* How many messages the reader takes between two reports to the sender.
Lwm == (Hwm + 1) \div 2

\* queue: written and not yet read, oldest first; unreported: read since the
\* last report.
PipeOf(M) == [queue : Seq(M), unreported : 0 .. Lwm - 1]

EmptyPipe == [queue |-> <<>>, unreported |-> 0]

HasRoom(p) == Len(p.queue) + p.unreported < Hwm

HasMessage(p) == p.queue # <<>>

Put(p, m) == [p EXCEPT !.queue = Append(@, m)]

Take(p) == [queue |-> Tail(p.queue), unreported |-> (p.unreported + 1) % Lwm]

\* The messages a pipe holds for certain before its sender blocks.
PipeRoom == Hwm - Lwm + 1
=============================================================================
