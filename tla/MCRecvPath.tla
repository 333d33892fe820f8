----------------------------- MODULE MCRecvPath -----------------------------
(***************************************************************************)
(* Streams for model checking: a package with one data length, then        *)
(* packages with another.  Offsets inside a package get length 0.          *)
(***************************************************************************)
EXTENDS RecvPath

CONSTANTS
  DataLen,   \* data lengths of the packages in the streams
  Main,      \* the connection that carries MaxBytes
  Short      \* what the others carry

MCSends == [c \in Conn |-> IF c = Main THEN MaxBytes ELSE Short]

Second(a) == HEAD_SIZE + a

Stream(a, b) ==
  [o \in 0 .. MaxBytes |->
     IF o = 0 THEN a
     ELSE IF o >= Second(a) /\ (o - Second(a)) % (HEAD_SIZE + b) = 0 THEN b
     ELSE 0]

\* All connections carry the same stream; their bytes differ all the same, by the
\* connection.
MCStreams == {[c \in Conn |-> Stream(a, b)] : a, b \in DataLen}
=============================================================================
