-------------------------- MODULE MCStreamTransport --------------------------
(* Small instances of StreamTransport for TLC: the client's program, and what
   the server makes of each message.                                        *)
EXTENDS StreamTransport, TLC

CONSTANTS a, b, q1, q2, q3, q4, q5, q6, q7, q8, q9, q10, q11, q12, q13

(* What the users of the two streams send. *)
MCStreamOf == [q \in Reqs |-> IF q \in {q1, q2, q3, q4, q5, q13} THEN a ELSE b]
Program(f, g) == a :> f @@ b :> g
MCScripts ==
    {Program(<<q2, q3, q4>>, <<>>),     \* handlers and the receiver reply at the same time
     Program(<<q4, q1>>, <<q12>>),      \* too large a reply, too large to send
     Program(<<q5, q1>>, <<q8>>),       \* a stream is closed and used again
     Program(<<q2, q1>>, <<q8>>),       \* a reply nobody waits for
     Program(<<q1>>, <<q6, q7>>),       \* a session with a private message
     Program(<<q1>>, <<q10, q11>>),     \* private messages nobody receives
     Program(<<q13>>, <<q9, q8>>)}      \* no reply; a handler ends its stream with io.EOF
MCKindOf ==
    q1 :> "rpc" @@ q2 :> "rpc" @@ q3 :> "garbled" @@ q4 :> "huge" @@ q5 :> "close" @@
    q6 :> "session" @@ q7 :> "private" @@ q8 :> "rpc" @@ q9 :> "eof" @@
    q10 :> "private" @@ q11 :> "private" @@ q12 :> "oversize" @@ q13 :> "mute"

=============================================================================
