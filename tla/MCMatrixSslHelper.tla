------------------------- MODULE MCMatrixSslHelper -------------------------
(***************************************************************************)
(* MatrixSslHelper with buffers of two bytes that may grow to four: records *)
(* that fit, that need a larger insock or inbuf, that never fit.            *)
(***************************************************************************)
EXTENDS MatrixSslHelper

Rc(k, l, o) == [kind |-> k, len |-> l, out |-> o]
MCRecord == {Rc("hello", 1, 0), Rc("flight", 1, 2), Rc("finished", 2, 1),
             Rc("data", 1, 0), Rc("data", 3, 3), Rc("data", 5, 1),
             Rc("close", 1, 0), Rc("alert", 1, 0), Rc("bad", 1, 1)}

MCSurroundings ==
  {{"stops", "leaves"},
   {"writable", "nosignal", "zeroed", "session", "stops", "leaves", "halts"},
   {"blocking", "nosignal", "zeroed"}}
=============================================================================
