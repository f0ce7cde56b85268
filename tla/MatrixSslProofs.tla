---------------------------- MODULE MatrixSslProofs ----------------------------
(***************************************************************************)
(* Theorems about MatrixSslHelper, for every size of the buffers, all       *)
(* records, all lengths of calls and all surroundings.                      *)
(***************************************************************************)
EXTENDS MatrixSslHelper, TLAPS

\* Which call runs in which step, with a buffer that is not empty; a session
\* without handshake has decoded nothing, and SSL_accept ends with it.
CallInv ==
  /\ At("idle") => op = "none"
  /\ op = "none" => pc \in {"idle", "undefined"}
  /\ pc \in {"recv", "decode", "respond", "finish"} => op \in {"accept", "read"}
  /\ pc \in {"encode", "send"} => op = "write"
  /\ At("null") => op = "accept"
  /\ pc \notin {"idle", "undefined"} => want > 0
  /\ ~hs => decoded = 0
  /\ op = "accept" /\ ~At("respond") /\ ~At("finish") => ~hs

\* insock is packed while a record is looked for in it, and recv has room.
BufInv ==
  /\ InBounds
  /\ pc \in {"recv", "decode"} => insock.off = 0

\* The plaintext in inbuf ends with what is decoded,
DataInv ==
  /\ inbuf.hi = decoded /\ inbuf.lo <= inbuf.hi
  /\ inbuf.lo < inbuf.hi => inbuf.buf
  /\ pc \in {"recv", "decode", "respond", "finish"} => inbuf.lo = inbuf.hi
  /\ At("decode") => inbuf.buf

\* ... and begins with what is not returned yet, as long as SSL_read has not failed or
\* the caller reads no more then: only such a read finds a response in inbuf.
GotInv ==
  "leaves" \in env \/ fd =>
    /\ intact /\ inbuf.lo = got
    /\ resp > 0 /\ pc \notin {"respond", "finish"} =>
         ~(live /\ fd) /\ (pc \in {"idle", "undefined"} \/ op = "write")

\* The mode changes only between the two sends of a response that was cut short,
\* which without signals happens on non-blocking sockets only.
ModeInv ==
  "nosignal" \in env /\ live /\ fd =>
    IF At("finish") THEN blocking /\ ~("blocking" \in env)
                    ELSE blocking <=> "blocking" \in env

IInv == TypeOK /\ CallInv /\ BufInv /\ DataInv /\ GotInv /\ ModeInv

ReadActions == {"accept", "read"}

-----------------------------------------------------------------------------
(* What the steps that several actions share leave behind.                  *)

InType == [buf : BOOLEAN, size : Nat, lo : Nat, hi : Nat]
Status == {"ok", "eof", "closenotify", "errno"}
Ret == {"none", "ok", "zero", "fail", "wrote", "wfail"}

\* The variables of a call, in any state.
RetType ==
  /\ live \in BOOLEAN /\ fd \in BOOLEAN
  /\ status \in Status
  /\ pc \in {"idle", "enter", "recv", "decode", "respond", "finish", "encode", "send",
             "null", "undefined"}
  /\ op \in {"none", "accept", "read", "write"}
  /\ want \in Nat /\ performRead \in BOOLEAN
  /\ ret \in Ret

LEMMA RetTyped == ASSUME TypeOK PROVE RetType
BY DEF TypeOK, RetType, Status, Ret

LEMMA ReturnsType ==
  ASSUME RetType, NEW r \in Ret, NEW s \in Status, Returns(r, s),
         fd' \in BOOLEAN, live' \in BOOLEAN
  PROVE  RetType'
<1>1. pc' = "idle" /\ op' = "none" /\ want' = 0 /\ performRead' = FALSE
      /\ ret' \in Ret /\ status' \in Status
  BY DEF Returns
<1> QED BY <1>1 DEF RetType

LEMMA GotoType ==
  ASSUME RetType, Goto("recv") \/ Goto("decode") \/ Goto("respond") \/ Goto("finish")
                  \/ Goto("encode") \/ Goto("send") \/ Goto("enter")
  PROVE  RetType'
BY DEF RetType, Goto

LEMMA FailType ==
  ASSUME RetType, NEW s \in Status, ReadFails(s) \/ ReadEnds(s)
  PROVE  RetType'
<1>1. PICK r \in Ret : GivesUp(r, s)
  BY DEF ReadFails, ReadEnds, Ret
<1>2. fd' \in BOOLEAN /\ live' \in BOOLEAN
  BY <1>1, Zenon DEF GivesUp
<1>3. Returns(r, s)
  BY <1>1 DEF GivesUp
<1> QED BY <1>2, <1>3, ReturnsType

LEMMA AgainType == ASSUME RetType, ReadAgain PROVE RetType'
<1>1. CASE op = "accept" /\ hs
  <2>1. Returns("ok", "ok") /\ fd' = fd /\ live' = live
    BY <1>1 DEF ReadAgain
  <2> QED BY <2>1, ReturnsType DEF RetType, Ret, Status
<1>2. CASE ~(op = "accept" /\ hs)
  BY <1>2 DEF ReadAgain, RetType, Status
<1> QED BY <1>1, <1>2

LEMMA RecordType ==
  ASSUME TypeOK, Complete
  PROVE  /\ Rec \in Record /\ Tail(wire) \in Seq(Record)
         /\ Rec.len \in Nat \ {0} /\ Rec.out \in Nat /\ Rec.len <= insock.len
<1>1. wire \in Seq(Record) /\ wire # <<>> /\ Rec.len <= insock.len
  BY DEF TypeOK, Complete, Rec
<1>2. Rec \in Record /\ Tail(wire) \in Seq(Record)
  BY <1>1 DEF Rec
<1>3. Rec.len \in Nat \ {0} /\ Rec.out \in Nat
  BY <1>2, RecordAssumption
<1> QED BY <1>1, <1>2, <1>3

LEMMA TakeType ==
  ASSUME TypeOK, BufInv, Complete, TakeRecord
  PROVE  /\ wire' \in Seq(Record) /\ insock' \in Buffer
         /\ insock'.off + insock'.len <= insock'.size
<1>1. /\ Tail(wire) \in Seq(Record)
      /\ Rec.len \in Nat /\ Rec.len <= insock.len
  BY RecordType
<1>2. insock \in Buffer /\ insock.off + insock.len <= insock.size
  BY DEF TypeOK, BufInv, InBounds
<1>3. insock' = [insock EXCEPT !.off = insock.off + Rec.len, !.len = insock.len - Rec.len]
  BY DEF TakeRecord
<1>9. insock' = [size |-> insock.size, off |-> insock.off + Rec.len,
                 len |-> insock.len - Rec.len]
  BY <1>2, <1>3 DEF Buffer
<1>4. insock' \in Buffer /\ insock'.off + insock'.len <= insock'.size
  BY <1>1, <1>2, <1>9 DEF Buffer
<1> QED BY <1>1, <1>4 DEF TakeRecord

\* A call that hands over the next bytes of inbuf leaves the others there.
LEMMA GiveData ==
  ASSUME TypeOK, op = "read", NEW n \in Nat, NEW lo \in Nat, NEW hi \in Nat, n <= hi - lo,
         inbuf.buf, Give(n, lo, hi)
  PROVE  /\ inbuf' \in InType /\ got' \in Nat /\ intact' \in BOOLEAN
         /\ inbuf'.hi = hi /\ inbuf'.lo <= inbuf'.hi /\ inbuf'.buf
         /\ intact /\ lo = got => intact' /\ inbuf'.lo = got'
         /\ RetType'
<1>1. inbuf \in InType /\ got \in Nat /\ intact \in BOOLEAN
  BY DEF TypeOK, InType
<1>2. inbuf' = [inbuf EXCEPT !.lo = lo + n, !.hi = hi]
  BY DEF Give
<1>9. inbuf' = [buf |-> inbuf.buf, size |-> inbuf.size, lo |-> lo + n, hi |-> hi]
  BY <1>1, <1>2 DEF InType
<1>3. inbuf' \in InType /\ inbuf'.lo = lo + n /\ inbuf'.hi = hi /\ inbuf'.buf
  BY <1>1, <1>9 DEF InType
<1>4. got' = got + n /\ intact' = (intact /\ lo = got)
  BY DEF Give
<1>5. intact' \in BOOLEAN /\ (intact /\ lo = got => intact')
  BY <1>4, Zenon
<1>6. Returns("ok", "ok") /\ fd' = fd /\ live' = live
  BY DEF Give
<1>7. RetType'
  BY <1>6, RetTyped, ReturnsType DEF RetType, Ret, Status
<1>8. got' \in Nat /\ inbuf'.lo <= inbuf'.hi
  BY <1>1, <1>3, <1>4
<1>10. lo = got => inbuf'.lo = got'
  BY <1>3, <1>4
<1> QED BY <1>3, <1>5, <1>7, <1>8, <1>10

-----------------------------------------------------------------------------
(* How a call of _ssl_read ends.                                            *)

LEMMA AgainCall ==
  ASSUME IInv, op \in ReadActions, want > 0, ReadAgain
  PROVE  /\ RetType' /\ fd' = fd /\ live' = live
         /\ \/ pc' = "idle" /\ op' = "none"
            \/ pc' = "enter" /\ op' = op /\ want' = want /\ (op = "accept" => ~hs)
<1>1. RetType'
  BY RetTyped, AgainType DEF IInv
<1>2. CASE op = "accept" /\ hs
  BY <1>1, <1>2 DEF ReadAgain, Returns
<1>3. CASE ~(op = "accept" /\ hs)
  BY <1>1, <1>3 DEF ReadAgain
<1> QED BY <1>2, <1>3

LEMMA FailCall ==
  ASSUME IInv, op \in ReadActions, NEW s \in Status, ReadFails(s) \/ ReadEnds(s)
  PROVE  RetType' /\ pc' = "idle" /\ op' = "none" /\ ~(live' /\ fd') /\ (fd' => fd)
<1>1. RetType'
  BY RetTyped, FailType DEF IInv
<1>2. PICK r \in Ret : GivesUp(r, s)
  BY DEF ReadFails, ReadEnds, Ret
<1>3. pc' = "idle" /\ op' = "none"
  BY <1>2 DEF GivesUp, Returns
<1>4. op = "accept" \/ op = "read"
  BY DEF ReadActions
<1>5. ~(live' /\ fd') /\ (fd' => fd)
  <2>1. (fd' <=> fd /\ op # "read") /\ (live' <=> live /\ op # "accept")
    BY <1>2, Zenon DEF GivesUp
  <2> QED BY <2>1, <1>4, Zenon
<1> QED BY <1>1, <1>3, <1>5

-----------------------------------------------------------------------------
(* _ssl_read up to the decoder keeps IInv.                                  *)

\* GotInv survives a step that takes no byte from inbuf and puts no response there.
LEMMA GotKept ==
  ASSUME GotInv, env' = env, intact' = intact, inbuf'.lo = inbuf.lo, got' = got,
         resp' = resp, fd' => fd,
         pc \notin {"respond", "finish", "idle", "undefined"}, op # "write"
  PROVE  GotInv'
<1> SUFFICES ASSUME "leaves" \in env \/ fd
             PROVE  /\ intact' /\ inbuf'.lo = got'
                    /\ ~(resp' > 0)
  BY DEF GotInv
<1> QED BY DEF GotInv

LEMMA StepReceive ==
  ASSUME IInv, Receive, UNCHANGED <<env, writes, made, shut, outVars>>
  PROVE  IInv'
<1> USE DEF At, ReadActions
<1>0. /\ TypeOK /\ CallInv /\ BufInv /\ DataInv /\ GotInv /\ ModeInv /\ RetType
      /\ UNCHANGED <<hs, wire, encoded, sent, blocking, env, writes, made, shut,
                     outsock, outBufferCount, pending>>
  BY RetTyped DEF IInv, Receive, outVars
<1>1. CASE EnterLeftover
  <2>1. pc = "enter" /\ op = "read" /\ UNCHANGED <<insock, decoded, resp>>
    BY <1>0, <1>1 DEF EnterLeftover, Leftover, CallInv, DataInv, TypeOK
  <2>2. AtMost(want, inbuf.hi - inbuf.lo) \in Nat /\ inbuf.lo \in Nat
        /\ AtMost(want, inbuf.hi - inbuf.lo) <= decoded - inbuf.lo
    BY <1>0, <1>1 DEF EnterLeftover, Leftover, DataInv, TypeOK, AtMost
  <2>3. Give(AtMost(want, inbuf.hi - inbuf.lo), inbuf.lo, decoded) /\ inbuf.buf
    BY <1>0, <1>1 DEF EnterLeftover, Leftover, DataInv
  <2>4. /\ inbuf' \in InType /\ got' \in Nat /\ intact' \in BOOLEAN
        /\ inbuf'.hi = decoded /\ inbuf'.lo <= inbuf'.hi /\ inbuf'.buf
        /\ (intact /\ inbuf.lo = got => intact' /\ inbuf'.lo = got')
        /\ RetType'
    BY <1>0, <2>1, <2>2, <2>3, GiveData DEF TypeOK
  <2>5. pc' = "idle" /\ op' = "none" /\ fd' = fd /\ live' = live
    BY <2>1, <2>3, <1>0 DEF Give, Returns, TypeOK
  <2>6. TypeOK'
    BY <1>0, <2>1, <2>4, <2>5 DEF TypeOK, RetType, Status, Ret, InType
  <2>7. CallInv' BY <1>0, <2>1, <2>5 DEF CallInv
  <2>8. BufInv' BY <1>0, <2>1, <2>4, <2>5 DEF BufInv, InBounds
  <2>9. DataInv' BY <2>1, <2>4, <2>5 DEF DataInv
  <2>10. ModeInv' BY <1>0, <2>1, <2>5 DEF ModeInv
  <2>11. GotInv' BY <1>0, <2>1, <2>4, <2>5 DEF GotInv
  <2> QED BY <2>6, <2>7, <2>8, <2>9, <2>10, <2>11 DEF IInv
<1>5. CASE EnterNull
  <2>1. /\ pc = "null" /\ op \in ReadActions /\ ReadFails("ok")
        /\ UNCHANGED <<insock, inbuf, decoded, got, intact, resp>>
    BY <1>0, <1>5 DEF EnterNull, CallInv, plainVars
  <2>2. RetType' /\ pc' = "idle" /\ op' = "none" /\ ~(live' /\ fd') /\ (fd' => fd)
    BY <1>0, <2>1, FailCall DEF IInv, Status
  <2>6. TypeOK'
    BY <1>0, <2>1, <2>2 DEF TypeOK, RetType, Status, Ret
  <2>7. CallInv' BY <1>0, <2>1, <2>2 DEF CallInv
  <2>8. BufInv' BY <1>0, <2>1, <2>2 DEF BufInv, InBounds
  <2>9. DataInv' BY <1>0, <2>1, <2>2 DEF DataInv
  <2>10. ModeInv' BY <1>0, <2>2 DEF ModeInv
  <2>11. GotInv' BY <1>0, <2>1, <2>2, GotKept
  <2> QED BY <2>6, <2>7, <2>8, <2>9, <2>10, <2>11 DEF IInv
<1>6. CASE EnterResponse
  <2> DEFINE n == AtMost(want, resp)
  <2>1. /\ pc = "enter" /\ op \in ReadActions /\ resp > 0
        /\ resp' = resp - n /\ got' = got + n /\ intact' = FALSE
        /\ Returns("ok", "ok") /\ UNCHANGED <<fd, live, insock, inbuf, decoded>>
    BY <1>0, <1>6 DEF EnterResponse, CallInv, TypeOK
  <2>3. n \in Nat /\ n <= resp
    BY <1>0 DEF TypeOK, AtMost
  <2>2. RetType' /\ pc' = "idle" /\ op' = "none"
    <3>1. RetType'
      BY <1>0, <2>1, ReturnsType DEF RetType, Ret, Status
    <3> QED BY <2>1, <3>1 DEF Returns
  <2>4. resp' \in Nat /\ got' \in Nat
    BY <1>0, <2>1, <2>3 DEF TypeOK
  <2>6. TypeOK'
    BY <1>0, <2>1, <2>2, <2>4 DEF TypeOK, RetType, Status, Ret
  <2>7. CallInv' BY <1>0, <2>1, <2>2 DEF CallInv
  <2>8. BufInv' BY <1>0, <2>1, <2>2 DEF BufInv, InBounds
  <2>9. DataInv' BY <1>0, <2>1, <2>2 DEF DataInv
  <2>10. ModeInv' BY <1>0, <2>1, <2>2 DEF ModeInv
  <2>11. ~("leaves" \in env \/ fd)
    BY <1>0, <2>1 DEF GotInv
  <2>12. GotInv' BY <1>0, <2>1, <2>11 DEF GotInv
  <2> QED BY <2>6, <2>7, <2>8, <2>9, <2>10, <2>12 DEF IInv
<1>2. CASE EnterRead
  <2>1. /\ pc = "enter" /\ op \in ReadActions /\ UNCHANGED <<op, want, ret, fd, live>>
        /\ UNCHANGED <<decoded, got, intact, resp>> /\ inbuf.lo = decoded /\ status' = "ok"
        /\ pc' = (IF insock.len = 0 THEN "recv" ELSE "decode")
        /\ performRead' = (insock.len = 0)
    BY <1>0, <1>2 DEF EnterRead, TypeOK, Leftover, CallInv, DataInv
  <2>2. /\ insock' \in Buffer /\ insock'.size = insock.size /\ insock'.off = 0
        /\ insock'.len = insock.len
    BY <1>0, <1>2 DEF EnterRead, TypeOK, Packed, Buffer
  <2>3. /\ inbuf' \in InType /\ inbuf'.lo = decoded /\ inbuf'.hi = decoded
        /\ inbuf'.buf = (insock.len # 0)
    BY <1>0, <1>2 DEF EnterRead, TypeOK, Fresh, InType
  <2>4. performRead' \in BOOLEAN BY <2>1
  <2>6. TypeOK'
    BY <1>0, <2>1, <2>2, <2>3, <2>4 DEF TypeOK, InType
  <2>7. CallInv' BY <1>0, <2>1 DEF CallInv
  <2>8. BufInv' BY <1>0, <2>1, <2>2, <2>3 DEF BufInv, InBounds, Space, Buffer, TypeOK
  <2>9. DataInv'
    <3>1. inbuf'.lo = decoded' /\ inbuf'.hi = decoded' /\ inbuf'.lo <= inbuf'.hi
      BY <1>0, <2>1, <2>3 DEF TypeOK
    <3>2. pc' = "decode" => inbuf'.buf
      BY <2>1, <2>3
    <3> QED BY <1>0, <2>1, <2>3, <3>1, <3>2 DEF DataInv, TypeOK
  <2>10. ModeInv' BY <1>0, <2>1 DEF ModeInv
  <2>11. GotInv' BY <1>0, <2>1, <2>3, GotKept
  <2> QED BY <2>6, <2>7, <2>8, <2>9, <2>10, <2>11 DEF IInv
<1>3. CASE RecvNothing
  <2>1. /\ pc = "recv" /\ op \in ReadActions /\ UNCHANGED <<insock, inbuf, decoded, got, intact, resp>>
        /\ ReadEnds("eof") \/ ReadFails("errno")
    BY <1>0, <1>3 DEF RecvNothing, CallInv, plainVars
  <2>2. RetType' /\ pc' = "idle" /\ op' = "none" /\ ~(live' /\ fd') /\ (fd' => fd)
    BY <1>0, <2>1, FailCall DEF IInv, Status
  <2>6. TypeOK'
    BY <1>0, <2>1, <2>2 DEF TypeOK, RetType, Status, Ret
  <2>7. CallInv' BY <1>0, <2>1, <2>2 DEF CallInv
  <2>8. BufInv' BY <1>0, <2>1, <2>2 DEF BufInv, InBounds
  <2>9. DataInv' BY <1>0, <2>1, <2>2 DEF DataInv
  <2>10. ModeInv' BY <1>0, <2>2 DEF ModeInv
  <2>11. GotInv' BY <1>0, <2>1, <2>2, GotKept
  <2> QED BY <2>6, <2>7, <2>8, <2>9, <2>10, <2>11 DEF IInv
<1>4. ASSUME NEW k \in 1 .. Space, Recv(k) PROVE IInv'
  <2>1. /\ pc = "recv" /\ pc' = "decode" /\ UNCHANGED <<op, want, performRead, ret, status, fd, live>>
        /\ op \in ReadActions /\ UNCHANGED <<decoded, got, intact, resp>> /\ inbuf.lo = decoded
    BY <1>0, <1>4 DEF Recv, Goto, CallInv, DataInv
  <2>2. insock' = [size |-> insock.size, off |-> insock.off, len |-> insock.len + k]
    BY <1>0, <1>4 DEF Recv, TypeOK, Buffer
  <2>3. insock' \in Buffer /\ insock'.off + insock'.len <= insock'.size /\ insock'.off = 0
    BY <1>0, <1>4, <2>1, <2>2 DEF TypeOK, Buffer, Space, BufInv
  <2>4. inbuf' \in InType /\ inbuf'.lo = decoded /\ inbuf'.hi = decoded /\ inbuf'.buf
    BY <1>0, <1>4 DEF Recv, TypeOK, Fresh, InType
  <2>6. TypeOK'
    BY <1>0, <2>1, <2>3, <2>4 DEF TypeOK, InType
  <2>7. CallInv' BY <1>0, <2>1 DEF CallInv
  <2>8. BufInv' BY <1>0, <2>1, <2>3, <2>4 DEF BufInv, InBounds, TypeOK
  <2>9. DataInv' BY <1>0, <2>1, <2>4 DEF DataInv, TypeOK
  <2>10. ModeInv' BY <1>0, <2>1 DEF ModeInv
  <2>11. GotInv' BY <1>0, <2>1, <2>4, GotKept
  <2> QED BY <2>6, <2>7, <2>8, <2>9, <2>10, <2>11 DEF IInv
<1> QED BY <1>1, <1>2, <1>3, <1>4, <1>5, <1>6 DEF Receive

-----------------------------------------------------------------------------
(* The decoder keeps IInv.                                                  *)

\* What a record that leaves insock, and a call that goes on or ends without
\* data, keep.
LEMMA TakeAndReturn ==
  ASSUME IInv, At("decode"), Complete, TakeRecord,
         RetType',
         \/ (pc' = "idle" /\ op' = "none" /\ ~(live' /\ fd') /\ (fd' => fd))
         \/ /\ fd' = fd /\ live' = live /\ blocking' = blocking /\ resp' = resp
            /\ \/ (pc' = "idle" /\ op' = "none")
               \/ (pc' = "enter" /\ op' = op /\ want' = want /\ (op = "accept" => ~hs)),
         blocking' \in BOOLEAN, resp' \in Nat,
         UNCHANGED <<env, writes, made, shut, outVars, sent, hs, plainVars, encoded>>
  PROVE  IInv'
<1> USE DEF At, ReadActions
<1>0. /\ TypeOK /\ CallInv /\ BufInv /\ DataInv /\ GotInv /\ ModeInv
      /\ op \in ReadActions
      /\ UNCHANGED <<hs, encoded, sent, env, writes, made, shut, outsock, outBufferCount,
                     pending, inbuf, decoded, got, intact>>
  BY DEF IInv, outVars, plainVars, CallInv
<1>1. wire' \in Seq(Record) /\ insock' \in Buffer /\ insock'.off + insock'.len <= insock'.size
  BY <1>0, TakeType
<1>2. TypeOK' BY <1>0, <1>1 DEF TypeOK, RetType, Status, Ret
<1>3. CallInv' BY <1>0 DEF CallInv
<1>4. BufInv' BY <1>0, <1>1 DEF BufInv, InBounds
<1>5. DataInv' BY <1>0 DEF DataInv
<1>6. ModeInv'
  <2>1. CASE ~(live' /\ fd')
    BY <2>1 DEF ModeInv
  <2>2. CASE live' = live /\ fd' = fd /\ blocking' = blocking /\ pc' # "finish"
    BY <1>0, <2>2 DEF ModeInv
  <2> QED BY <2>1, <2>2
<1>7. GotInv'
  <2>1. CASE resp' = resp /\ (fd' => fd)
    BY <1>0, <2>1, GotKept
  <2>2. CASE pc' = "idle" /\ ~(live' /\ fd') /\ (fd' => fd)
    BY <1>0, <2>2 DEF GotInv
  <2> QED BY <2>1, <2>2
<1> QED BY <1>2, <1>3, <1>4, <1>5, <1>6, <1>7 DEF IInv

LEMMA GrownHasRoom ==
  ASSUME NEW b \in Buffer, b.off = 0, b.len <= b.size
  PROVE  Grown(b) \in Buffer /\ Grown(b).off = 0 /\ Grown(b).len < Grown(b).size
<1>1. CASE FullBuffer(b)
  <2>1. Grown(b) = [size |-> 2 * b.size, off |-> b.off, len |-> b.len]
    BY <1>1 DEF Buffer, Grown
  <2> QED BY <1>1, <2>1 DEF Buffer, FullBuffer
<1>2. CASE ~FullBuffer(b)
  BY <1>2 DEF Buffer, Grown, FullBuffer
<1> QED BY <1>1, <1>2

LEMMA StepDecode ==
  ASSUME IInv, Decode, UNCHANGED <<env, writes, made, shut, outVars>>
  PROVE  IInv'
<1> USE DEF At, ReadActions
<1>0. /\ TypeOK /\ CallInv /\ BufInv /\ DataInv /\ GotInv /\ ModeInv /\ RetType
      /\ UNCHANGED <<sent, env, writes, made, shut, outVars, outsock, outBufferCount, pending>>
  BY RetTyped DEF IInv, Decode, outVars
<1>a. ASSUME pc = "decode"
      PROVE  /\ op \in ReadActions /\ want > 0 /\ insock.off = 0
             /\ inbuf.lo = decoded /\ inbuf.hi = decoded
             /\ (op = "accept" => ~hs) /\ inbuf.buf
  BY <1>0, <1>a DEF CallInv, DataInv, BufInv
<1>1. CASE DecodeFull
  <2>1. /\ pc = "decode"
        /\ UNCHANGED <<hs, wire, insock, resp, decoded, got, intact, encoded, blocking>>
        /\ UNCHANGED <<pc, op, want, performRead, ret, status, fd, live>>
    BY <1>1 DEF DecodeFull, IsA, retVars
  <2>2. inbuf' = [buf |-> inbuf.buf, size |-> 2 * inbuf.size, lo |-> inbuf.lo, hi |-> inbuf.hi]
    BY <1>0, <1>1 DEF DecodeFull, TypeOK
  <2>6. TypeOK' BY <1>0, <2>1, <2>2 DEF TypeOK
  <2>7. CallInv' BY <1>0, <2>1 DEF CallInv
  <2>8. BufInv' BY <1>0, <2>1, <2>2 DEF BufInv, InBounds
  <2>9. DataInv' BY <1>0, <2>1, <2>2 DEF DataInv
  <2>10. ModeInv' BY <1>0, <2>1 DEF ModeInv
  <2>11. inbuf'.lo = inbuf.lo BY <2>2
  <2>12. GotInv' BY <1>0, <1>a, <2>1, <2>11, GotKept
  <2> QED BY <2>6, <2>7, <2>8, <2>9, <2>10, <2>12 DEF IInv
<1>2. CASE DecodeSuccess
  <2>1. /\ pc = "decode" /\ Complete /\ TakeRecord /\ ReadAgain
        /\ UNCHANGED <<hs, resp, plainVars, encoded, blocking>>
    BY <1>2 DEF DecodeSuccess, IsA
  <2>2. /\ RetType' /\ fd' = fd /\ live' = live
        /\ \/ pc' = "idle" /\ op' = "none"
           \/ pc' = "enter" /\ op' = op /\ want' = want /\ (op = "accept" => ~hs)
    BY <2>1, <1>a, AgainCall
  <2> QED BY <1>0, <2>1, <2>2, TakeAndReturn DEF TypeOK
<1>3. CASE DecodeData
  <2>1. /\ pc = "decode" /\ Complete /\ TakeRecord /\ hs /\ op = "read"
        /\ decoded' = decoded + Rec.out /\ UNCHANGED <<hs, resp, encoded, blocking>>
    BY <1>a, <1>3 DEF DecodeData, IsA
  <2>2. /\ wire' \in Seq(Record) /\ insock' \in Buffer
        /\ insock'.off + insock'.len <= insock'.size /\ Rec.out \in Nat
    BY <1>0, <2>1, TakeType, RecordType
  <2>3. CASE Rec.out = 0
    <3>1. ReadAgain /\ UNCHANGED plainVars
      BY <1>0, <1>3, <2>1, <2>3 DEF DecodeData, plainVars, TypeOK
    <3>2. /\ RetType' /\ fd' = fd /\ live' = live
          /\ \/ pc' = "idle" /\ op' = "none"
             \/ pc' = "enter" /\ op' = op /\ want' = want /\ (op = "accept" => ~hs)
      BY <2>1, <3>1, <1>a, AgainCall
    <3> QED BY <1>0, <2>1, <3>1, <3>2, TakeAndReturn DEF TypeOK
  <2>4. CASE Rec.out # 0
    <3>1. Give(AtMost(want, Rec.out), decoded, decoded + Rec.out)
      BY <1>3, <2>4 DEF DecodeData
    <3>2. /\ inbuf.buf /\ AtMost(want, Rec.out) \in Nat /\ decoded + Rec.out \in Nat
          /\ AtMost(want, Rec.out) <= (decoded + Rec.out) - decoded /\ decoded \in Nat
      BY <1>0, <1>a, <2>1, <2>2 DEF AtMost, TypeOK
    <3>4. /\ inbuf' \in InType /\ got' \in Nat /\ intact' \in BOOLEAN
          /\ inbuf'.hi = decoded + Rec.out
          /\ inbuf'.lo <= inbuf'.hi /\ inbuf'.buf /\ RetType'
          /\ (intact /\ decoded = got => intact' /\ inbuf'.lo = got')
      BY <1>0, <1>a, <2>1, <3>1, <3>2, GiveData
    <3>5. pc' = "idle" /\ op' = "none" /\ fd' = fd /\ live' = live
      BY <1>0, <2>1, <3>1 DEF Give, Returns, TypeOK
    <3>6. TypeOK'
      BY <1>0, <2>1, <2>2, <3>2, <3>4, <3>5 DEF TypeOK, RetType, Status, Ret, InType
    <3>7. CallInv' BY <1>0, <2>1, <3>5 DEF CallInv
    <3>8. BufInv' BY <1>0, <2>1, <2>2, <3>4, <3>5 DEF BufInv, InBounds
    <3>9. DataInv' BY <2>1, <3>4, <3>5 DEF DataInv
    <3>10. ModeInv' BY <1>0, <2>1, <3>5 DEF ModeInv
    <3>11. "leaves" \in env \/ fd => intact /\ decoded = got /\ ~(resp > 0)
      BY <1>0, <1>a, <2>1 DEF GotInv
    <3>12. pc' = "idle" /\ resp' = resp /\ env' = env /\ fd' = fd
      BY <1>0, <2>1, <3>5
    <3>13. GotInv' BY <3>4, <3>11, <3>12 DEF GotInv
    <3> QED BY <3>6, <3>7, <3>8, <3>9, <3>10, <3>13 DEF IInv
  <2> QED BY <2>3, <2>4
<1>4. CASE DecodeResponse
  <2>1. /\ pc = "decode" /\ Complete /\ TakeRecord /\ Goto("respond")
        /\ hs' = (hs \/ Rec.kind = "finished") /\ resp' = Rec.out
        /\ encoded' = Append(encoded, Response)
        /\ UNCHANGED <<inbuf, decoded, got, intact, blocking>>
    BY <1>4 DEF DecodeResponse, IsA, plainVars
  <2>2. /\ wire' \in Seq(Record) /\ insock' \in Buffer
        /\ insock'.off + insock'.len <= insock'.size /\ Rec.out \in Nat
    BY <1>0, <2>1, TakeType, RecordType
  <2>3. hs' \in BOOLEAN /\ (~hs' => ~hs)
    BY <2>1, Zenon
  <2>4. encoded' \in Seq(Int)
    BY <1>0, <2>1 DEF TypeOK, Response
  <2>5. pc' = "respond" /\ UNCHANGED <<op, want, performRead, ret, status, fd, live>>
    BY <2>1 DEF Goto
  <2>6. TypeOK' BY <1>0, <2>1, <2>2, <2>3, <2>4, <2>5 DEF TypeOK
  <2>7. CallInv' BY <1>0, <1>a, <2>1, <2>3, <2>5 DEF CallInv
  <2>8. BufInv' BY <1>0, <2>1, <2>2, <2>5 DEF BufInv, InBounds
  <2>9. DataInv' BY <1>0, <2>1, <2>5 DEF DataInv
  <2>10. ModeInv' BY <1>0, <2>1, <2>5 DEF ModeInv
  <2>11. GotInv' BY <1>0, <2>1, <2>5 DEF GotInv
  <2> QED BY <2>6, <2>7, <2>8, <2>9, <2>10, <2>11 DEF IInv
<1>5. CASE DecodeError
  <2>1. /\ pc = "decode" /\ Complete /\ TakeRecord /\ ReadFails("ok")
        /\ blocking' = (blocking /\ Rec.out = 0) /\ resp' = Rec.out
        /\ UNCHANGED <<hs, plainVars, encoded>>
    BY <1>5 DEF DecodeError, IsA
  <2>2. blocking' \in BOOLEAN
    BY <2>1, Zenon
  <2>4. resp' \in Nat
    BY <1>0, <2>1, RecordType
  <2>3. RetType' /\ pc' = "idle" /\ op' = "none" /\ ~(live' /\ fd') /\ (fd' => fd)
    BY <1>a, <2>1, FailCall DEF Status
  <2> QED BY <1>0, <2>1, <2>2, <2>3, <2>4, TakeAndReturn DEF TypeOK
<1>6. CASE DecodeAlert
  <2>1. /\ pc = "decode" /\ Complete /\ TakeRecord
        /\ ReadFails("ok") \/ ReadEnds("closenotify")
        /\ UNCHANGED <<hs, resp, plainVars, encoded, blocking>>
    BY <1>6 DEF DecodeAlert, IsA
  <2>3. RetType' /\ pc' = "idle" /\ op' = "none" /\ ~(live' /\ fd') /\ (fd' => fd)
    BY <1>a, <2>1, FailCall DEF Status
  <2> QED BY <1>0, <2>1, <2>3, TakeAndReturn DEF TypeOK
<1>7. CASE DecodePartial
  <2>1. /\ pc = "decode" /\ insock.off = 0
        /\ UNCHANGED <<hs, wire, resp, decoded, got, intact, encoded, blocking>>
    BY <1>a, <1>7 DEF DecodePartial
  <2>4. \/ ReadFails("ok") /\ UNCHANGED <<insock, inbuf>>
        \/ /\ insock' = Grown(insock)
           /\ \/ ReadAgain /\ UNCHANGED inbuf
              \/ /\ performRead' = TRUE /\ pc' = "recv" /\ inbuf' = Fresh(FALSE)
                 /\ UNCHANGED <<status, fd, live, op, want, ret>>
    BY <1>7 DEF DecodePartial
  <2>2. CASE ReadFails("ok") /\ UNCHANGED <<insock, inbuf>>
    <3>1. RetType' /\ pc' = "idle" /\ op' = "none" /\ ~(live' /\ fd') /\ (fd' => fd)
      BY <1>a, <2>1, <2>2, FailCall DEF Status
    <3>6. TypeOK' BY <1>0, <2>1, <2>2, <3>1 DEF TypeOK, RetType, Status, Ret
    <3>7. CallInv' BY <1>0, <2>1, <3>1 DEF CallInv
    <3>8. BufInv' BY <1>0, <2>1, <2>2, <3>1 DEF BufInv, InBounds
    <3>9. DataInv' BY <1>0, <2>1, <2>2, <3>1 DEF DataInv
    <3>10. ModeInv' BY <1>0, <3>1 DEF ModeInv
    <3>11. GotInv' BY <1>0, <1>a, <2>1, <2>2, <3>1, GotKept
    <3> QED BY <3>6, <3>7, <3>8, <3>9, <3>10, <3>11 DEF IInv
  <2>3. CASE /\ insock' = Grown(insock)
             /\ \/ ReadAgain /\ UNCHANGED inbuf
                \/ /\ performRead' = TRUE /\ pc' = "recv" /\ inbuf' = Fresh(FALSE)
                   /\ UNCHANGED <<status, fd, live, op, want, ret>>
    <3>1. /\ insock' \in Buffer /\ insock'.off = 0 /\ insock'.len < insock'.size
      <4>1. insock \in Buffer /\ insock.off = 0 /\ insock.len <= insock.size
        BY <1>0, <2>1 DEF TypeOK, BufInv, InBounds, Buffer
      <4> QED BY <2>3, <4>1, GrownHasRoom
    <3>2. CASE ReadAgain /\ UNCHANGED inbuf
      <4>2. /\ RetType' /\ fd' = fd /\ live' = live
            /\ \/ pc' = "idle" /\ op' = "none"
               \/ pc' = "enter" /\ op' = op /\ want' = want /\ (op = "accept" => ~hs)
        BY <2>1, <3>2, <1>a, AgainCall
      <4>6. TypeOK' BY <1>0, <2>1, <3>1, <3>2, <4>2 DEF TypeOK, RetType, Status, Ret
      <4>7. CallInv' BY <1>0, <1>a, <2>1, <4>2 DEF CallInv
      <4>8. BufInv' BY <1>0, <2>1, <3>1, <3>2, <4>2 DEF BufInv, InBounds, TypeOK, Buffer
      <4>9. DataInv' BY <1>0, <2>1, <3>2, <4>2 DEF DataInv
      <4>10. ModeInv' BY <1>0, <2>1, <4>2 DEF ModeInv
      <4>11. GotInv' BY <1>0, <1>a, <2>1, <3>2, <4>2, GotKept
      <4> QED BY <4>6, <4>7, <4>8, <4>9, <4>10, <4>11 DEF IInv
    <3>3. CASE /\ performRead' = TRUE /\ pc' = "recv" /\ inbuf' = Fresh(FALSE)
               /\ UNCHANGED <<status, fd, live, op, want, ret>>
      <4>1. inbuf' \in InType /\ inbuf'.lo = decoded /\ inbuf'.hi = decoded
        BY <1>0, <3>3 DEF TypeOK, Fresh, InType
      <4>2. pc' = "recv" /\ status' = status /\ fd' = fd /\ live' = live /\ op' = op
            /\ want' = want /\ ret' = ret /\ performRead' \in BOOLEAN
        BY <3>3
      <4>6. TypeOK' BY <1>0, <2>1, <3>1, <4>1, <4>2 DEF TypeOK, InType
      <4>7. CallInv' BY <1>0, <2>1, <4>2 DEF CallInv
      <4>8. BufInv' BY <1>0, <2>1, <3>1, <4>1, <4>2 DEF BufInv, InBounds, TypeOK, Buffer, Space
      <4>9. DataInv' BY <1>0, <1>a, <2>1, <4>1, <4>2 DEF DataInv, TypeOK
      <4>10. ModeInv' BY <1>0, <2>1, <4>2 DEF ModeInv
      <4>11. GotInv' BY <1>0, <1>a, <2>1, <4>1, <4>2, GotKept
      <4> QED BY <4>6, <4>7, <4>8, <4>9, <4>10, <4>11 DEF IInv
    <3> QED BY <2>3, <3>2, <3>3
  <2> QED BY <2>2, <2>3, <2>4
<1> QED BY <1>1, <1>2, <1>3, <1>4, <1>5, <1>6, <1>7 DEF Decode

-----------------------------------------------------------------------------
(* The sending of a response keeps IInv.                                    *)

LEMMA StepRespond ==
  ASSUME IInv, Respond, UNCHANGED <<env, writes, made, shut, outVars>>
  PROVE  IInv'
<1> USE DEF At, ReadActions
<1>0. /\ TypeOK /\ CallInv /\ BufInv /\ DataInv /\ GotInv /\ ModeInv /\ RetType
      /\ UNCHANGED <<hs, wire, insock, inbuf, decoded, got, intact, encoded, env, writes,
                     made, shut, outsock, outBufferCount, pending>>
      /\ pc \in {"respond", "finish"} /\ op \in ReadActions /\ want > 0
  BY RetTyped DEF IInv, Respond, RespondAll, RespondPart, RespondRest, RespondFails,
                  outVars, plainVars, CallInv
<1>a. ASSUME RetType', sent' \in Seq(Int), resp' \in Nat, blocking' \in BOOLEAN, ModeInv',
             fd' => fd,
             resp' = 0 \/ pc' = "finish" \/ (pc' = "idle" /\ ~(live' /\ fd')),
             \/ pc' = "idle" /\ op' = "none"
             \/ pc' = "enter" /\ op' = op /\ want' = want /\ (op = "accept" => ~hs)
             \/ pc' = "finish" /\ op' = op /\ want' = want
      PROVE  IInv'
  <2>1. TypeOK' BY <1>0, <1>a DEF TypeOK, RetType, Status, Ret
  <2>2. CallInv' BY <1>0, <1>a DEF CallInv
  <2>3. BufInv' BY <1>0, <1>a DEF BufInv, InBounds
  <2>4. DataInv' BY <1>0, <1>a DEF DataInv
  <2>5. GotInv' BY <1>0, <1>a DEF GotInv
  <2> QED BY <1>a, <2>1, <2>2, <2>3, <2>4, <2>5 DEF IInv
<1>b. ASSUME ReadAgain
      PROVE  /\ RetType' /\ fd' = fd /\ live' = live
             /\ \/ pc' = "idle" /\ op' = "none"
                \/ pc' = "enter" /\ op' = op /\ want' = want /\ (op = "accept" => ~hs)
  BY <1>0, <1>b, AgainCall
<1>1. CASE RespondAll
  <2>1. sent' = Append(sent, Response) /\ resp' = 0 /\ ReadAgain /\ blocking' = blocking
        /\ pc = "respond"
    BY <1>1 DEF RespondAll
  <2>2. sent' \in Seq(Int) BY <1>0, <2>1 DEF TypeOK, Response
  <2>3. ModeInv' BY <1>0, <1>b, <2>1 DEF ModeInv
  <2> QED BY <1>0, <1>a, <1>b, <2>1, <2>2, <2>3 DEF TypeOK
<1>2. ASSUME NEW k \in -1 .. resp, RespondPart(k) PROVE IInv'
  <2>1. /\ pc = "respond" /\ k < resp
        /\ sent' = (IF k = -1 THEN Append(sent, Garbage) ELSE sent)
        /\ resp' = resp - k /\ blocking' = TRUE /\ pc' = "finish"
        /\ UNCHANGED <<op, want, performRead, ret, status, fd, live>>
    BY <1>2 DEF RespondPart, Goto
  <2>2. sent' \in Seq(Int) BY <1>0, <2>1 DEF TypeOK, Garbage
  <2>3. resp' \in Nat BY <1>0, <2>1 DEF TypeOK
  <2>4. RetType' BY <1>0, <2>1 DEF RetType
  <2>5. "nosignal" \in env => ~blocking
    BY <1>2 DEF RespondPart, WouldBlock, Cut, Holds
  <2>6. ModeInv' BY <1>0, <2>1, <2>5 DEF ModeInv
  <2> QED BY <1>a, <2>1, <2>2, <2>3, <2>4, <2>6
<1>3. ASSUME NEW what \in {Response, Part}, RespondRest(what) PROVE IInv'
  <2>1. /\ pc = "finish" /\ sent' = Append(sent, what) /\ resp' = 0 /\ ReadAgain
        /\ blocking' = FALSE
    BY <1>3 DEF RespondRest, ModeAfter
  <2>2. sent' \in Seq(Int) BY <1>0, <2>1 DEF TypeOK, Response, Part
  <2>3. ModeInv' BY <1>0, <1>b, <2>1 DEF ModeInv
  <2> QED BY <1>a, <1>b, <2>1, <2>2, <2>3
<1>4. CASE RespondFails
  <2>1. resp' = resp /\ ReadFails("errno") /\ sent' = sent /\ blocking' = blocking
    BY <1>4 DEF RespondFails
  <2>2. RetType' /\ pc' = "idle" /\ op' = "none" /\ ~(live' /\ fd') /\ (fd' => fd)
    BY <1>0, <2>1, FailCall DEF Status
  <2>3. ModeInv' BY <2>2 DEF ModeInv
  <2> QED BY <1>0, <1>a, <2>1, <2>2, <2>3 DEF TypeOK
<1> QED BY <1>1, <1>2, <1>3, <1>4 DEF Respond

-----------------------------------------------------------------------------
(* SSL_write keeps IInv: it leaves the other direction alone.               *)

LEMMA StepWrite ==
  ASSUME IInv, WriteStep
  PROVE  IInv'
<1> USE DEF At
<1>0. /\ TypeOK /\ CallInv /\ BufInv /\ DataInv /\ GotInv /\ ModeInv /\ RetType
      /\ UNCHANGED <<env, writes, hs, wire, made, shut, insock, resp, inbuf, decoded, got,
                     intact, blocking, live>>
      /\ pc \in {"enter", "encode", "send"} /\ op = "write" /\ want > 0
  BY RetTyped DEF IInv, WriteStep, EnterWrite, Encode, SendAll, SendFails, SendPart,
                  plainVars, CallInv
<1>a. ASSUME RetType', fd' = fd, outsock' \in Buffer, outBufferCount' \in Int,
             outsock'.off + outsock'.len <= outsock'.size,
             pending' \in Seq(Int), encoded' \in Seq(Int), sent' \in Seq(Int),
             \/ pc' = "idle" /\ op' = "none"
             \/ pc' \in {"enter", "encode", "send"} /\ op' = op /\ want' = want
      PROVE  IInv'
  <2>1. TypeOK' BY <1>0, <1>a DEF TypeOK, RetType, Status, Ret
  <2>2. CallInv' BY <1>0, <1>a DEF CallInv
  <2>3. BufInv' BY <1>0, <1>a DEF BufInv, InBounds
  <2>4. DataInv' BY <1>0, <1>a DEF DataInv
  <2>5. ModeInv' BY <1>0, <1>a DEF ModeInv
  <2>6. GotInv' BY <1>0, <1>a DEF GotInv
  <2> QED BY <2>1, <2>2, <2>3, <2>4, <2>5, <2>6 DEF IInv
<1>b. ASSUME NEW r \in Ret, NEW s \in Status, Returns(r, s), fd' = fd
      PROVE  RetType' /\ pc' = "idle" /\ op' = "none"
  <2>1. RetType' BY <1>0, <1>b, ReturnsType DEF RetType
  <2> QED BY <1>b, <2>1 DEF Returns
<1>c. /\ outsock = [size |-> outsock.size, off |-> outsock.off, len |-> outsock.len]
      /\ outsock.size \in Nat \ {0} /\ outsock.off \in Nat /\ outsock.len \in Nat
      /\ outsock.off + outsock.len <= outsock.size
  BY <1>0 DEF TypeOK, Buffer, BufInv, InBounds
<1>d. pending \in Seq(Int) /\ encoded \in Seq(Int) /\ sent \in Seq(Int) /\ writes \in Int
      /\ outBufferCount \in Int /\ want \in Nat /\ Len2Wire \in Nat
  BY <1>0, LengthAssumption DEF TypeOK
<1>1. CASE EnterWrite
  <2>1. outsock' = [size |-> outsock.size, off |-> 0, len |-> outsock.len]
        /\ UNCHANGED <<outBufferCount, pending, encoded, sent, fd>>
    BY <1>1, <1>c DEF EnterWrite, Packed
  <2>2. outsock' \in Buffer /\ outsock'.off + outsock'.len <= outsock'.size
    BY <1>c, <2>1 DEF Buffer
  <2>3. CASE Returns("wfail", "ok")
    <3>1. RetType' /\ pc' = "idle" /\ op' = "none"
      BY <1>b, <2>1, <2>3 DEF Ret, Status
    <3> QED BY <1>a, <1>d, <2>1, <2>2, <3>1
  <2>4. CASE /\ pc' \in {"encode", "send"} /\ status' = "ok"
             /\ UNCHANGED <<op, want, performRead, ret>>
    <3>1. RetType' BY <1>0, <2>1, <2>4 DEF RetType, Status
    <3> QED BY <1>a, <1>d, <2>1, <2>2, <2>4, <3>1
  <2> QED BY <1>1, <2>3, <2>4 DEF EnterWrite
<1>2. CASE Encode
  <2> DEFINE n == want + Len2Wire
  <2>1. outBufferCount' = outBufferCount /\ sent' = sent
    BY <1>2 DEF Encode
  <2>2. CASE /\ n <= outsock.size - outsock.off - outsock.len
             /\ outsock' = [outsock EXCEPT !.len = @ + n]
             /\ pending' = Append(pending, writes) /\ encoded' = Append(encoded, writes)
             /\ Goto("send")
    <3>1. outsock' = [size |-> outsock.size, off |-> outsock.off, len |-> outsock.len + n]
      BY <1>c, <2>2
    <3>5. n \in Nat /\ n <= outsock.size - outsock.off - outsock.len
      BY <1>d, <2>2
    <3> HIDE DEF n
    <3>2. outsock' \in Buffer /\ outsock'.off + outsock'.len <= outsock'.size
      BY <1>c, <3>1, <3>5 DEF Buffer
    <3>3. pending' \in Seq(Int) /\ encoded' \in Seq(Int)
      BY <1>d, <2>2
    <3>4. RetType' /\ pc' = "send" /\ UNCHANGED <<op, want, fd>>
      BY <1>0, <2>2, GotoType DEF Goto
    <3> QED BY <1>a, <1>d, <2>1, <3>2, <3>3, <3>4
  <2>3. CASE /\ outsock' = [outsock EXCEPT !.size = 2 * @]
             /\ UNCHANGED <<pending, encoded, retVars>>
    <3>1. outsock' = [size |-> 2 * outsock.size, off |-> outsock.off, len |-> outsock.len]
      BY <1>c, <2>3
    <3>2. outsock' \in Buffer /\ outsock'.off + outsock'.len <= outsock'.size
      BY <1>c, <3>1 DEF Buffer
    <3>3. RetType' /\ UNCHANGED <<pc, op, want, fd, pending, encoded>>
      BY <1>0, <2>3 DEF RetType, retVars
    <3> QED BY <1>0, <1>a, <1>d, <2>1, <3>2, <3>3
  <2>4. CASE Returns("wfail", "ok") /\ UNCHANGED <<outsock, pending, encoded, fd>>
    <3>1. RetType' /\ pc' = "idle" /\ op' = "none"
      BY <1>b, <2>4 DEF Ret, Status
    <3>2. outsock' \in Buffer /\ outsock'.off + outsock'.len <= outsock'.size
      BY <1>0, <1>c, <2>4 DEF TypeOK
    <3> QED BY <1>a, <1>d, <2>1, <2>4, <3>1, <3>2
  <2> QED BY <1>2, <2>2, <2>3, <2>4 DEF Encode
<1>3. CASE SendAll
  <2>1. outsock' = [size |-> outsock.size, off |-> outsock.off + outsock.len, len |-> 0]
        /\ outBufferCount' = 0
        /\ sent' = sent \o pending /\ pending' = <<>> /\ encoded' = encoded /\ fd' = fd
    BY <1>3, <1>c DEF SendAll, CountAfter
  <2>2. outsock' \in Buffer /\ outsock'.off + outsock'.len <= outsock'.size
    BY <1>c, <2>1 DEF Buffer
  <2>3. sent' \in Seq(Int) /\ pending' \in Seq(Int) /\ outBufferCount' \in Int
    BY <1>d, <2>1
  <2>4. RetType' /\ pc' = "idle" /\ op' = "none"
    BY <1>b, <1>3, <2>1 DEF SendAll, Ret, Status
  <2> QED BY <1>a, <1>d, <2>1, <2>2, <2>3, <2>4
<1>4. ASSUME NEW k \in 1 .. outsock.len, SendPart(k) PROVE IInv'
  <2>1. outsock' = [size |-> outsock.size, off |-> outsock.off + k, len |-> outsock.len - k]
        /\ k < outsock.len /\ outBufferCount' = want
        /\ sent' = sent /\ pending' = pending /\ encoded' = encoded
    BY <1>4, <1>c DEF SendPart, Remembered
  <2>2. outsock' \in Buffer /\ outsock'.off + outsock'.len <= outsock'.size
    BY <1>c, <1>4, <2>1 DEF Buffer
  <2>3. RetType' /\ pc' = "enter" /\ UNCHANGED <<op, want, fd>>
    BY <1>0, <1>4, GotoType DEF SendPart, Goto
  <2> QED BY <1>a, <1>d, <2>1, <2>2, <2>3
<1>5. CASE SendFails
  <2>1. Returns("wfail", "errno")
        /\ UNCHANGED <<outsock, outBufferCount, pending, encoded, sent, fd>>
    BY <1>5 DEF SendFails, outVars
  <2>2. outsock' \in Buffer /\ outsock'.off + outsock'.len <= outsock'.size
    BY <1>0, <1>c, <2>1 DEF TypeOK
  <2>4. RetType' /\ pc' = "idle" /\ op' = "none"
    BY <1>b, <2>1 DEF Ret, Status
  <2> QED BY <1>a, <1>d, <2>1, <2>2, <2>4
<1> QED BY <1>1, <1>2, <1>3, <1>4, <1>5 DEF WriteStep

-----------------------------------------------------------------------------
(* The peer, the caller, and the theorems.                                  *)

LEMMA StepOther ==
  ASSUME IInv, Peer \/ Caller
  PROVE  IInv'
<1> USE DEF At
<1>0. /\ TypeOK /\ CallInv /\ BufInv /\ DataInv /\ GotInv /\ ModeInv
      /\ UNCHANGED <<env, hs, insock, resp, inbuf, decoded, got, intact, outsock,
                     outBufferCount, pending, encoded, sent, blocking>>
  BY DEF IInv, Peer, Caller, plainVars, outVars
<1>1. ASSUME TypeOK', CallInv', pc' \in {"recv", "decode", "respond", "finish"} => pc' = pc,
             fd' = fd, live' => live,
             pc' = "finish" <=> pc = "finish", pc' = "respond" <=> pc = "respond",
             \/ pc' = pc /\ op' = op
             \/ pc' \in {"idle", "undefined"}
             \/ live' /\ op' = "read" /\ ("leaves" \in env => fd)
             \/ live' /\ op' = "write"
      PROVE  IInv'
  <2>1. BufInv' BY <1>0, <1>1 DEF BufInv, InBounds, Space
  <2>2. DataInv' BY <1>0, <1>1 DEF DataInv
  <2>3. ModeInv' BY <1>0, <1>1 DEF ModeInv
  <2>4. GotInv' BY <1>0, <1>1 DEF GotInv
  <2> QED BY <1>1, <2>1, <2>2, <2>3, <2>4 DEF IInv
<1>2. CASE Peer
  <2>1. UNCHANGED <<writes, pc, op, want, performRead, ret, status, fd, live>>
    BY <1>2 DEF Peer, retVars
  <2>2. wire' \in Seq(Record) /\ made' \in Nat /\ shut' \in BOOLEAN
    <3>1. wire \in Seq(Record) /\ made \in Nat /\ shut \in BOOLEAN
      BY <1>0 DEF TypeOK
    <3>2. CASE PeerCloses
      BY <3>1, <3>2 DEF PeerCloses
    <3>3. ASSUME NEW r \in Record, PeerSends(r)
          PROVE  wire' \in Seq(Record) /\ made' \in Nat /\ shut' \in BOOLEAN
      BY <3>1, <3>3 DEF PeerSends
    <3> QED BY <1>2, <3>2, <3>3 DEF Peer
  <2>3. TypeOK' BY <1>0, <2>1, <2>2 DEF TypeOK
  <2>4. CallInv' BY <1>0, <2>1 DEF CallInv
  <2> QED BY <1>1, <2>1, <2>3, <2>4
<1>3. CASE SSL_free
  <2>1. /\ UNCHANGED <<wire, made, shut, performRead, status, fd, pc, op, want, writes>>
        /\ pc = "idle" /\ live' = FALSE /\ ret' = "none"
    BY <1>3, <1>0 DEF SSL_free, Caller, Peer, retVars
  <2>4. live' \in BOOLEAN /\ ret' \in {"none"} /\ ~live'
    BY <2>1
  <2>5. UNCHANGED <<wire, made, shut, performRead, status, fd, pc, op, want, writes>>
    BY <2>1
  <2>2. TypeOK' BY <1>0, <2>4, <2>5 DEF TypeOK
  <2>3. CallInv' BY <1>0, <2>1 DEF CallInv
  <2> QED BY <1>1, <2>1, <2>2, <2>3
<1>4. ASSUME NEW o \in {"read", "write"}, NEW n \in Nat \ {0}, Begin(o, n), pc = "idle",
             writes' \in Nat, UNCHANGED <<wire, made, shut>>,
             o = "read" => ("leaves" \in env => fd)
      PROVE  IInv'
  <2>1. UNCHANGED <<performRead, ret, status, fd, live>>
    BY <1>4 DEF Begin
  <2>2. CASE live
    <3>1. pc' = "enter" /\ op' = o /\ want' = n
      BY <1>4, <2>2 DEF Begin
    <3>2. TypeOK' BY <1>0, <1>4, <2>1, <3>1 DEF TypeOK
    <3>3. CallInv' BY <1>0, <1>4, <3>1 DEF CallInv
    <3> QED BY <1>1, <1>4, <2>1, <2>2, <3>1, <3>2, <3>3
  <2>3. CASE ~live
    <3>1. pc' = "undefined" /\ op' = op /\ want' = want
      BY <1>4, <2>3 DEF Begin
    <3>2. TypeOK' BY <1>0, <1>4, <2>1, <3>1 DEF TypeOK
    <3>3. CallInv' BY <1>0, <1>4, <3>1 DEF CallInv
    <3> QED BY <1>1, <1>4, <2>1, <3>1, <3>2, <3>3
  <2> QED BY <2>2, <2>3
<1>5. ASSUME Caller, SSL_read PROVE IInv'
  <2>1. PICK n \in ReadLen : Begin("read", n)
    BY <1>5 DEF SSL_read
  <2>2. n \in Nat \ {0}
    BY LengthAssumption
  <2> QED BY <1>0, <1>4, <1>5, <2>1, <2>2 DEF SSL_read, MayCall, Caller, Holds, TypeOK
<1>6. ASSUME Caller, SSL_write PROVE IInv'
  <2>1. PICK n \in WriteLen : Begin("write", n)
    BY <1>6 DEF SSL_write
  <2>2. n \in Nat \ {0}
    BY LengthAssumption
  <2>3. writes' \in Nat
    BY <1>0, <1>6 DEF SSL_write, TypeOK
  <2> QED BY <1>0, <1>4, <1>6, <2>1, <2>2, <2>3 DEF SSL_write, MayCall, Caller
<1> QED BY <1>2, <1>3, <1>5, <1>6 DEF Caller

LEMMA InitIInv == ASSUME Init PROVE IInv
<1> USE DEF Init, At
<1>0. /\ outsock \in Buffer /\ insock \in Buffer /\ BufSize > 0 /\ BufSize \in Nat
      /\ outsock.off = 0 /\ outsock.len = 0 /\ outsock.size = BufSize
      /\ insock.off = 0 /\ insock.len = 0 /\ insock.size = BufSize
  BY SizeAssumption DEF Buffer
<1>1. outBufferCount \in Int
  BY LengthAssumption
<1>2. env \in SUBSET Discipline
  BY SurroundingsAssumption
<1>3. blocking \in BOOLEAN /\ (blocking <=> "blocking" \in env)
  BY DEF Holds
<1>9. pc \in {"enter", "null", "undefined"}
  BY DEF FirstStep
<1>4. TypeOK
  <2>1. /\ wire \in Seq(Record) /\ pending \in Seq(Int) /\ encoded \in Seq(Int)
        /\ sent \in Seq(Int)
    OBVIOUS
  <2>2. inbuf \in [buf : BOOLEAN, size : Nat, lo : Nat, hi : Nat]
    OBVIOUS
  <2> QED BY <1>0, <1>1, <1>2, <1>3, <1>9, <2>1, <2>2 DEF TypeOK
<1>5. CallInv BY <1>0, <1>9 DEF CallInv
<1>6. BufInv BY <1>0, <1>9 DEF BufInv, InBounds
<1>7. DataInv BY <1>9 DEF DataInv
<1>8. ModeInv BY <1>3, <1>9 DEF ModeInv
<1>10. GotInv BY DEF GotInv
<1> QED BY <1>4, <1>5, <1>6, <1>7, <1>8, <1>10 DEF IInv

\* Every reachable state satisfies IInv: each buffer holds what the positions in it
\* say, whatever the peer sends and however the socket cuts it.
THEOREM InvariantHolds == Spec => []IInv
<1>1. Init => IInv
  BY InitIInv
<1>2. IInv /\ [Next]_vars => IInv'
  <2> SUFFICES ASSUME IInv, [Next]_vars PROVE IInv'
    OBVIOUS
  <2>1. CASE UNCHANGED vars
    BY <2>1 DEF vars, plainVars, outVars, retVars, IInv, TypeOK, CallInv, BufInv, InBounds,
                Space, DataInv, GotInv, ModeInv, At
  <2>2. CASE ReadStep
    <3>1. UNCHANGED <<env, writes, made, shut, outVars>>
      BY <2>2 DEF ReadStep
    <3> QED BY <2>2, <3>1, StepReceive, StepDecode, StepRespond DEF ReadStep
  <2> QED BY <2>1, <2>2, StepWrite, StepOther DEF Next
<1> QED BY <1>1, <1>2, PTL DEF Spec

\* Every variable keeps its type: no length, offset or count of a buffer is ever
\* negative.
THEOREM TypeCorrect == Spec => []TypeOK
<1>1. IInv => TypeOK
  BY DEF IInv
<1> QED BY <1>1, InvariantHolds, PTL

\* start and end of a buffer stay inside it, and recv is never called with no room.
THEOREM BoundsCorrect == Spec => []InBounds
<1>1. IInv => InBounds
  BY DEF IInv, BufInv
<1> QED BY <1>1, InvariantHolds, PTL

\* SSL_read returns the plaintext of the peer in its order, for every size of
\* record, read and buffer, to a caller that reads no more once it has failed.
THEOREM OrderCorrect == Spec => []InOrder
<1>1. IInv => InOrder
  BY DEF IInv, DataInv, GotInv, InOrder, TypeOK
<1> QED BY <1>1, InvariantHolds, PTL

\* Without signals a call returns the socket in the mode it was handed over in.
THEOREM ModeCorrect == Spec => []ModeKept
<1>1. IInv => ModeKept
  BY DEF IInv, ModeInv, ModeKept, At, TypeOK
<1> QED BY <1>1, InvariantHolds, PTL
=============================================================================
