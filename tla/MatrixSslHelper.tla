---------------------------- MODULE MatrixSslHelper ----------------------------
(***************************************************************************)
(* matrixssl_helper.c of mini_httpd: the calls of OpenSSL on top of         *)
(* MatrixSSL.  One thread drives one connection: SSL_new, SSL_accept, then  *)
(* SSL_read and SSL_write in any order, SSL_free.  The peer and the socket  *)
(* act between any two system calls.                                        *)
(*                                                                          *)
(* (Each "Bug" operator is a fault of the operator that follows it, for the *)
(* mutation of the model.)                                                  *)
(*                                                                          *)
(* MatrixSSL, the socket and the caller are external; matrixSslDecode takes *)
(* one whole record from insock per call and puts plaintext, or a response, *)
(* into inbuf.  A plaintext byte is its number in the stream the peer       *)
(* sends, so inbuf holds the bytes lo+1..hi; of the bytes in insock and     *)
(* outsock only the number matters.                                         *)
(*                                                                          *)
(* env holds how the surroundings behave, chosen once:                      *)
(*   blocking  the socket is handed over in blocking mode                   *)
(*   writable  a send on a non-blocking socket takes at least one byte      *)
(*   nosignal  no signal cuts a send short                                  *)
(*   zeroed    malloc returns zeroed memory (SSL_new sets no outBufferCount) *)
(*   session   matrixSslNewSession succeeds (SSL_new ignores when it fails) *)
(*   stops     after a failed SSL_write the caller only calls SSL_free      *)
(*   leaves    after a failed SSL_read the caller reads no more             *)
(*   halts     after a failed SSL_accept, which frees the SSL structure, the *)
(*             caller ends.  The one of 500-matrixssl.patch does not.       *)
(***************************************************************************)
EXTENDS Integers, Sequences

CONSTANTS BufSize,     \* first size of insock and outsock (1024)
          MaxBufSize,  \* SSL_MAX_BUF_SIZE
          Record,      \* records the peer may send: [kind, len, out]
          Len2Wire,    \* bytes a record adds to its plaintext
          ReadLen,     \* lengths SSL_read is called with
          WriteLen,    \* lengths SSL_write is called with
          Surroundings, \* the values of env a run distinguishes
          MaxRecords,  \* bound: records the peer sends
          MaxWrites    \* bound: calls of SSL_write

Discipline == {"blocking", "writable", "nosignal", "zeroed", "session", "stops", "leaves",
               "halts"}
\* hello and flight are handshake records, without and with a response;
\* finished is the last one of a handshake.
Kind == {"hello", "flight", "finished", "data", "close", "alert", "bad"}

ASSUME SizeAssumption == BufSize \in Nat \ {0} /\ MaxBufSize \in Nat
ASSUME RecordAssumption ==
         Record \subseteq [kind : Kind, len : Nat \ {0}, out : Nat]
ASSUME LengthAssumption ==
         ReadLen \subseteq Nat \ {0} /\ WriteLen \subseteq Nat \ {0} /\ Len2Wire \in Nat
ASSUME SurroundingsAssumption == Surroundings \subseteq SUBSET Discipline
ASSUME BoundAssumption == MaxRecords \in Nat /\ MaxWrites \in Nat

VARIABLES
  env,         \* disciplines kept
  live,        \* the SSL structure is allocated
  hs,          \* matrixSslHandshakeIsComplete
  wire,        \* records sent by the peer and not decoded yet
  made,        \* number of records the peer has sent
  shut,        \* the peer has closed its end
  insock,      \* [size, off, len]: start = buf + off, end = start + len
  inbuf,       \* [buf, size, lo, hi]: allocated, the plaintext bytes between
               \* start and end
  resp,        \* bytes of a response in inbuf: still to be sent, or left by a failure
  decoded,     \* plaintext bytes decoded so far
  got, intact, \* bytes SSL_read has returned, and whether in order
  outsock,     \* [size, off, len]
  outBufferCount,
  pending,     \* what the records in outsock are
  encoded,     \* messages and responses in the order they were encrypted
  sent,        \* what is on the connection to the peer, in its order
  blocking,    \* mode of the socket
  fd,          \* the socket is open
  status,      \* ssl->status: "ok", "eof", "closenotify", "errno"
  pc, op, want, performRead,  \* the call that runs and its locals
  writes,      \* calls of SSL_write so far
  ret          \* what the last call returned

retVars   == <<pc, op, want, performRead, ret, status, fd, live>>
plainVars == <<inbuf, decoded, got, intact>>
outVars   == <<outsock, outBufferCount, pending>>
vars == <<env, writes, hs, wire, made, shut, insock, resp, plainVars, outVars, encoded,
          sent, blocking, retVars>>

Holds(d) == d \in env
Buffer == [size : Nat \ {0}, off : Nat, len : Nat]

\* What goes to the peer: message 1, 2, ... of the caller, a response, a part of
\* one, a byte that belongs to nothing.
Response == 0
Part == -1
Garbage == -2

\* In ret, "wrote" and "wfail" are the results of SSL_write.
TypeOK ==
  /\ env \subseteq Discipline
  /\ live \in BOOLEAN /\ hs \in BOOLEAN /\ shut \in BOOLEAN
  /\ writes \in Nat /\ made \in Nat /\ wire \in Seq(Record)
  /\ insock \in Buffer /\ outsock \in Buffer
  /\ inbuf \in [buf : BOOLEAN, size : Nat, lo : Nat, hi : Nat]
  /\ resp \in Nat /\ decoded \in Nat /\ got \in Nat /\ intact \in BOOLEAN
  /\ outBufferCount \in Int
  /\ pending \in Seq(Int) /\ encoded \in Seq(Int) /\ sent \in Seq(Int)
  /\ blocking \in BOOLEAN /\ fd \in BOOLEAN
  /\ status \in {"ok", "eof", "closenotify", "errno"}
  /\ pc \in {"idle", "enter", "recv", "decode", "respond", "finish", "encode", "send",
             "null", "undefined"}
  /\ op \in {"none", "accept", "read", "write"}
  /\ want \in Nat /\ performRead \in BOOLEAN
  /\ ret \in {"none", "ok", "zero", "fail", "wrote", "wfail"}

\* SSL_new and SSL_set_fd; what malloc left in outBufferCount.  When matrixSslNewSession
\* failed ssl->ssl is NULL, or whatever malloc left, and SSL_accept uses it all the same.
FirstStep == {"enter"} \cup IF Holds("session") THEN {}
                           ELSE {"null"} \cup IF Holds("zeroed") THEN {} ELSE {"undefined"}
Init ==
  /\ env \in Surroundings
  /\ live = TRUE /\ hs = FALSE
  /\ wire = <<>> /\ made = 0 /\ shut = FALSE
  /\ insock = [size |-> BufSize, off |-> 0, len |-> 0]
  /\ outsock = [size |-> BufSize, off |-> 0, len |-> 0]
  /\ inbuf = [buf |-> FALSE, size |-> 0, lo |-> 0, hi |-> 0]
  /\ resp = 0 /\ decoded = 0 /\ got = 0 /\ intact = TRUE
  /\ outBufferCount \in IF Holds("zeroed") THEN {0} ELSE {-1} \cup WriteLen \cup {0}
  /\ pending = <<>> /\ encoded = <<>> /\ sent = <<>>
  /\ blocking \in BOOLEAN /\ (blocking <=> Holds("blocking"))
  /\ fd = TRUE /\ status = "ok"
  /\ pc \in FirstStep /\ op = "accept" /\ want = BufSize /\ performRead = FALSE
  /\ writes = 0 /\ ret = "none"

-----------------------------------------------------------------------------
(* External: the peer, and what the socket lets a send do.                  *)

\* Only recv sees what has arrived, so records arrive when it is called; that
\* the peer has gone is seen by recv and send.
PeerSends(r) ==
  /\ pc = "recv" /\ ~shut /\ made < MaxRecords
  /\ wire' = Append(wire, r) /\ made' = made + 1 /\ UNCHANGED shut
PeerCloses ==
  /\ pc \in {"recv", "respond", "finish", "send"} /\ ~shut
  /\ shut' = TRUE /\ UNCHANGED <<wire, made>>
Peer == /\ PeerCloses \/ \E r \in Record : PeerSends(r)
        /\ UNCHANGED <<env, writes, hs, insock, resp, plainVars, outVars, encoded, sent,
                       blocking, retVars>>

Bytes(w) == LET sum[i \in 0 .. Len(w)] == IF i = 0 THEN 0 ELSE sum[i-1] + w[i].len
            IN sum[Len(w)]
WireBytes == Bytes(wire)
\* A send may take a part of the bytes, or fail.
Cut == ~blocking \/ ~Holds("nosignal")
WouldBlock == ~blocking /\ ~Holds("writable")

-----------------------------------------------------------------------------
(* Returns.  _ssl_read leaves with rc; SSL_read and SSL_accept try again or  *)
(* return to the caller.                                                    *)

At(step) == pc = step
Goto(step) == pc' = step /\ UNCHANGED <<op, want, performRead, ret, status, fd, live>>
\* Control goes back to the caller.
Returns(r, s) == /\ pc' = "idle" /\ op' = "none" /\ want' = 0 /\ performRead' = FALSE
                 /\ ret' = r /\ status' = s

\* rc < 0, or 0 at the end of the stream: SSL_read closes the socket, SSL_accept
\* frees the structure.
GivesUp(r, s) == /\ Returns(r, s)
                 /\ fd' = (fd /\ op # "read") /\ live' = (live /\ op # "accept")
ReadFails(s) == GivesUp("fail", s)
BugEndIgnored(s) ==
  pc' = "enter" /\ status' = s /\ UNCHANGED <<op, want, performRead, ret, fd, live>>
ReadEnds(s) == GivesUp(IF op = "read" THEN "zero" ELSE "fail", s)

\* rc = 0 otherwise: SSL_read goes on reading, SSL_accept does until the handshake
\* is complete.
ReadAgain == IF op = "accept" /\ hs
               THEN Returns("ok", "ok") /\ UNCHANGED <<fd, live>>
               ELSE pc' = "enter" /\ status' = "ok"
                    /\ UNCHANGED <<op, want, performRead, ret, fd, live>>

\* rc > 0: n bytes of inbuf, from lo+1 on, are in the buffer of the caller.
\* SSL_accept has no caller for them.
BugGiveAll(n, lo, hi) ==
  /\ inbuf' = [inbuf EXCEPT !.lo = hi, !.hi = hi]
  /\ got' = got + n /\ intact' = (intact /\ lo = got)
  /\ Returns("ok", "ok") /\ UNCHANGED <<fd, live>>
Give(n, lo, hi) ==
  /\ inbuf' = [inbuf EXCEPT !.lo = lo + n, !.hi = hi]
  /\ IF op = "read" THEN got' = got + n /\ intact' = (intact /\ lo = got)
                    ELSE UNCHANGED <<got, intact>>
  /\ Returns(IF op = "read" THEN "ok" ELSE "zero", "ok") /\ UNCHANGED <<fd, live>>

-----------------------------------------------------------------------------
(* _ssl_read, up to the decoder                                            *)

AtMost(a, b) == IF a < b THEN a ELSE b
Leftover == inbuf.buf /\ inbuf.lo < inbuf.hi

\* There is no session: ssl->ssl == NULL.
EnterNull == At("null") /\ ReadFails("ok") /\ UNCHANGED <<insock, resp, plainVars>>

\* Previously decoded data are returned first,
EnterLeftover ==
  /\ At("enter") /\ op # "write" /\ Leftover
  /\ Give(AtMost(want, inbuf.hi - inbuf.lo), inbuf.lo, inbuf.hi)
  /\ UNCHANGED <<insock, resp, decoded>>

\* ... and so is a response or an alert that a call which failed left there.
EnterResponse ==
  LET n == AtMost(want, resp)
  IN /\ At("enter") /\ op # "write" /\ ~Leftover /\ resp > 0
     /\ resp' = resp - n /\ got' = got + n /\ intact' = FALSE
     /\ Returns("ok", "ok") /\ UNCHANGED <<fd, live, insock, inbuf, decoded>>

\* A buffer for the plaintext, or none.
Fresh(allocated) == [buf |-> allocated, size |-> want, lo |-> decoded, hi |-> decoded]

\* memmove to the start of the buffer.
BugNotPacked(b) == IF b.len = 0 THEN [b EXCEPT !.off = 0] ELSE b
Packed(b) == [b EXCEPT !.off = 0]

\* An empty inbuf is freed, insock packed; the socket is read at once only when
\* insock is empty.
EnterRead ==
  LET empty == insock.len = 0
  IN /\ At("enter") /\ op # "write" /\ ~Leftover /\ resp = 0
     /\ insock' = Packed(insock) /\ inbuf' = Fresh(~empty)
     /\ performRead' = empty
     /\ pc' = IF empty THEN "recv" ELSE "decode"
     /\ status' = "ok"
     /\ UNCHANGED <<op, want, ret, fd, live, resp, decoded, got, intact>>

\* The free bytes recv may fill.
Space == insock.size - insock.off - insock.len

\* recv: k bytes arrive,
Recv(k) ==
  /\ At("recv") /\ fd /\ k <= WireBytes - insock.len
  /\ insock' = [insock EXCEPT !.len = @ + k] /\ inbuf' = Fresh(TRUE)
  /\ Goto("decode")
  /\ UNCHANGED <<resp, decoded, got, intact>>

\* ... or none, because the peer has closed its end or no space is left, or it
\* fails: nothing there on a non-blocking socket, or no connection any more.
RecvNothing ==
  /\ At("recv")
  /\ \/ /\ fd /\ (Space = 0 \/ (shut /\ WireBytes = insock.len))
        /\ ReadEnds("eof")
     \/ /\ ~fd \/ shut \/ (~blocking /\ WireBytes = insock.len)
        /\ ReadFails("errno")
  /\ UNCHANGED <<insock, resp, plainVars>>

Receive ==
  /\ \/ EnterNull \/ EnterLeftover \/ EnterResponse \/ EnterRead
     \/ RecvNothing \/ \E k \in 1 .. Space : Recv(k)
  /\ UNCHANGED <<hs, wire, encoded, sent, blocking>>

-----------------------------------------------------------------------------
(* matrixSslDecode and the switch on its result                            *)

BugUnchecked == wire # <<>>
Complete == wire # <<>> /\ Head(wire).len <= insock.len
Rec == Head(wire)
IsA(kinds) == At("decode") /\ Complete /\ Rec.kind \in kinds
Fits == Rec.out <= inbuf.size
\* The record leaves insock.
TakeRecord ==
  /\ wire' = Tail(wire)
  /\ insock' = [insock EXCEPT !.off = @ + Rec.len, !.len = @ - Rec.len]

\* SSL_FULL: a larger inbuf, and decode again
DecodeFull ==
  /\ IsA(Kind \ {"close", "alert"}) /\ ~Fits
  /\ inbuf' = [inbuf EXCEPT !.size = 2 * @]
  /\ UNCHANGED <<hs, wire, insock, resp, decoded, got, intact, encoded, blocking, retVars>>

\* SSL_SUCCESS
DecodeSuccess ==
  /\ IsA({"hello"}) /\ Fits
  /\ TakeRecord /\ ReadAgain
  /\ UNCHANGED <<hs, resp, plainVars, encoded, blocking>>

\* SSL_PROCESS_DATA; a record may hold none.
DecodeData ==
  /\ IsA({"data"}) /\ hs /\ Fits
  /\ TakeRecord
  /\ decoded' = decoded + Rec.out
  /\ IF Rec.out = 0
       THEN ReadAgain /\ UNCHANGED <<inbuf, got, intact>>
       ELSE Give(AtMost(want, Rec.out), decoded, decoded + Rec.out)
  /\ UNCHANGED <<hs, resp, encoded, blocking>>

\* SSL_SEND_RESPONSE: encrypted now, sent in the next steps.
DecodeResponse ==
  /\ IsA({"flight", "finished"}) /\ Fits
  /\ TakeRecord /\ Goto("respond")
  /\ hs' = (hs \/ Rec.kind = "finished")
  /\ resp' = Rec.out /\ encoded' = Append(encoded, Response)
  /\ UNCHANGED <<plainVars, blocking>>

\* SSL_ERROR, for data before the end of the handshake too: one attempt to send
\* an alert, on a socket made non-blocking; the alert stays in inbuf
DecodeError ==
  /\ IsA(IF hs THEN {"bad"} ELSE {"bad", "data"}) /\ Fits
  /\ TakeRecord /\ ReadFails("ok")
  /\ blocking' = (blocking /\ Rec.out = 0) /\ resp' = Rec.out
  /\ UNCHANGED <<hs, plainVars, encoded>>

\* SSL_ALERT
DecodeAlert ==
  /\ \/ IsA({"close"}) /\ ReadEnds("closenotify")
     \/ IsA({"alert"}) /\ ReadFails("ok")
  /\ TakeRecord
  /\ UNCHANGED <<hs, resp, plainVars, encoded, blocking>>

\* SSL_PARTIAL: a full insock grows, up to a limit; the first time the socket is
\* read, the second the call returns 0.
FullBuffer(b) == b.off = 0 /\ b.len = b.size
BugNoGrowth(b) == b
Grown(b) == IF FullBuffer(b) THEN [b EXCEPT !.size = 2 * @] ELSE b
TooLarge(b) == b.size > MaxBufSize
DecodePartial ==
  /\ At("decode") /\ ~Complete
  /\ \/ /\ FullBuffer(insock) /\ TooLarge(insock)
        /\ ReadFails("ok") /\ UNCHANGED <<insock, inbuf>>
     \/ /\ ~(FullBuffer(insock) /\ TooLarge(insock))
        /\ insock' = Grown(insock)
        /\ IF performRead
             THEN ReadAgain /\ UNCHANGED inbuf
             ELSE /\ performRead' = TRUE /\ pc' = "recv" /\ inbuf' = Fresh(FALSE)
                  /\ UNCHANGED <<status, fd, live, op, want, ret>>
  /\ UNCHANGED <<hs, wire, resp, decoded, got, intact, encoded, blocking>>

Decode == /\ \/ DecodeFull \/ DecodeSuccess \/ DecodeData \/ DecodeResponse
             \/ DecodeError \/ DecodeAlert \/ DecodePartial
          /\ UNCHANGED sent

-----------------------------------------------------------------------------
(* The response is sent from inbuf, whatever is in outsock.                 *)

\* The first send: all of it,
RespondAll ==
  /\ At("respond") /\ fd
  /\ sent' = Append(sent, Response) /\ resp' = 0 /\ ReadAgain /\ UNCHANGED blocking

\* ... a part (k bytes): the socket is made blocking to send the rest. With
\* EAGAIN the return value -1 is added to start: the rest is one byte more
\* than the response.
RespondPart(k) ==
  /\ At("respond") /\ fd /\ k < resp /\ k # 0
  /\ IF k = -1 THEN WouldBlock ELSE Cut
  /\ sent' = IF k = -1 THEN Append(sent, Garbage) ELSE sent
  /\ resp' = resp - k /\ blocking' = TRUE /\ Goto("finish")

\* The second send, and the socket is non-blocking again.  A signal can cut
\* this one short as well: what is left is forgotten.
ModeAfter == FALSE
RespondRest(what) ==
  /\ At("finish") /\ fd /\ (what = Response \/ ~Holds("nosignal"))
  /\ sent' = Append(sent, what) /\ resp' = 0 /\ ReadAgain
  /\ blocking' = ModeAfter

\* There is no connection any more: the response stays in inbuf.
RespondFails ==
  /\ At("respond") \/ At("finish")
  /\ shut \/ ~fd
  /\ ReadFails("errno") /\ UNCHANGED <<resp, sent, blocking>>

Respond == /\ \/ RespondAll \/ \E k \in -1 .. resp : RespondPart(k)
              \/ \E what \in {Response, Part} : RespondRest(what)
              \/ RespondFails
           /\ UNCHANGED <<hs, wire, insock, plainVars, encoded>>

ReadStep == /\ Receive \/ Decode \/ Respond
            /\ UNCHANGED <<env, writes, made, shut, outVars>>

-----------------------------------------------------------------------------
(* _ssl_write, which SSL_write repeats while it returns 0                   *)

\* outsock is packed; a record left from an earlier call can only be continued
\* by a call with the same length.
OtherLength(n) == outBufferCount > 0 /\ n # outBufferCount
EnterWrite ==
  /\ At("enter") /\ op = "write"
  /\ outsock' = Packed(outsock)
  /\ IF OtherLength(want)
       THEN Returns("wfail", "ok")
       ELSE /\ pc' = IF outBufferCount = 0 THEN "encode" ELSE "send"
            /\ status' = "ok" /\ UNCHANGED <<op, want, performRead, ret>>
  /\ UNCHANGED <<outBufferCount, pending, encoded, sent, fd>>

\* matrixSslEncode: SSL_FULL makes outsock larger, up to a limit, SSL_ERROR ends the call.
Encode ==
  LET n == want + Len2Wire
      fits == n <= outsock.size - outsock.off - outsock.len
  IN /\ At("encode")
     /\ \/ /\ fits
           /\ outsock' = [outsock EXCEPT !.len = @ + n]
           /\ pending' = Append(pending, writes) /\ encoded' = Append(encoded, writes)
           /\ Goto("send")
        \/ /\ ~fits /\ ~TooLarge(outsock)
           /\ outsock' = [outsock EXCEPT !.size = 2 * @]
           /\ UNCHANGED <<pending, encoded, retVars>>
        \/ Returns("wfail", "ok") /\ UNCHANGED <<outsock, pending, encoded, fd>>
     /\ UNCHANGED <<outBufferCount, sent>>

\* send: all of outsock, and SSL_write returns the length,
BugCountKept == outBufferCount
CountAfter == 0
SendAll ==
  /\ At("send") /\ fd
  /\ outsock' = [outsock EXCEPT !.off = @ + outsock.len, !.len = 0]
  /\ outBufferCount' = CountAfter
  /\ sent' = sent \o pending /\ pending' = <<>>
  /\ Returns("wrote", "ok") /\ UNCHANGED <<encoded, fd>>

\* ... a part: the length is remembered and SSL_write calls again,
BugNotRemembered(n) == 0
Remembered(n) == n
SendPart(k) ==
  /\ At("send") /\ fd /\ Cut /\ k < outsock.len
  /\ outsock' = [outsock EXCEPT !.off = @ + k, !.len = @ - k]
  /\ outBufferCount' = Remembered(want)
  /\ Goto("enter") /\ UNCHANGED <<pending, encoded, sent>>

\* ... or none: what was encoded stays in outsock.
SendFails ==
  /\ At("send") /\ (shut \/ ~fd \/ WouldBlock)
  /\ Returns("wfail", "errno") /\ UNCHANGED <<outVars, encoded, sent, fd>>

WriteStep ==
  /\ EnterWrite \/ Encode \/ SendAll \/ SendFails \/ \E k \in 1 .. outsock.len : SendPart(k)
  /\ UNCHANGED <<env, writes, hs, wire, made, shut, insock, resp, plainVars, blocking, live>>

-----------------------------------------------------------------------------
(* The caller (external, but for what 500-matrixssl.patch shows of it).     *)

\* After a failed SSL_accept the structure is freed, and the caller that goes on uses it.
Freed == ~live /\ ret = "fail"
MayCall == /\ At("idle") /\ (live \/ (Freed /\ ~Holds("halts")))
           /\ Holds("stops") => ret # "wfail"
Begin(o, n) ==
  /\ IF live THEN pc' = "enter" /\ op' = o /\ want' = n
             ELSE pc' = "undefined" /\ UNCHANGED <<op, want>>
  /\ UNCHANGED <<performRead, ret, status, fd, live>>

SSL_read == /\ MayCall /\ (Holds("leaves") => fd) /\ \E n \in ReadLen : Begin("read", n)
            /\ UNCHANGED writes
SSL_write == /\ MayCall /\ writes < MaxWrites /\ \E n \in WriteLen : Begin("write", n)
             /\ writes' = writes + 1
SSL_free == /\ At("idle") /\ live /\ live' = FALSE /\ ret' = "none"
            /\ UNCHANGED <<writes, pc, op, want, performRead, status, fd>>

Caller == /\ SSL_read \/ SSL_write \/ SSL_free
          /\ UNCHANGED <<env, hs, wire, made, shut, insock, resp, plainVars, outVars,
                         encoded, sent, blocking>>

Next == Peer \/ ReadStep \/ WriteStep \/ Caller
Spec == Init /\ [][Next]_vars

\* The process runs; of the peer nothing is assumed.
FairSpec == Spec /\ WF_vars(ReadStep) /\ WF_vars(WriteStep)

-----------------------------------------------------------------------------
(* Properties                                                              *)

\* What is between start and end of a buffer is inside it, and recv always has
\* room, so that a recv of 0 bytes means what SSL_SOCKET_EOF says.
InBounds ==
  /\ insock.off + insock.len <= insock.size
  /\ outsock.off + outsock.len <= outsock.size
  /\ inbuf.lo <= inbuf.hi
  /\ pc = "recv" => Space > 0

\* The caller gets the plaintext of the peer in its order: nothing twice, nothing
\* left out, whatever the sizes of records, reads and buffers; as long as it reads no more
\* once SSL_read has failed, which can leave an alert or a response in inbuf.
InOrder == "leaves" \in env => intact /\ got <= decoded

\* SSL_read reports the end only when the peer has closed the connection, every
\* whole record is decoded and all plaintext returned.
EofComplete == status = "eof" => shut /\ ~Complete /\ got = decoded

\* "We don't support sending additional data until the original buffered request
\* has been completely sent": records and responses reach the connection whole,
\* once and in the order they were encrypted in.
WireOrder ==
  {"writable", "nosignal", "stops"} \subseteq env =>
    /\ Len(sent) <= Len(encoded) /\ sent = SubSeq(encoded, 1, Len(sent))
    /\ \A i, j \in 1 .. Len(sent) : i < j /\ sent[i] = sent[j] => sent[i] = Response

\* "If we wrote it all return the length": the message of an SSL_write that succeeded is
\* on the connection, if the caller stops after one that failed.  Only the first can be
\* lost, when SSL_new found something else than 0 in outBufferCount.
WriteHonest ==
  "stops" \in env /\ pc = "idle" /\ ret = "wrote" =>
    (\E i \in 1 .. Len(sent) : sent[i] = writes) \/ ("zeroed" \notin env /\ writes = 1)

\* "Can safely set back to non-blocking": the socket stays in the mode it was
\* handed over in.
ModeKept ==
  "nosignal" \in env /\ pc = "idle" /\ live /\ fd => (blocking <=> "blocking" \in env)

\* Once the peer has closed the connection, any call returns.
CallReturns == shut /\ pc \notin {"idle", "undefined"} ~> pc = "idle"
================================================================================
