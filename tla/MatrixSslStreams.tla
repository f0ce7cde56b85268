---------------------------- MODULE MatrixSslStreams ----------------------------
(***************************************************************************)
(* Theorems about the two byte streams of MatrixSslHelper: what SSL_read    *)
(* reports at the end of the one, and in which order the other leaves.      *)
(***************************************************************************)
EXTENDS MatrixSslProofs, WellFoundedInduction

-----------------------------------------------------------------------------
(* The bytes of a sequence of records.                                      *)

\* Induction over the natural numbers, for sets: the least number that is not in
\* S would have its predecessor in S.
LEMMA SetInduction ==
  ASSUME NEW S, S \subseteq Nat, 0 \in S, \A n \in S : n + 1 \in S
  PROVE  S = Nat
<1> DEFINE R == {p \in Nat \X Nat : p[1] < p[2]}
<1>1. IsWellFoundedOn(R, Nat)
  BY NatLessThanWellFounded DEF OpToRel
<1>2. SUFFICES ASSUME Nat \ S # {} PROVE FALSE
  OBVIOUS
<1>3. PICK m \in Nat \ S : \A y \in Nat \ S : ~(<<y, m>> \in R)
  BY <1>1, <1>2, WFMin, Zenon
<1>4. m # 0 /\ m - 1 \in Nat
  BY <1>3
<1>5. <<m - 1, m>> \in R
  BY <1>3, <1>4
<1>6. m - 1 \in S
  BY <1>3, <1>4, <1>5
<1>7. m - 1 + 1 \in S
  BY <1>6
<1> QED BY <1>3, <1>7

\* g holds the sums of the lengths of the first i records of w, for i up to n.
Sums(g, w, n) ==
  /\ g \in [0 .. n -> Nat] /\ g[0] = 0
  /\ \A i \in 1 .. n : g[i] = g[i-1] + w[i].len

LEMMA SumsExist ==
  ASSUME NEW w \in Seq(Record)
  PROVE  \E g : Sums(g, w, Len(w))
<1> DEFINE S == {n \in Nat : n <= Len(w) => \E g : Sums(g, w, n)}
<1>1. 0 \in S
  <2>1. Sums([i \in 0 .. 0 |-> 0], w, 0)
    BY DEF Sums
  <2> QED BY <2>1
<1>2. ASSUME NEW n \in S PROVE n + 1 \in S
  <2>1. SUFFICES ASSUME n + 1 <= Len(w) PROVE \E g : Sums(g, w, n + 1)
    BY <1>2
  <2>2. PICK g : Sums(g, w, n)
    BY <1>2, <2>1
  <2>3. w[n+1].len \in Nat
    BY <1>2, <2>1, RecordAssumption
  <2> DEFINE h == [i \in 0 .. n + 1 |-> IF i = n + 1 THEN g[n] + w[n+1].len ELSE g[i]]
  <2>4. h \in [0 .. n + 1 -> Nat] /\ h[0] = 0
    BY <1>2, <2>2, <2>3 DEF Sums
  <2>5. ASSUME NEW i \in 1 .. n + 1 PROVE h[i] = h[i-1] + w[i].len
    <3>1. CASE i = n + 1
      BY <1>2, <2>5, <3>1
    <3>2. CASE i # n + 1
      <4>1. i \in 1 .. n /\ i \in 0 .. n + 1 /\ i - 1 \in 0 .. n + 1 /\ i - 1 # n + 1
        BY <1>2, <2>5, <3>2
      <4> QED BY <2>2, <3>2, <4>1 DEF Sums
    <3> QED BY <3>1, <3>2
  <2>6. Sums(h, w, n + 1)
    BY <2>4, <2>5 DEF Sums
  <2> QED BY <2>6
<1>3. S = Nat
  BY <1>1, <1>2, SetInduction
<1>4. Len(w) \in Nat
  OBVIOUS
<1>5. Len(w) \in S
  BY <1>3, <1>4, Zenon
<1> QED BY <1>5

\* Sums of records that agree are the same, also when the records of the one are
\* a suffix of those of the other.
LEMMA SumsShift ==
  ASSUME NEW v \in Seq(Record), NEW w \in Seq(Record), NEW k \in Nat,
         Len(v) + k <= Len(w), \A i \in 1 .. Len(v) : v[i] = w[i+k],
         NEW g, Sums(g, v, Len(v)), NEW h, Sums(h, w, Len(w))
  PROVE  h[Len(v) + k] = h[k] + g[Len(v)]
<1> DEFINE n == Len(v)
           S == {i \in Nat : i <= n => h[i+k] = h[k] + g[i]}
<1>a. n \in Nat /\ Len(w) \in Nat
  OBVIOUS
<1>1. 0 \in S
  <2>1. k \in 0 .. Len(w)
    BY <1>a
  <2>2. h[k] \in Nat /\ g[0] = 0
    BY <2>1 DEF Sums
  <2> QED BY <2>2
<1>2. ASSUME NEW i \in S PROVE i + 1 \in S
  <2>1. SUFFICES ASSUME i + 1 <= n PROVE h[i+1+k] = h[k] + g[i+1]
    BY <1>2
  <2>2. h[i+k] = h[k] + g[i]
    BY <1>a, <1>2, <2>1
  <2>3. g[i+1] = g[i] + v[i+1].len
    BY <1>2, <2>1 DEF Sums
  <2>4. h[i+1+k] = h[i+k] + w[i+1+k].len
    BY <1>2, <2>1 DEF Sums
  <2>5. w[i+1+k].len = v[i+1].len /\ v[i+1].len \in Nat
    <3>1. v[i+1] \in Record /\ v[i+1] = w[i+1+k]
      BY <1>2, <2>1
    <3> QED BY <3>1, RecordAssumption
  <2>6. g[i] \in Nat /\ h[k] \in Nat
    <3>1. i \in 0 .. n /\ k \in 0 .. Len(w)
      BY <1>a, <1>2, <2>1
    <3> QED BY <3>1 DEF Sums
  <2>7. h[i+k] + v[i+1].len = h[k] + g[i+1]
    BY <2>2, <2>3, <2>5, <2>6
  <2> QED BY <2>4, <2>5, <2>7
<1>3. S = Nat
  BY <1>1, <1>2, SetInduction
<1>4. n \in S
  BY <1>a, <1>3, Zenon
<1> QED BY <1>a, <1>4

LEMMA BytesValue ==
  ASSUME NEW w \in Seq(Record), NEW h, Sums(h, w, Len(w))
  PROVE  Bytes(w) = h[Len(w)] /\ Bytes(w) \in Nat
<1> DEFINE F(f) == [i \in 0 .. Len(w) |-> IF i = 0 THEN 0 ELSE f[i-1] + w[i].len]
           sum == CHOOSE f : f = F(f)
<1>1. h = F(h)
  BY DEF Sums
<1>2. sum = F(sum)
  BY <1>1
<1>3. Bytes(w) = sum[Len(w)]
  BY DEF Bytes
<1> HIDE DEF sum
<1> DEFINE S == {i \in Nat : i <= Len(w) => sum[i] = h[i]}
<1>4. 0 \in S
  BY <1>2 DEF Sums
<1>5. ASSUME NEW i \in S PROVE i + 1 \in S
  BY <1>2, <1>5 DEF Sums
<1>6. S = Nat
  BY <1>4, <1>5, SetInduction
<1>7. Len(w) \in S
  BY <1>6
<1> QED BY <1>3, <1>7 DEF Sums

\* Records that arrive add their length, a record that is taken was counted.
LEMMA BytesAppend ==
  ASSUME NEW w \in Seq(Record), NEW r \in Record
  PROVE  Bytes(Append(w, r)) = Bytes(w) + r.len
<1> DEFINE v == Append(w, r)
<1>a. /\ v \in Seq(Record) /\ Len(v) = Len(w) + 1 /\ Len(w) \in Nat /\ v[Len(w) + 1] = r
      /\ Len(w) + 0 <= Len(v) /\ 0 \in Nat
      /\ \A i \in 1 .. Len(w) : w[i] = v[i+0]
  OBVIOUS
<1> HIDE DEF v
<1>1. PICK g : Sums(g, w, Len(w))
  BY SumsExist
<1>2. PICK h : Sums(h, v, Len(v))
  BY <1>a, SumsExist, Zenon
<1>3. h[Len(w) + 0] = h[0] + g[Len(w)]
  BY <1>a, <1>1, <1>2, SumsShift
<1>4. h[Len(w) + 1] = h[Len(w)] + r.len
  <2>1. Len(w) + 1 \in 1 .. Len(v)
    BY <1>a
  <2> QED BY <1>a, <1>2, <2>1 DEF Sums
<1>5. Bytes(w) = g[Len(w)] /\ g[Len(w)] \in Nat
  BY <1>1, BytesValue
<1>6. Bytes(v) = h[Len(w) + 1]
  BY <1>a, <1>2, BytesValue
<1>7. h[Len(w)] = g[Len(w)]
  BY <1>a, <1>2, <1>3, <1>5 DEF Sums
<1> QED BY <1>4, <1>5, <1>6, <1>7 DEF v

LEMMA BytesTail ==
  ASSUME NEW w \in Seq(Record), w # <<>>
  PROVE  Bytes(w) = Head(w).len + Bytes(Tail(w)) /\ Bytes(Tail(w)) \in Nat
<1> DEFINE v == Tail(w)
<1>a. /\ v \in Seq(Record) /\ Len(w) = Len(v) + 1 /\ Len(v) \in Nat /\ Head(w) = w[1]
      /\ w[1] \in Record /\ Len(v) + 1 <= Len(w) /\ 1 \in Nat
      /\ \A i \in 1 .. Len(v) : v[i] = w[i+1]
  OBVIOUS
<1> HIDE DEF v
<1>1. PICK h : Sums(h, w, Len(w))
  BY SumsExist
<1>2. PICK g : Sums(g, v, Len(v))
  BY <1>a, SumsExist
<1>3. h[Len(v) + 1] = h[1] + g[Len(v)]
  BY <1>a, <1>1, <1>2, SumsShift
<1>4. h[1] = h[0] + w[1].len /\ h[0] = 0 /\ w[1].len \in Nat
  <2>1. 1 \in 1 .. Len(w) /\ w[1].len \in Nat
    BY <1>a, RecordAssumption
  <2> QED BY <1>1, <2>1 DEF Sums
<1>5. Bytes(w) = h[Len(v) + 1]
  BY <1>a, <1>1, BytesValue
<1>6. Bytes(v) = g[Len(v)] /\ Bytes(v) \in Nat
  BY <1>a, <1>2, BytesValue
<1> QED BY <1>a, <1>3, <1>4, <1>5, <1>6 DEF v

-----------------------------------------------------------------------------
(* What has arrived and is not decoded, and the end of the stream.          *)

\* insock never holds more than the peer has sent, and recv is called only when
\* it holds no whole record; so is the end of the stream seen, and a call that comes
\* after it and reads sets the status anew.
EofInv ==
  /\ insock.len <= WireBytes
  /\ At("recv") => ~Complete
  /\ status = "eof" =>
       shut /\ ~Complete /\ got = decoded /\ pc \in {"idle", "enter", "undefined"}

\* A record that is taken leaves insock and the wire by the same amount.
LEMMA TakeBytes ==
  ASSUME TypeOK, Complete, TakeRecord, insock.len <= WireBytes
  PROVE  insock'.len <= WireBytes'
<1>1. wire \in Seq(Record) /\ wire # <<>> /\ wire' = Tail(wire)
  BY DEF TypeOK, Complete, TakeRecord
<1>2. Bytes(wire) = Rec.len + Bytes(wire') /\ Bytes(wire') \in Nat
  BY <1>1, BytesTail DEF Rec
<1>3. Rec.len \in Nat
  BY RecordType
<1>4. insock'.len = insock.len - Rec.len /\ insock.len \in Nat
  BY DEF TakeRecord, TypeOK, Buffer
<1> QED BY <1>2, <1>3, <1>4 DEF WireBytes

\* A read that ends leaves "eof" only if that is its result.
LEMMA ReadStatus ==
  ASSUME NEW s \in Status,
         ReadAgain \/ ReadFails(s) \/ ReadEnds(s)
  PROVE  /\ status' \in {"ok", s}
         /\ pc' \in {"idle", "enter"}
BY DEF ReadAgain, ReadFails, ReadEnds, GivesUp, Returns

LEMMA BytesEmpty == Bytes(<<>>) = 0
<1>1. <<>> \in Seq(Record) /\ Len(<<>>) = 0
  OBVIOUS
<1>2. PICK g : Sums(g, <<>>, Len(<<>>))
  BY <1>1, SumsExist, Zenon
<1>3. Bytes(<<>>) = g[Len(<<>>)]
  BY <1>1, <1>2, BytesValue
<1> QED BY <1>1, <1>2, <1>3 DEF Sums

LEMMA EofReceive ==
  ASSUME IInv, EofInv, Receive, UNCHANGED <<env, writes, made, shut, outVars>>
  PROVE  EofInv'
<1> USE DEF At
<1>0. TypeOK /\ CallInv /\ BufInv /\ DataInv /\ GotInv /\ wire' = wire /\ shut' = shut
      /\ insock \in Buffer
  BY DEF IInv, Receive, TypeOK
<1>1. CASE EnterLeftover
  BY <1>0, <1>1 DEF EnterLeftover, Give, Returns, EofInv, WireBytes
<1>5. CASE EnterNull
  <2>1. pc' = "idle" /\ status' = "ok" /\ insock' = insock
    BY <1>5 DEF EnterNull, ReadFails, GivesUp, Returns
  <2> QED BY <1>0, <2>1 DEF EofInv, WireBytes
<1>6. CASE EnterResponse
  <2>1. pc' = "idle" /\ status' = "ok" /\ insock' = insock
    BY <1>6 DEF EnterResponse, Returns
  <2> QED BY <1>0, <2>1 DEF EofInv, WireBytes
<1>2. CASE EnterRead
  <2>1. /\ status' = "ok" /\ pc' = (IF insock.len = 0 THEN "recv" ELSE "decode")
        /\ insock' = Packed(insock)
    BY <1>2 DEF EnterRead
  <2>2. insock'.len = insock.len
    BY <1>0, <2>1 DEF Packed, Buffer
  <2>3. pc' = "recv" => ~Complete'
    <3>1. SUFFICES ASSUME insock.len = 0, Complete PROVE FALSE
      BY <1>0, <2>1, <2>2 DEF Complete
    <3> QED BY <1>0, <3>1, RecordType
  <2> QED BY <1>0, <2>1, <2>2, <2>3 DEF EofInv, WireBytes
<1>3. CASE RecvNothing
  <2>1. pc = "recv" /\ UNCHANGED <<insock, got, decoded>> /\ op \in ReadActions
    BY <1>0, <1>3 DEF RecvNothing, plainVars, CallInv, ReadActions
  <2>2. CASE ReadFails("errno")
    BY <1>0, <2>1, <2>2, ReadStatus DEF EofInv, WireBytes, Status, ReadFails, GivesUp, Returns
  <2>3. CASE fd /\ shut /\ ReadEnds("eof")
    <3>1. pc' = "idle"
      BY <2>1, <2>3, FailCall DEF Status
    <3>2. got = decoded
      BY <1>0, <2>1, <2>3 DEF DataInv, GotInv
    <3> QED BY <1>0, <2>1, <2>3, <3>1, <3>2 DEF EofInv, WireBytes, Complete
  <2>4. Space # 0
    BY <1>0, <2>1 DEF BufInv, InBounds
  <2> QED BY <1>3, <2>2, <2>3, <2>4 DEF RecvNothing
<1>4. ASSUME NEW k \in 1 .. Space, Recv(k) PROVE EofInv'
  <2>1. /\ pc = "recv" /\ pc' = "decode" /\ status' = status
        /\ insock' = [insock EXCEPT !.len = @ + k] /\ k <= WireBytes - insock.len
    BY <1>4 DEF Recv, Goto
  <2>2. k \in Nat /\ insock.len \in Nat /\ insock'.len = insock.len + k /\ WireBytes \in Nat
    <3>1. Space \in Int
      BY <1>0 DEF Space, Buffer
    <3>2. Bytes(wire) \in Nat
      BY <1>0, SumsExist, BytesValue DEF TypeOK
    <3> QED BY <1>0, <1>4, <2>1, <3>1, <3>2 DEF Buffer, WireBytes
  <2>3. insock'.len <= WireBytes' 
    BY <1>0, <2>1, <2>2 DEF WireBytes
  <2> QED BY <2>1, <2>3 DEF EofInv
<1> QED BY <1>1, <1>2, <1>3, <1>4, <1>5, <1>6 DEF Receive

LEMMA EofDecode ==
  ASSUME IInv, EofInv, Decode, UNCHANGED <<env, writes, made, shut, outVars>>
  PROVE  EofInv'
<1> USE DEF At
<1>0. TypeOK /\ insock \in Buffer /\ status # "eof" /\ pc = "decode" /\ insock.len <= WireBytes
  BY DEF IInv, TypeOK, EofInv, Decode, DecodeFull, DecodeSuccess, DecodeData, DecodeResponse,
         DecodeError, DecodeAlert, DecodePartial, IsA
<1>a. ASSUME Complete, TakeRecord, status' # "eof", pc' # "recv" PROVE EofInv'
  BY <1>0, <1>a, TakeBytes DEF EofInv
<1>1. CASE DecodeFull
  BY <1>0, <1>1 DEF DecodeFull, retVars, EofInv, WireBytes
<1>2. CASE DecodeSuccess
  BY <1>a, <1>2, ReadStatus DEF DecodeSuccess, IsA, Status
<1>3. CASE DecodeData
  <2>1. Complete /\ TakeRecord
    BY <1>3 DEF DecodeData, IsA
  <2>2. status' # "eof" /\ pc' # "recv"
    BY <1>3, ReadStatus DEF DecodeData, Give, Returns, Status
  <2> QED BY <1>a, <2>1, <2>2
<1>4. CASE DecodeResponse
  BY <1>0, <1>a, <1>4 DEF DecodeResponse, IsA, Goto
<1>5. CASE DecodeError
  BY <1>a, <1>5, ReadStatus DEF DecodeError, IsA, Status
<1>6. CASE DecodeAlert
  BY <1>a, <1>6, ReadStatus DEF DecodeAlert, IsA, Status
<1>7. CASE DecodePartial
  <2>1. wire' = wire /\ ~Complete /\ (insock' = insock \/ insock' = Grown(insock))
        /\ status' # "eof"
    BY <1>0, <1>7, ReadStatus DEF DecodePartial, Status
  <2>2. insock'.len = insock.len
    BY <1>0, <2>1 DEF Grown, Buffer
  <2> QED BY <1>0, <2>1, <2>2 DEF EofInv, WireBytes, Complete
<1> QED BY <1>1, <1>2, <1>3, <1>4, <1>5, <1>6, <1>7 DEF Decode

LEMMA EofOther ==
  ASSUME IInv, EofInv, Respond \/ WriteStep \/ Peer \/ Caller
  PROVE  EofInv'
<1> USE DEF At
<1>0. TypeOK /\ insock' = insock /\ insock \in Buffer /\ got' = got /\ decoded' = decoded
      /\ insock.len <= WireBytes
  BY DEF IInv, TypeOK, EofInv, Respond, WriteStep, Peer, Caller, plainVars
<1>1. CASE Respond
  <2>1. pc \in {"respond", "finish"} /\ wire' = wire
    BY <1>1 DEF Respond, RespondAll, RespondPart, RespondRest, RespondFails
  <2>2. status' # "eof" /\ pc' # "recv"
    BY <1>1, <2>1, ReadStatus
       DEF EofInv, Respond, RespondAll, RespondPart, RespondRest, RespondFails, Goto, Status
  <2> QED BY <1>0, <2>1, <2>2 DEF EofInv, WireBytes
<1>2. CASE WriteStep
  <2>1. wire' = wire /\ pc \in {"enter", "encode", "send"} /\ pc' # "recv"
    BY <1>2 DEF WriteStep, EnterWrite, Encode, SendAll, SendFails, SendPart, Returns, Goto,
                retVars
  <2>2. status' # "eof"
    BY <1>2, <2>1 DEF EofInv, WriteStep, EnterWrite, Encode, SendAll, SendFails, SendPart,
                      Returns, Goto, retVars
  <2> QED BY <1>0, <2>1, <2>2 DEF EofInv, WireBytes
<1>3. CASE Peer
  <2>1. UNCHANGED <<pc, op, live, fd, status>>
    BY <1>3 DEF Peer, retVars
  <2>2. CASE PeerCloses
    BY <1>0, <2>1, <2>2 DEF PeerCloses, EofInv, WireBytes, Complete
  <2>3. ASSUME NEW r \in Record, PeerSends(r) PROVE EofInv'
    <3>1. pc = "recv" /\ wire' = Append(wire, r) /\ status # "eof" /\ ~Complete
      BY <2>3 DEF PeerSends, EofInv
    <3>2. r.len \in Nat \ {0} /\ wire \in Seq(Record) /\ insock.len \in Nat
      BY <1>0, RecordAssumption DEF TypeOK, Buffer
    <3>3. Bytes(wire') = Bytes(wire) + r.len /\ Bytes(wire) \in Nat
      BY <3>1, <3>2, BytesAppend, SumsExist, BytesValue
    <3>4. insock'.len <= WireBytes'
      BY <1>0, <3>2, <3>3 DEF WireBytes
    <3>5. ~Complete'
      <4>1. CASE wire = <<>>
        <5>1. Head(wire') = r /\ insock.len = 0
          BY <1>0, <3>1, <3>2, <4>1, BytesEmpty DEF WireBytes
        <5> QED BY <1>0, <3>2, <5>1 DEF Complete
      <4>2. CASE wire # <<>>
        <5>1. Head(wire') = Head(wire)
          BY <3>1, <3>2, <4>2
        <5> QED BY <1>0, <3>1, <4>2, <5>1 DEF Complete
      <4> QED BY <4>1, <4>2
    <3> QED BY <2>1, <3>1, <3>4, <3>5 DEF EofInv
  <2> QED BY <1>3, <2>2, <2>3 DEF Peer
<1>4. CASE Caller
  <2>1. wire' = wire /\ shut' = shut /\ status' = status
        /\ pc' \in {"idle", "enter", "undefined"}
    BY <1>4 DEF Caller, SSL_read, SSL_write, SSL_free, MayCall, Begin
  <2> QED BY <1>0, <2>1 DEF EofInv, WireBytes, Complete
<1> QED BY <1>1, <1>2, <1>3, <1>4

\* "The stream ends" is reported at its end only: the peer has closed it, no whole
\* record waits, and all plaintext has been returned.
THEOREM EndCorrect == Spec => []EofComplete
<1>1. Init => EofInv
  <2> SUFFICES ASSUME Init PROVE EofInv
    OBVIOUS
  <2>1. WireBytes = 0 /\ pc # "recv"
    BY BytesEmpty DEF WireBytes, Init, FirstStep
  <2> QED BY <2>1 DEF Init, EofInv, At
<1>2. IInv /\ EofInv /\ [Next]_vars => EofInv'
  <2> SUFFICES ASSUME IInv, EofInv, [Next]_vars PROVE EofInv'
    OBVIOUS
  <2>1. CASE UNCHANGED vars
    BY <2>1 DEF vars, plainVars, outVars, retVars, EofInv, WireBytes, Complete, At
  <2>2. CASE ReadStep
    <3>1. UNCHANGED <<env, writes, made, shut, outVars>>
      BY <2>2 DEF ReadStep
    <3> QED BY <2>2, <3>1, EofReceive, EofDecode, EofOther DEF ReadStep
  <2> QED BY <2>1, <2>2, EofOther DEF Next
<1>3. EofInv => EofComplete
  BY DEF EofInv, EofComplete
<1> QED BY <1>1, <1>2, <1>3, InvariantHolds, PTL DEF Spec

-----------------------------------------------------------------------------
(* What is encrypted, what waits and what is sent.                          *)

\* A caller that stops after a failed SSL_write leaves a record in outsock only
\* while the call that encrypted it runs, or for good.
Stopped == At("idle") /\ (ret = "wfail" \/ (~live /\ ret = "none"))
PendInv ==
  /\ pc \notin {"idle", "undefined"} => live
  /\ "stops" \in env =>
       /\ pending # <<>> => (pc \in {"enter", "send"} /\ op = "write") \/ Stopped
       /\ pending # <<>> /\ At("enter") => outBufferCount = want

\* Each call of SSL_write encrypts its message at most once.
OnceInv ==
  /\ \A i \in 1 .. Len(encoded) : encoded[i] <= writes
  /\ At("encode") \/ (At("enter") /\ op = "write" /\ outBufferCount = 0) =>
       \A i \in 1 .. Len(encoded) : encoded[i] < writes
  /\ \A i, j \in 1 .. Len(encoded) :
       i < j /\ encoded[i] = encoded[j] => encoded[i] = Response

\* As long as the connection stands, all that is encrypted is sent, but for the
\* response or the record that is being sent.
InFlight == IF pc \in {"respond", "finish"} THEN <<Response>> ELSE pending
SendInv ==
  {"writable", "nosignal", "stops"} \subseteq env =>
    /\ Len(sent) <= Len(encoded)
    /\ \A i \in 1 .. Len(sent) : sent[i] = encoded[i]
    /\ live /\ fd => encoded = sent \o InFlight

\* outBufferCount is set exactly while the message of the call is in outsock: from the
\* second SSL_write on, or from the first when SSL_new found it zero.
WriteInv ==
  "stops" \in env =>
    /\ op = "write" \/ (At("idle") /\ ret = "wrote") => writes > 0
    /\ writes > 0 /\ op # "write" /\ pc # "undefined" => outBufferCount = 0 \/ Stopped
    /\ "zeroed" \in env \/ writes > 1 =>
         /\ outBufferCount >= 0
         /\ outBufferCount > 0 => (op = "write" /\ pc \in {"enter", "send"}) \/ Stopped
         /\ At("send") \/ (At("enter") /\ op = "write" /\ outBufferCount # 0) =>
              \E i \in 1 .. Len(pending) : pending[i] = writes
         /\ At("idle") /\ ret = "wrote" => \E i \in 1 .. Len(sent) : sent[i] = writes

StreamInv == PendInv /\ OnceInv /\ SendInv /\ WriteInv

LEMMA ConcatPrefix ==
  ASSUME NEW a \in Seq(Int), NEW c \in Seq(Int)
  PROVE  Len(a) <= Len(a \o c) /\ \A i \in 1 .. Len(a) : a[i] = (a \o c)[i]
OBVIOUS

LEMMA ConcatOne ==
  ASSUME NEW a \in Seq(Int), NEW x \in Int
  PROVE  Append(a, x) = a \o <<x>> /\ a \o <<>> = a /\ Append(a, x) \o <<>> = Append(a, x)
OBVIOUS

LEMMA ReadReturns ==
  ASSUME NEW s \in {"ok", "eof", "closenotify", "errno"}, op \in ReadActions,
         pc # "idle", ReadAgain \/ ReadFails(s) \/ ReadEnds(s)
  PROVE  /\ op' \in {op, "none"} /\ pc' \in {"idle", "enter"}
         /\ pc' = "idle" <=> op' = "none"
         /\ pc' = "idle" => ret' \notin {"wrote", "wfail"}
         /\ pc' # "idle" => (live' <=> live)
         /\ (live' => live) /\ (fd' => fd)
<1>1. CASE ReadAgain
  BY <1>1 DEF ReadAgain, Returns, ReadActions
<1>2. CASE ReadFails(s) \/ ReadEnds(s)
  <2>1. PICK r \in {"zero", "fail"} : GivesUp(r, s)
    BY <1>2 DEF ReadFails, ReadEnds
  <2>2. /\ pc' = "idle" /\ op' = "none" /\ ret' = r
    BY <2>1 DEF GivesUp, Returns
  <2>3. (live' => live) /\ (fd' => fd)
    BY <2>1, Zenon DEF GivesUp
  <2> QED BY <2>2, <2>3
<1> QED BY <1>1, <1>2

\* A step of _ssl_read is no part of a write, and ends with neither of its results.
ReadLeaves ==
  /\ op \in ReadActions /\ pc \notin {"idle", "undefined", "encode", "send"}
  /\ op' \in {op, "none"} /\ pc' \notin {"encode", "send"}
  /\ pc' = "idle" <=> op' = "none"
  /\ pc' = "idle" => ret' \notin {"wrote", "wfail"}
  /\ pc' # "idle" => (live' <=> live)
  /\ (live' => live) /\ (fd' => fd)

LEMMA ReceiveLeaves ==
  ASSUME IInv, Receive
  PROVE  ReadLeaves /\ pc \notin {"respond", "finish"} /\ pc' \notin {"respond", "finish"}
<1> USE DEF At
<1>0. pc \in {"enter", "recv", "null"} /\ op \in ReadActions
  BY DEF IInv, CallInv, TypeOK, Receive, EnterNull, EnterLeftover, EnterResponse, EnterRead,
         RecvNothing, Recv, ReadActions
<1>5. CASE EnterNull
  BY <1>0, <1>5, ReadReturns DEF EnterNull, ReadLeaves
<1>6. CASE EnterResponse
  BY <1>0, <1>6 DEF EnterResponse, Returns, ReadActions, ReadLeaves
<1>1. CASE EnterLeftover
  BY <1>0, <1>1 DEF EnterLeftover, Give, Returns, ReadActions, ReadLeaves
<1>2. CASE EnterRead
  BY <1>0, <1>2 DEF EnterRead, ReadLeaves, ReadActions
<1>3. CASE RecvNothing
  BY <1>0, <1>3, ReadReturns DEF RecvNothing, ReadLeaves
<1>4. ASSUME NEW k \in 1 .. Space, Recv(k)
      PROVE  ReadLeaves /\ pc' \notin {"respond", "finish"}
  BY <1>0, <1>4 DEF Recv, Goto, ReadLeaves, ReadActions
<1> QED BY <1>0, <1>1, <1>2, <1>3, <1>4, <1>5, <1>6 DEF Receive

LEMMA DecodeLeaves ==
  ASSUME IInv, Decode
  PROVE  /\ ReadLeaves /\ pc = "decode" /\ pc' # "finish"
         /\ \/ DecodeResponse
            \/ encoded' = encoded /\ pc' # "respond"
<1> USE DEF At
<1>0. pc = "decode" /\ op \in ReadActions
  BY DEF IInv, CallInv, ReadActions, Decode, DecodeFull, DecodeSuccess, DecodeData,
         DecodeResponse, DecodeError, DecodeAlert, DecodePartial, IsA
<1>a. ASSUME ReadLeaves, encoded' = encoded, pc' \notin {"respond", "finish"}
      PROVE  /\ ReadLeaves /\ pc = "decode" /\ pc' # "finish"
             /\ encoded' = encoded /\ pc' # "respond"
  BY <1>0, <1>a
<1>1. CASE DecodeFull
  BY <1>0, <1>a, <1>1 DEF DecodeFull, retVars, ReadLeaves, ReadActions
<1>2. CASE DecodeSuccess
  BY <1>0, <1>a, <1>2, ReadReturns DEF DecodeSuccess, ReadLeaves
<1>3. CASE DecodeData
  <2>1. CASE ReadAgain
    BY <1>0, <1>a, <1>3, <2>1, ReadReturns DEF DecodeData, ReadLeaves
  <2>2. ASSUME NEW n, NEW lo, NEW hi, Give(n, lo, hi)
        PROVE  ReadLeaves /\ pc' \notin {"respond", "finish"}
    BY <1>0, <2>2 DEF Give, Returns, ReadLeaves, ReadActions
  <2>3. encoded' = encoded
    BY <1>3 DEF DecodeData
  <2> QED BY <1>a, <1>3, <2>1, <2>2, <2>3 DEF DecodeData
<1>4. CASE DecodeResponse
  BY <1>0, <1>4 DEF DecodeResponse, Goto, ReadLeaves, ReadActions
<1>5. CASE DecodeError
  BY <1>0, <1>a, <1>5, ReadReturns DEF DecodeError, ReadLeaves
<1>6. CASE DecodeAlert
  BY <1>0, <1>a, <1>6, ReadReturns DEF DecodeAlert, ReadLeaves
<1>7. CASE DecodePartial
  <2>1. encoded' = encoded
    BY <1>7 DEF DecodePartial
  <2>2. CASE ReadFails("ok") \/ ReadAgain
    BY <1>0, <1>a, <2>1, <2>2, ReadReturns DEF ReadLeaves
  <2>3. CASE pc' = "recv" /\ UNCHANGED <<status, fd, live, op, want, ret>>
    BY <1>0, <1>a, <2>1, <2>3 DEF ReadLeaves, ReadActions
  <2> QED BY <1>7, <2>2, <2>3 DEF DecodePartial
<1> QED BY <1>1, <1>2, <1>3, <1>4, <1>5, <1>6, <1>7 DEF Decode

LEMMA RespondLeaves ==
  ASSUME IInv, Respond
  PROVE  ReadLeaves /\ pc \in {"respond", "finish"} /\ pc' # "respond"
<1> USE DEF At
<1>0. pc \in {"respond", "finish"} /\ op \in ReadActions
  BY DEF IInv, CallInv, ReadActions, Respond, RespondAll, RespondPart, RespondRest, RespondFails
<1>1. CASE RespondAll
  BY <1>0, <1>1, ReadReturns DEF RespondAll, ReadLeaves
<1>2. ASSUME NEW k \in -1 .. resp, RespondPart(k) PROVE ReadLeaves /\ pc' # "respond"
  BY <1>0, <1>2 DEF RespondPart, Goto, ReadLeaves, ReadActions
<1>3. ASSUME NEW what \in {Response, Part}, RespondRest(what)
      PROVE  ReadLeaves /\ pc' # "respond"
  BY <1>0, <1>3, ReadReturns DEF RespondRest, ReadLeaves
<1>4. CASE RespondFails
  BY <1>0, <1>4, ReadReturns DEF RespondFails, ReadLeaves
<1> QED BY <1>0, <1>1, <1>2, <1>3, <1>4 DEF Respond

-----------------------------------------------------------------------------
(* A step of _ssl_read keeps StreamInv: nothing of a write waits meanwhile. *)

LEMMA StreamRead ==
  ASSUME IInv, StreamInv, ReadStep
  PROVE  StreamInv'
<1> USE DEF At
<1>0. /\ TypeOK /\ PendInv /\ OnceInv /\ SendInv /\ WriteInv
      /\ UNCHANGED <<env, writes, outBufferCount, pending>>
      /\ writes \in Nat /\ encoded \in Seq(Int) /\ sent \in Seq(Int)
  BY DEF IInv, TypeOK, StreamInv, ReadStep, outVars
<1>1. ReadLeaves
  BY ReceiveLeaves, DecodeLeaves, RespondLeaves DEF ReadStep
<1>2. live /\ ("stops" \in env => pending = <<>>)
  BY <1>0, <1>1 DEF PendInv, ReadLeaves, ReadActions, Stopped
<1>3. PendInv'
  BY <1>0, <1>1, <1>2 DEF PendInv, ReadLeaves
<1>4. WriteInv'
  <2> SUFFICES ASSUME "stops" \in env PROVE WriteInv'
    BY <1>0 DEF WriteInv
  <2>1. op # "write" /\ op' # "write" /\ pc # "idle"
    BY <1>1 DEF ReadLeaves, ReadActions
  <2>2. writes > 0 => outBufferCount = 0
    BY <1>0, <1>1, <2>1 DEF WriteInv, Stopped, ReadLeaves
  <2>3. ~(pc' = "idle" /\ ret' = "wrote") /\ pc' # "send"
    BY <1>1 DEF ReadLeaves
  <2>4. "zeroed" \in env \/ writes > 1 => outBufferCount = 0
    <3>1. outBufferCount \in Int
      BY DEF IInv, TypeOK
    <3> QED BY <1>0, <1>1, <2>1, <3>1 DEF WriteInv, Stopped, ReadLeaves
  <2> QED BY <1>0, <1>1, <2>1, <2>2, <2>3, <2>4 DEF WriteInv, ReadLeaves
<1>5. encoded' = encoded \/ (DecodeResponse /\ encoded' = Append(encoded, Response))
  BY DecodeLeaves DEF ReadStep, Receive, Respond, DecodeResponse
<1>6. OnceInv'
  <2>1. ~(pc' = "encode" \/ (pc' = "enter" /\ op' = "write"))
    BY <1>1 DEF ReadLeaves, ReadActions
  <2>2. CASE encoded' = encoded
    BY <1>0, <2>1, <2>2 DEF OnceInv
  <2>3. CASE encoded' = Append(encoded, Response)
    <3>1. ASSUME NEW i \in 1 .. Len(encoded') PROVE encoded'[i] <= writes'
      BY <1>0, <2>3, <3>1 DEF OnceInv, Response
    <3>2. ASSUME NEW i \in 1 .. Len(encoded'), NEW j \in 1 .. Len(encoded'),
                 i < j, encoded'[i] = encoded'[j]
          PROVE  encoded'[i] = Response
      <4>1. CASE j = Len(encoded')
        <5>1. encoded'[j] = Response
          BY <1>0, <2>3, <4>1 DEF Response
        <5> QED BY <3>2, <5>1
      <4>2. CASE j # Len(encoded')
        <5>0. Len(encoded') = Len(encoded) + 1 /\ Len(encoded) \in Nat
          BY <1>0, <2>3 DEF Response
        <5>1. i \in 1 .. Len(encoded) /\ j \in 1 .. Len(encoded)
          BY <3>2, <4>2, <5>0
        <5>2. encoded'[i] = encoded[i] /\ encoded'[j] = encoded[j]
          BY <1>0, <2>3, <5>1 DEF Response
        <5> QED BY <1>0, <3>2, <5>1, <5>2 DEF OnceInv
      <4> QED BY <4>1, <4>2
    <3> QED BY <2>1, <3>1, <3>2 DEF OnceInv
  <2> QED BY <1>5, <2>2, <2>3
<1>7. SendInv'
  <2> SUFFICES ASSUME {"writable", "nosignal", "stops"} \subseteq env
               PROVE  /\ Len(sent') <= Len(encoded')
                      /\ \A i \in 1 .. Len(sent') : sent'[i] = encoded'[i]
                      /\ live' /\ fd' => encoded' = sent' \o InFlight'
    BY <1>0 DEF SendInv
  <2>0. /\ Len(sent) <= Len(encoded)
        /\ \A i \in 1 .. Len(sent) : sent[i] = encoded[i]
        /\ live /\ fd => encoded = sent \o InFlight
        /\ pending = <<>> /\ pending' = <<>>
    BY <1>0, <1>2 DEF SendInv
  <2>1. live' /\ fd' => live /\ fd
    BY <1>1 DEF ReadLeaves
  <2>2. CASE Receive \/ (Decode /\ ~DecodeResponse)
    <3>1. /\ sent' = sent /\ encoded' = encoded /\ pc \notin {"respond", "finish"}
          /\ pc' \notin {"respond", "finish"}
      BY <2>2, ReceiveLeaves, DecodeLeaves DEF Receive, Decode
    <3> QED BY <2>0, <2>1, <3>1 DEF InFlight
  <2>3. CASE DecodeResponse /\ sent' = sent
    <3>1. pc = "decode" /\ pc' = "respond" /\ encoded' = Append(encoded, Response)
      BY <2>3 DEF DecodeResponse, IsA, Goto
    <3>2. Len(encoded') = Len(encoded) + 1 /\ \A i \in 1 .. Len(encoded) : encoded'[i] = encoded[i]
      BY <1>0, <3>1 DEF Response
    <3>3. live' /\ fd' => encoded' = sent' \o <<Response>>
      <4>1. SUFFICES ASSUME live /\ fd PROVE encoded' = sent' \o <<Response>>
        BY <2>1
      <4>2. encoded = sent
        BY <1>0, <2>0, <3>1, <4>1, ConcatOne DEF InFlight, Response
      <4> QED BY <1>0, <2>3, <3>1, <4>2, ConcatOne DEF Response
    <3> QED BY <1>0, <2>0, <2>3, <3>1, <3>2, <3>3 DEF InFlight
  <2>4. CASE Respond
    <3>1. /\ pc \in {"respond", "finish"} /\ encoded' = encoded /\ pc' # "respond"
      BY <2>4, RespondLeaves DEF Respond
    <3>2. CASE sent' = sent /\ (pc' = "finish" \/ ~(live' /\ fd'))
      BY <2>0, <2>1, <3>1, <3>2 DEF InFlight
    <3>3. CASE fd /\ sent' = Append(sent, Response) /\ pc' # "finish"
      <4>1. encoded = sent \o <<Response>>
        BY <1>2, <2>0, <3>1, <3>3 DEF InFlight
      <4>2. sent' = encoded
        BY <1>0, <3>3, <4>1, ConcatOne DEF Response
      <4>3. encoded' = sent' \o InFlight'
        BY <1>0, <2>0, <3>1, <3>3, <4>2, ConcatOne DEF InFlight, Response
      <4> QED BY <1>0, <3>1, <4>2, <4>3
    <3>4. CASE RespondAll
      BY <3>3, <3>4, RespondLeaves DEF RespondAll, ReadAgain, Returns
    <3>5. ASSUME NEW k \in -1 .. resp, RespondPart(k)
          PROVE  sent' = sent /\ pc' = "finish"
      <4>1. k # -1
        BY <3>5 DEF RespondPart, WouldBlock, Holds
      <4> QED BY <3>5, <4>1 DEF RespondPart, Goto
    <3>6. ASSUME NEW what \in {Response, Part}, RespondRest(what)
          PROVE  fd /\ sent' = Append(sent, Response) /\ pc' # "finish"
      BY <3>6 DEF RespondRest, ReadAgain, Returns, Holds
    <3>7. CASE RespondFails
      <4>1. sent' = sent /\ ReadFails("errno")
        BY <3>7 DEF RespondFails
      <4>2. op \in ReadActions
        BY <1>1 DEF ReadLeaves
      <4>3. ~(live' /\ fd')
        BY <4>1, <4>2, FailCall DEF Status
      <4> QED BY <3>2, <4>1, <4>3
    <3> QED BY <2>4, <3>2, <3>3, <3>4, <3>5, <3>6, <3>7 DEF Respond
  <2> QED BY <2>2, <2>3, <2>4 DEF ReadStep, Decode
<1> QED BY <1>3, <1>4, <1>6, <1>7 DEF StreamInv

-----------------------------------------------------------------------------
(* A step of _ssl_write keeps StreamInv.                                    *)

LEMMA StreamWrite ==
  ASSUME IInv, StreamInv, WriteStep
  PROVE  StreamInv'
<1> USE DEF At
<1>0. /\ TypeOK /\ CallInv /\ PendInv /\ OnceInv /\ SendInv /\ WriteInv
      /\ UNCHANGED <<env, writes, live>> /\ writes \in Nat
      /\ encoded \in Seq(Int) /\ sent \in Seq(Int) /\ pending \in Seq(Int)
      /\ outBufferCount \in Int /\ want \in Nat
  BY DEF IInv, TypeOK, StreamInv, WriteStep
<1>1. pc \in {"enter", "encode", "send"} /\ op = "write" /\ want > 0 /\ live
  BY <1>0 DEF WriteStep, EnterWrite, Encode, SendAll, SendFails, SendPart, CallInv, PendInv
<1>2. CASE EnterWrite
  <2>1. /\ pc = "enter" /\ UNCHANGED <<outBufferCount, pending, encoded, sent, fd>>
        /\ \/ Returns("wfail", "ok")
           \/ /\ pc' = (IF outBufferCount = 0 THEN "encode" ELSE "send")
              /\ op' = op /\ want' = want
    BY <1>2 DEF EnterWrite
  <2>2. pc' \in {"idle", "encode", "send"} /\ (pc' = "idle" => ret' = "wfail")
        /\ (pc' # "idle" => op' = "write")
    BY <1>1, <2>1 DEF Returns
  <2>3. PendInv'
    <3>1. "stops" \in env /\ pending # <<>> => outBufferCount # 0
      BY <1>0, <1>1, <2>1 DEF PendInv, Stopped
    <3>2. pc' # "encode" \/ outBufferCount = 0
      BY <2>1 DEF Returns
    <3> QED BY <1>0, <1>1, <2>1, <2>2, <3>1, <3>2 DEF PendInv, Stopped
  <2>4. OnceInv' BY <1>0, <1>1, <2>1, <2>2 DEF OnceInv, Returns
  <2>5. SendInv' BY <1>0, <1>1, <2>1, <2>2 DEF SendInv, InFlight
  <2>6. WriteInv' BY <1>0, <1>1, <2>1, <2>2 DEF WriteInv, Stopped, Returns
  <2> QED BY <2>3, <2>4, <2>5, <2>6 DEF StreamInv
<1>3. CASE Encode
  <2>1. pc = "encode" /\ outBufferCount' = outBufferCount /\ sent' = sent
    BY <1>3 DEF Encode
  <2>2. CASE /\ pending' = Append(pending, writes) /\ encoded' = Append(encoded, writes)
             /\ Goto("send")
    <3>1. pc' = "send" /\ UNCHANGED <<op, want, ret, fd>>
      BY <2>2 DEF Goto
    <3>2. "stops" \in env => pending = <<>>
      BY <1>0, <2>1 DEF PendInv, Stopped
    <3>3. PendInv' BY <1>0, <1>1, <3>1 DEF PendInv, Stopped
    <3>4. Len(encoded') = Len(encoded) + 1 /\ encoded'[Len(encoded')] = writes
          /\ \A i \in 1 .. Len(encoded) : encoded'[i] = encoded[i] /\ encoded[i] < writes
      BY <1>0, <2>1, <2>2 DEF OnceInv
    <3>5. OnceInv'
      <4>1. ASSUME NEW i \in 1 .. Len(encoded') PROVE encoded'[i] <= writes'
        <5>1. CASE i = Len(encoded')
          BY <1>0, <3>4, <5>1
        <5>2. CASE i # Len(encoded')
          <6>1. i \in 1 .. Len(encoded) /\ encoded[i] \in Int
            BY <1>0, <3>4, <4>1, <5>2
          <6> QED BY <1>0, <3>4, <6>1
        <5> QED BY <5>1, <5>2
      <4>2. ASSUME NEW i \in 1 .. Len(encoded'), NEW j \in 1 .. Len(encoded'),
                   i < j, encoded'[i] = encoded'[j]
            PROVE  encoded'[i] = Response
        <5>1. i \in 1 .. Len(encoded) /\ encoded[i] < writes /\ encoded[i] \in Int
          BY <1>0, <3>4, <4>2
        <5>2. j # Len(encoded')
          BY <1>0, <3>4, <4>2, <5>1
        <5>3. j \in 1 .. Len(encoded)
          BY <1>0, <3>4, <5>2
        <5> QED BY <1>0, <3>4, <4>2, <5>1, <5>3 DEF OnceInv
      <4> QED BY <3>1, <4>1, <4>2 DEF OnceInv
    <3>6. SendInv'
      <4> SUFFICES ASSUME {"writable", "nosignal", "stops"} \subseteq env
                   PROVE  /\ Len(sent') <= Len(encoded')
                          /\ \A i \in 1 .. Len(sent') : sent'[i] = encoded'[i]
                          /\ live' /\ fd' => encoded' = sent' \o InFlight'
        BY <1>0 DEF SendInv
      <4>1. /\ Len(sent) <= Len(encoded)
            /\ \A i \in 1 .. Len(sent) : sent[i] = encoded[i]
            /\ live /\ fd => encoded = sent \o pending
            /\ pending = <<>> /\ pending' = <<writes>>
        BY <1>0, <2>1, <2>2, <3>2 DEF SendInv, InFlight
      <4>2. live /\ fd => encoded' = sent \o <<writes>>
        BY <1>0, <2>2, <4>1, ConcatOne
      <4> QED BY <1>0, <2>1, <3>1, <3>4, <4>1, <4>2 DEF InFlight
    <3>7. WriteInv'
      <4>1. Len(pending) + 1 \in 1 .. Len(pending') /\ pending'[Len(pending) + 1] = writes'
        BY <1>0, <2>2
      <4> QED BY <1>0, <1>1, <2>1, <3>1, <4>1 DEF WriteInv, Stopped
    <3> QED BY <3>3, <3>5, <3>6, <3>7 DEF StreamInv
  <2>3. CASE UNCHANGED <<pending, encoded, retVars>>
    <3>1. UNCHANGED <<pc, op, want, ret, fd>>
      BY <2>3 DEF retVars
    <3>3. PendInv' BY <1>0, <2>1, <2>3, <3>1 DEF PendInv, Stopped
    <3>4. OnceInv' BY <1>0, <2>1, <2>3, <3>1 DEF OnceInv
    <3>5. SendInv' BY <1>0, <2>1, <2>3, <3>1 DEF SendInv, InFlight
    <3>6. WriteInv' BY <1>0, <2>1, <2>3, <3>1 DEF WriteInv, Stopped
    <3> QED BY <3>3, <3>4, <3>5, <3>6 DEF StreamInv
  <2>4. CASE Returns("wfail", "ok") /\ UNCHANGED <<pending, encoded, fd>>
    <3>1. pc' = "idle" /\ ret' = "wfail" /\ op' = "none"
      BY <2>4 DEF Returns
    <3>3. PendInv' BY <1>0, <1>1, <2>1, <2>4, <3>1 DEF PendInv, Stopped
    <3>4. OnceInv' BY <1>0, <2>1, <2>4, <3>1 DEF OnceInv
    <3>5. SendInv' BY <1>0, <2>1, <2>4, <3>1 DEF SendInv, InFlight
    <3>6. WriteInv' BY <1>0, <2>1, <2>4, <3>1 DEF WriteInv, Stopped
    <3> QED BY <3>3, <3>4, <3>5, <3>6 DEF StreamInv
  <2> QED BY <1>3, <2>2, <2>3, <2>4 DEF Encode
<1>4. CASE SendAll
  <2>1. /\ pc = "send" /\ fd /\ fd' = fd /\ outBufferCount' = 0 /\ encoded' = encoded
        /\ sent' = sent \o pending /\ pending' = <<>>
        /\ pc' = "idle" /\ ret' = "wrote" /\ op' = "none"
    BY <1>4 DEF SendAll, CountAfter, Returns
  <2>3. PendInv' BY <2>1 DEF PendInv, Stopped
  <2>4. OnceInv' BY <1>0, <2>1 DEF OnceInv
  <2>5. SendInv'
    <3> SUFFICES ASSUME {"writable", "nosignal", "stops"} \subseteq env
                 PROVE  /\ Len(sent') <= Len(encoded')
                        /\ \A i \in 1 .. Len(sent') : sent'[i] = encoded'[i]
                        /\ live' /\ fd' => encoded' = sent' \o InFlight'
      BY <1>0 DEF SendInv
    <3>1. encoded = sent \o pending
      BY <1>0, <1>1, <2>1 DEF SendInv, InFlight
    <3>2. sent' = encoded'
      BY <2>1, <3>1
    <3>3. encoded' = sent' \o InFlight'
      <4>1. InFlight' = <<>>
        BY <2>1 DEF InFlight
      <4> QED BY <1>0, <2>1, <3>2, <4>1
    <3> QED BY <1>0, <2>1, <3>2, <3>3
  <2>6. WriteInv'
    <3>0. "stops" \in env => writes > 0
      BY <1>0, <1>1 DEF WriteInv
    <3> SUFFICES ASSUME "stops" \in env, "zeroed" \in env \/ writes > 1
                 PROVE  \E i \in 1 .. Len(sent') : sent'[i] = writes'
      BY <1>0, <2>1, <3>0 DEF WriteInv, Stopped
    <3>1. PICK i \in 1 .. Len(pending) : pending[i] = writes
      BY <1>0, <2>1 DEF WriteInv, Stopped
    <3>2. Len(sent) + i \in 1 .. Len(sent') /\ sent'[Len(sent) + i] = pending[i]
      BY <1>0, <2>1
    <3> QED BY <1>0, <3>1, <3>2
  <2> QED BY <2>3, <2>4, <2>5, <2>6 DEF StreamInv
<1>5. ASSUME NEW k \in 1 .. outsock.len, SendPart(k) PROVE StreamInv'
  <2>1. /\ pc = "send" /\ pc' = "enter" /\ outBufferCount' = want
        /\ UNCHANGED <<op, want, ret, fd, pending, encoded, sent>>
    BY <1>5 DEF SendPart, Remembered, Goto
  <2>3. PendInv' BY <1>0, <1>1, <2>1 DEF PendInv, Stopped
  <2>4. OnceInv' BY <1>0, <1>1, <2>1 DEF OnceInv
  <2>5. SendInv' BY <1>0, <1>1, <2>1 DEF SendInv, InFlight
  <2>6. WriteInv' BY <1>0, <1>1, <2>1 DEF WriteInv, Stopped
  <2> QED BY <2>3, <2>4, <2>5, <2>6 DEF StreamInv
<1>6. CASE SendFails
  <2>1. /\ pc = "send" /\ pc' = "idle" /\ ret' = "wfail"
        /\ UNCHANGED <<outBufferCount, pending, encoded, sent, fd>>
    BY <1>6 DEF SendFails, Returns, outVars
  <2>3. PendInv' BY <1>0, <1>1, <2>1 DEF PendInv, Stopped
  <2>4. OnceInv' BY <1>0, <1>1, <2>1 DEF OnceInv
  <2>5. SendInv' BY <1>0, <1>1, <2>1 DEF SendInv, InFlight
  <2>6. WriteInv' BY <1>0, <1>1, <2>1 DEF WriteInv, Stopped
  <2> QED BY <2>3, <2>4, <2>5, <2>6 DEF StreamInv
<1> QED BY <1>2, <1>3, <1>4, <1>5, <1>6 DEF WriteStep

-----------------------------------------------------------------------------
(* The caller, and the theorems.                                            *)

LEMMA StreamOther ==
  ASSUME IInv, StreamInv, Peer \/ Caller
  PROVE  StreamInv'
<1> USE DEF At
<1>0. /\ TypeOK /\ PendInv /\ OnceInv /\ SendInv /\ WriteInv
      /\ UNCHANGED <<env, outBufferCount, pending, encoded, sent>>
      /\ writes \in Nat /\ encoded \in Seq(Int) /\ outBufferCount \in Int
  BY DEF IInv, TypeOK, StreamInv, Peer, Caller, outVars
<1>2. CASE Peer
  <2>0. UNCHANGED <<pc, op, ret, want, fd, live, writes>>
    BY <1>2 DEF Peer, retVars
  <2>1. PendInv' BY <1>0, <2>0 DEF PendInv, Stopped
  <2>2. OnceInv' BY <1>0, <2>0 DEF OnceInv
  <2>3. SendInv' BY <1>0, <2>0 DEF SendInv, InFlight
  <2>4. WriteInv' BY <1>0, <2>0 DEF WriteInv, Stopped
  <2> QED BY <2>1, <2>2, <2>3, <2>4 DEF StreamInv
<1>3. CASE SSL_free
  <2>0. UNCHANGED <<pc, op, want, fd, writes>> /\ pc = "idle" /\ live /\ ~live'
        /\ ret' = "none"
    BY <1>3 DEF SSL_free
  <2>1. PendInv' BY <1>0, <2>0 DEF PendInv, Stopped
  <2>2. OnceInv' BY <1>0, <2>0 DEF OnceInv
  <2>3. SendInv' BY <1>0, <2>0 DEF SendInv, InFlight
  <2>4. WriteInv' BY <1>0, <2>0 DEF WriteInv, Stopped
  <2> QED BY <2>1, <2>2, <2>3, <2>4 DEF StreamInv
<1>4. CASE SSL_read \/ SSL_write
  <2>0. CallInv BY DEF IInv
  <2>1. /\ pc = "idle" /\ op = "none" /\ live' = live /\ fd' = fd
        /\ live \/ ret = "fail"
        /\ ("stops" \in env => ret # "wfail")
        /\ \/ writes' = writes /\ op' # "write"
           \/ writes' = writes + 1
        /\ \/ pc' = "enter" /\ live /\ op' = (IF writes' = writes THEN "read" ELSE "write")
           \/ pc' = "undefined" /\ op' = op
    <3>1. writes + 1 # writes BY <1>0
    <3>2. CASE SSL_read
      BY <3>2, <2>0 DEF SSL_read, MayCall, Begin, Holds, Freed, CallInv
    <3>3. CASE SSL_write
      BY <3>1, <3>3, <2>0 DEF SSL_write, MayCall, Begin, Holds, Freed, CallInv
    <3> QED BY <1>4, <3>2, <3>3
  <2>6. "stops" \in env => ~Stopped
    BY <2>1 DEF Stopped
  <2>2. PendInv' BY <1>0, <2>1, <2>6 DEF PendInv
  <2>3. OnceInv' BY <1>0, <2>1 DEF OnceInv
  <2>4. SendInv' BY <1>0, <2>1 DEF SendInv, InFlight
  <2>5. WriteInv'
    <3> SUFFICES ASSUME "stops" \in env PROVE WriteInv'
      BY <1>0 DEF WriteInv
    <3>1. writes > 0 \/ "zeroed" \in env => outBufferCount = 0
      BY <1>0, <2>1, <2>6 DEF WriteInv
    <3>2. writes' > 1 => writes > 0
      BY <1>0, <2>1
    <3>3. op' # "write" /\ writes' > 0 /\ pc' # "undefined" => outBufferCount = 0
      <4>1. CASE writes' = writes
        BY <2>1, <3>1, <4>1
      <4>2. CASE writes' # writes
        BY <2>1, <4>2
      <4> QED BY <4>1, <4>2
    <3> QED BY <1>0, <2>1, <3>1, <3>2, <3>3 DEF WriteInv
  <2> QED BY <2>2, <2>3, <2>4, <2>5 DEF StreamInv
<1> QED BY <1>2, <1>3, <1>4 DEF Caller

LEMMA InitStream == ASSUME Init PROVE StreamInv
<1> USE DEF Init, At
<1>0. pc \in {"enter", "null", "undefined"}
  BY DEF FirstStep
<1>1. PendInv BY <1>0 DEF PendInv
<1>2. OnceInv BY <1>0 DEF OnceInv
<1>3. SendInv BY <1>0 DEF SendInv, InFlight
<1>4. WriteInv BY <1>0 DEF WriteInv, Holds
<1> QED BY <1>1, <1>2, <1>3, <1>4 DEF StreamInv

\* What is encrypted, waits and is sent agrees in every reachable state.
THEOREM StreamHolds == Spec => []StreamInv
<1>1. Init => StreamInv
  BY InitStream
<1>2. IInv /\ StreamInv /\ [Next]_vars => StreamInv'
  <2> SUFFICES ASSUME IInv, StreamInv, [Next]_vars PROVE StreamInv'
    OBVIOUS
  <2>1. CASE UNCHANGED vars
    BY <2>1 DEF vars, outVars, retVars, StreamInv, PendInv, OnceInv, SendInv, WriteInv,
                InFlight, Stopped, At
  <2> QED BY <2>1, StreamRead, StreamWrite, StreamOther DEF Next
<1> QED BY <1>1, <1>2, InvariantHolds, PTL DEF Spec

\* Records and responses leave whole, once and in the order they were encrypted in.
THEOREM WireCorrect == Spec => []WireOrder
<1>1. IInv /\ StreamInv => WireOrder
  <2> SUFFICES ASSUME IInv, StreamInv, {"writable", "nosignal", "stops"} \subseteq env
               PROVE  /\ Len(sent) <= Len(encoded) /\ sent = SubSeq(encoded, 1, Len(sent))
                      /\ \A i, j \in 1 .. Len(sent) :
                           i < j /\ sent[i] = sent[j] => sent[i] = Response
    BY DEF WireOrder
  <2>1. /\ Len(sent) <= Len(encoded) /\ \A i \in 1 .. Len(sent) : sent[i] = encoded[i]
        /\ sent \in Seq(Int) /\ encoded \in Seq(Int)
    BY DEF IInv, TypeOK, StreamInv, SendInv
  <2>2. sent = SubSeq(encoded, 1, Len(sent))
    BY <2>1
  <2>3. \A i, j \in 1 .. Len(encoded) :
          i < j /\ encoded[i] = encoded[j] => encoded[i] = Response
    BY DEF StreamInv, OnceInv
  <2>4. ASSUME NEW i \in 1 .. Len(sent), NEW j \in 1 .. Len(sent), i < j, sent[i] = sent[j]
        PROVE  sent[i] = Response
    <3>1. i \in 1 .. Len(encoded) /\ j \in 1 .. Len(encoded)
      BY <2>1, <2>4
    <3> QED BY <2>1, <2>3, <2>4, <3>1
  <2> QED BY <2>1, <2>2, <2>4
<1> QED BY <1>1, InvariantHolds, StreamHolds, PTL

\* The message of an SSL_write that succeeded is on the connection, for a caller that
\* stops after a failed one; but for the first when SSL_new found something else than
\* zero in outBufferCount.
THEOREM WriteCorrect == Spec => []WriteHonest
<1>1. IInv /\ StreamInv => WriteHonest
  BY DEF IInv, TypeOK, StreamInv, WriteInv, WriteHonest, At
<1> QED BY <1>1, InvariantHolds, StreamHolds, PTL
=============================================================================
