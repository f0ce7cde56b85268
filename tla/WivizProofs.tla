----------------------------- MODULE WivizProofs -----------------------------
(***************************************************************************)
(* Proofs about Wiviz: its types, that whatever is printed or written       *)
(* through a pointer of a slot is there, that the daemon knows the one      *)
(* channel hopper there is, that a host is in one slot of the table, and    *)
(* that it is forgotten only when it is old or another needs its slot.      *)
(***************************************************************************)
EXTENDS Wiviz, TLAPS, FiniteSetTheorems, SequenceTheorems, WellFoundedInduction

\* A frame inside of gotHost has a call to make and a slot of the table.
InCall == {"mark", "name", "info", "use"}
WellFormed == {f \in Frame : f.step \in InCall => f.todo # <<>> /\ f.slot \in Slot}
TypeInv == TypeOK /\ stack \in Seq(WellFormed)

-----------------------------------------------------------------------------
(* The stack                                                               *)

LEMMA SetProperties ==
  ASSUME NEW S, NEW s \in Seq(S), s # <<>>, NEW f \in S, NEW t, t = [s EXCEPT ![Len(s)] = f]
  PROVE  /\ t \in Seq(S) /\ Len(t) = Len(s) /\ t # <<>> /\ t[Len(t)] = f
         /\ \A i \in 1 .. Len(s) - 1 : t[i] = s[i]
<1>1. Len(s) \in Nat \ {0}
  BY EmptySeq
<1>2. Len(s) \in 1 .. Len(s)
  BY <1>1
<1>3. /\ t \in Seq(S) /\ Len(t) = Len(s)
      /\ \A j \in 1 .. Len(s) : t[j] = IF j = Len(s) THEN f ELSE s[j]
  BY <1>2, ExceptSeq
<1>4. t # <<>>
  BY <1>1, <1>3, EmptySeq
<1>5. t[Len(t)] = f
  BY <1>2, <1>3
<1>6. ASSUME NEW i \in 1 .. Len(s) - 1 PROVE t[i] = s[i]
  <2>1. i \in 1 .. Len(s) /\ i # Len(s)
    BY <1>1
  <2> QED
    BY <1>3, <2>1
<1> QED
  BY <1>3, <1>4, <1>5, <1>6

LEMMA TopProperties ==
  ASSUME stack \in Seq(WellFormed), stack # <<>>
  PROVE  top \in WellFormed /\ Len(stack) \in Nat \ {0}
BY EmptySeq, LenProperties DEF top

LEMMA PopProperties ==
  ASSUME NEW S, NEW s \in Seq(S), Len(s) > 1
  PROVE  Pop(s) \in Seq(S) /\ Len(Pop(s)) = Len(s) - 1 /\ \A i \in 1 .. Len(s) - 1 : Pop(s)[i] = s[i]
<1>1. Len(s) \in Nat /\ \A i \in 1 .. Len(s) - 1 : s[i] \in S
  OBVIOUS
<1> QED
  BY <1>1, SubSeqProperties DEF Pop

-----------------------------------------------------------------------------
(* gotHost finds a slot                                                    *)

LEMMA LeastNatural ==
  ASSUME NEW T, T \subseteq Nat, T # {} PROVE \E x \in T : \A y \in T : ~(y < x)
<1>1. \E x \in T : \A y \in T : <<y, x>> \notin OpToRel(<, Nat)
  BY NatLessThanWellFounded, WFMin
<1> QED
  BY <1>1 DEF OpToRel

LEMMA FoundInSlot == ASSUME NEW m \in Mac PROVE Found(m) \in Slot
<1> DEFINE P(c) == Ends(m, c) /\ \A d \in 0 .. c - 1 : ~Ends(m, d)
           T == {c \in 0 .. MaxProbes + 1 : Ends(m, c)}
<1>1. MaxProbes \in Nat
  BY SizeAssumption DEF MaxProbes
<1>2. T \subseteq Nat /\ MaxProbes + 1 \in T
  BY <1>1 DEF Ends
<1>3. PICK x \in T : \A y \in T : ~(y < x)
  BY <1>2, LeastNatural
<1>4. x \in 0 .. MaxProbes + 1 /\ P(x)
  BY <1>1, <1>3
<1> DEFINE c == CHOOSE k \in 0 .. MaxProbes + 1 : P(k)
<1>5. c \in 0 .. MaxProbes + 1
  BY <1>4
<1>6. Hash[m] \in 0 .. MaxHosts - 1
  BY MacAssumption DEF Slot
<1> HIDE DEF c
<1>7. (Hash[m] + c) % MaxHosts \in Slot
  BY <1>1, <1>5, <1>6, SizeAssumption DEF Slot
<1> QED
  BY <1>7 DEF Found, Probe, c

-----------------------------------------------------------------------------
(* Types                                                                   *)

LEMMA BeginTyped ==
  ASSUME NEW who \in {"wait", "packet", "page", "config", "start"}, NEW todo \in Seq(Call),
         NEW sel \in {"hop", "set", "same"}
  PROVE  Begin(who, todo, sel) \in WellFormed
BY SizeAssumption DEF Begin, WellFormed, Frame, InCall

LEMMA WaitTyped == Wait \in WellFormed
<1>1. <<>> \in Seq(Call)
  OBVIOUS
<1> QED
  BY <1>1, BeginTyped DEF Wait

LEMMA WlCallsTyped == WlCalls \subseteq Seq(Call)
<1> SUFFICES ASSUME NEW todo \in WlCalls PROVE todo \in Seq(Call)
  OBVIOUS
<1>1. \A m \in Mac, t \in {"AP", "Sta"} : Calls(m, t) \in Call
  BY DEF Calls, Call
<1>2. Own \in Mac /\ Heard \subseteq Mac
  BY MacAssumption DEF Heard
<1>3. CASE todo = <<>>
  BY <1>3
<1>4. CASE todo = <<Calls(Own, "Sta")>>
  BY <1>1, <1>2, <1>4
<1>5. ASSUME NEW s \in Stations,
             todo = <<Calls(Own, "AP")>> \o [i \in DOMAIN s |-> Calls(s[i], "Sta")]
      PROVE  todo \in Seq(Call)
  <2>1. PICK n \in Nat : s \in [1 .. n -> Heard]
    BY SizeAssumption DEF Stations
  <2>2. [i \in DOMAIN s |-> Calls(s[i], "Sta")] \in Seq(Call)
    BY <1>1, <1>2, <2>1, SeqDef
  <2>3. <<Calls(Own, "AP")>> \in Seq(Call)
    BY <1>1, <1>2
  <2> QED
    BY <1>5, <2>2, <2>3, ConcatProperties
<1> QED
  BY <1>3, <1>4, <1>5 DEF WlCalls

LEMMA FramesTyped == Frames \subseteq Seq(Call)
<1> SUFFICES ASSUME NEW todo \in Frames PROVE todo \in Seq(Call)
  OBVIOUS
<1>1. \A m \in Mac, t \in {"AP", "Sta"} : Calls(m, t) \in Call
  BY DEF Calls, Call
<1>2. \A m \in Mac, hub \in BOOLEAN : [Calls(m, "AP") EXCEPT !.hub = hub] \in Call
  BY DEF Calls, Call
<1>3. Heard \subseteq Mac
  BY MacAssumption DEF Heard
<1>4. CASE todo = <<>>
  BY <1>4
<1>5. ASSUME NEW m \in Heard, NEW t \in {"AP", "Sta"}, todo = <<Calls(m, t)>>
      PROVE  todo \in Seq(Call)
  BY <1>1, <1>3, <1>5
<1>6. ASSUME NEW m \in Heard, NEW b \in Heard, NEW hub \in BOOLEAN,
             todo = <<Calls(m, "Sta"), [Calls(b, "AP") EXCEPT !.hub = hub]>>
      PROVE  todo \in Seq(Call)
  BY <1>1, <1>2, <1>3, <1>6
<1> QED
  BY <1>4, <1>5, <1>6 DEF Frames

LEMMA ConfigsTyped == Configs \subseteq WellFormed
<1>1. <<>> \in Seq(Call)
  OBVIOUS
<1>2. \A todo \in WlCalls \cup {<<>>} : todo \in Seq(Call)
  BY <1>1, WlCallsTyped
<1> QED
  BY <1>1, <1>2, BeginTyped DEF Configs

\* What Set makes of the stack, and what is left of it by what it does not set.
LEMMA SetTyped ==
  ASSUME stack \in Seq(WellFormed), stack # <<>>, NEW f \in WellFormed, Set(f)
  PROVE  /\ stack' \in Seq(WellFormed) /\ stack' # <<>> /\ Len(stack') = Len(stack) /\ top' = f
         /\ \A i \in 1 .. Len(stack) - 1 : stack'[i] = stack[i]
BY SetProperties DEF Set, top

LEMMA FrameFields ==
  ASSUME NEW f \in WellFormed
  PROVE  /\ f.who \in {"wait", "packet", "page", "config", "start"}
         /\ f.step \in {"look", "mark", "name", "info", "use", "print", "apply", "fork", "note",
                        "end", "exit"}
         /\ f.todo \in Seq(Call) /\ f.slot \in 0 .. MaxHosts
         /\ f.sel \in {"hop", "set", "same"} /\ f.child \in Pid \cup {-1}
         /\ f.step \in InCall => f.todo # <<>> /\ f.slot \in Slot
         /\ f = [who |-> f.who, step |-> f.step, todo |-> f.todo, slot |-> f.slot,
                 sel |-> f.sel, child |-> f.child]
BY DEF WellFormed, Frame

\* A step to another program point that needs no more than the one before.
LEMMA StepTyped ==
  ASSUME NEW f \in WellFormed,
         NEW p \in {"look", "mark", "name", "info", "use", "print", "apply", "fork", "note",
                    "end", "exit"},
         p \in InCall => f.step \in InCall
  PROVE  [f EXCEPT !.step = p] \in WellFormed
BY DEF WellFormed, Frame

\* The fields of a frame that has gone one step on.
LEMMA StepFields ==
  ASSUME NEW f \in WellFormed, NEW p
  PROVE  /\ [f EXCEPT !.step = p].step = p /\ [f EXCEPT !.step = p].slot = f.slot
         /\ [f EXCEPT !.step = p].todo = f.todo
BY DEF WellFormed, Frame

LEMMA SlotFields ==
  ASSUME NEW f \in WellFormed, NEW n, NEW g, g = [f EXCEPT !.step = "mark", !.slot = n]
  PROVE  g.step = "mark"
<1> DEFINE h == [f EXCEPT !.step = "mark"]
<1>1. DOMAIN h = {"who", "step", "todo", "slot", "sel", "child"} /\ h.step = "mark"
  BY DEF WellFormed, Frame
<1> HIDE DEF h
<1>2. g = [h EXCEPT !.slot = n]
  BY DEF h
<1> QED
  BY <1>1, <1>2

LEMMA LookFields ==
  ASSUME NEW f \in WellFormed, NEW t, NEW n, NEW g,
         g = [f EXCEPT !.step = "look", !.todo = t, !.slot = n]
  PROVE  g.step = "look"
<1> DEFINE h == [f EXCEPT !.step = "look"]
           k == [h EXCEPT !.todo = t]
<1>1. DOMAIN h = {"who", "step", "todo", "slot", "sel", "child"} /\ h.step = "look"
  BY DEF WellFormed, Frame
<1> HIDE DEF h
<1>2. DOMAIN k = {"who", "step", "todo", "slot", "sel", "child"} /\ k.step = "look"
  BY <1>1
<1> HIDE DEF k
<1>3. g = [k EXCEPT !.slot = n]
  BY DEF h, k
<1> QED
  BY <1>2, <1>3

LEMMA ChildFields ==
  ASSUME NEW f \in WellFormed, NEW c, NEW g
  PROVE  /\ g = [f EXCEPT !.step = "note", !.child = c] => g.step = "note" /\ g.child = c
         /\ g = [f EXCEPT !.step = "end", !.child = c] => g.step = "end"
<1>1. ASSUME NEW p, g = [f EXCEPT !.step = p, !.child = c] PROVE g.step = p /\ g.child = c
  <2> DEFINE h == [f EXCEPT !.step = p]
  <2>1. DOMAIN h = {"who", "step", "todo", "slot", "sel", "child"} /\ h.step = p
    BY DEF WellFormed, Frame
  <2> HIDE DEF h
  <2>2. g = [h EXCEPT !.child = c]
    BY <1>1 DEF h
  <2> QED
    BY <2>1, <2>2
<1> QED
  BY <1>1

LEMMA TypeInit == Init => TypeInv
<1> SUFFICES ASSUME Init PROVE TypeInv
  OBVIOUS
<1>1. NoHost \in Host
  BY DEF NoHost, Host, Type
<1>2. <<>> \in Seq(Frame) /\ <<>> \in Seq(WellFormed)
  OBVIOUS
<1> QED
  BY <1>1, <1>2, SurroundingsAssumption DEF Init, TypeInv, TypeOK

\* What happens to the slot of a host.
LEMMA HostMarked ==
  ASSUME NEW h \in Host, NEW t \in Type, NEW g,
         g = [h EXCEPT !.occupied = TRUE, !.old = FALSE, !.type = t]
  PROVE  g \in Host /\ g.type = t
<1> DEFINE h1 == [h EXCEPT !.occupied = TRUE]
           h2 == [h1 EXCEPT !.old = FALSE]
<1>1. h1 \in Host
  BY DEF Host
<1> HIDE DEF h1
<1>2. h2 \in Host
  BY <1>1 DEF Host
<1> HIDE DEF h2
<1>3. g = [h2 EXCEPT !.type = t]
  BY DEF h1, h2
<1> QED
  BY <1>2, <1>3 DEF Host

LEMMA HostForgotten ==
  ASSUME NEW h \in Host, NEW g, g = [h EXCEPT !.occupied = FALSE, !.old = FALSE]
  PROVE  g \in Host /\ (Missing(g) <=> Missing(h))
<1> DEFINE h1 == [h EXCEPT !.occupied = FALSE]
<1>1. /\ h1 \in Host /\ h1.type = h.type
      /\ h1.apInfo = h.apInfo /\ h1.staInfo = h.staInfo
  BY DEF Host
<1> HIDE DEF h1
<1>2. g = [h1 EXCEPT !.old = FALSE]
  BY DEF h1
<1>3. /\ g \in Host /\ g.type = h1.type
      /\ g.apInfo = h1.apInfo /\ g.staInfo = h1.staInfo
  BY <1>1, <1>2 DEF Host
<1> QED
  BY <1>1, <1>3 DEF Missing

LEMMA HostInformed ==
  ASSUME NEW h \in Host
  PROVE  /\ Informed(h) \in Host /\ Informed(h).type = h.type
         /\ h.type \in {"AP", "Sta"} => ~Missing(Informed(h))
<1> DEFINE ap == h.apInfo \/ h.type = "AP"
           sta == h.staInfo \/ h.type = "Sta"
           h1 == [h EXCEPT !.apInfo = ap]
           g == [h1 EXCEPT !.staInfo = sta]
<1>1. ap \in BOOLEAN /\ sta \in BOOLEAN /\ (h.type = "AP" => ap) /\ (h.type = "Sta" => sta)
  OBVIOUS
<1>2. Informed(h) = g
  BY DEF Informed
<1> HIDE DEF ap, sta
<1>3. h1 \in Host /\ h1.type = h.type /\ h1.apInfo = ap
  BY <1>1 DEF Host
<1> HIDE DEF h1
<1>4. g \in Host /\ g.type = h1.type /\ g.apInfo = h1.apInfo /\ g.staInfo = sta
  BY <1>1, <1>3 DEF Host
<1> HIDE DEF g
<1>5. h.type \in {"AP", "Sta"} => ~Missing(g)
  BY <1>1, <1>3, <1>4 DEF Missing
<1> QED
  BY <1>2, <1>3, <1>4, <1>5

LEMMA StackTyped == stack \in Seq(WellFormed) => stack \in Seq(Frame)
BY SeqMonotonic DEF WellFormed

\* The four steps of gotHost, the use of its result, and printing.
LEMMA TypeHosts ==
  ASSUME TypeInv, GotHost \/ PrintHost
  PROVE  hosts' \in [Slot -> Host] /\ stack' \in Seq(WellFormed)
         /\ fault' \in {NULL, "memory", "info", "killall"}
<1> USE DEF TypeInv, TypeOK
<1>1. stack # <<>> /\ top \in WellFormed /\ top.who # "wait"
  BY TopProperties DEF GotHost, Look, Mark, Name, Info, Use, PrintHost, At
<1>2. top.step \in InCall \/ Look => call \in Call /\ Tail(top.todo) \in Seq(Call)
  BY <1>1, FrameFields DEF Look, call
<1>3. CASE Look
  <2> DEFINE f == [top EXCEPT !.step = "mark", !.slot = Found(call.mac)]
  <2>1. call \in Call /\ call.mac \in Mac
    BY <1>2, <1>3 DEF Call
  <2>2. Found(call.mac) \in Slot
    BY <2>1, FoundInSlot
  <2>3. Slot \subseteq 0 .. MaxHosts
    BY SizeAssumption DEF Slot
  <2>4. f \in Frame /\ f.todo = top.todo /\ f.slot = Found(call.mac)
    BY <1>1, <2>2, <2>3 DEF WellFormed, Frame
  <2>5. f \in WellFormed
    BY <1>3, <2>2, <2>4 DEF WellFormed, Look
  <2> QED
    BY <1>1, <1>3, <2>5, SetTyped DEF Look
<1>4. CASE Mark
  <2>1. [top EXCEPT !.step = "name"] \in WellFormed
    BY <1>1, <1>4, StepTyped DEF Mark, At, InCall
  <2>2. top.slot \in Slot /\ call.type \in Type
    BY <1>1, <1>2, <1>4, FrameFields DEF Mark, At, InCall, Call, Type
  <2>4. [hosts[top.slot] EXCEPT !.occupied = TRUE, !.old = FALSE, !.type = call.type] \in Host
    <3> DEFINE g == [hosts[top.slot] EXCEPT !.occupied = TRUE, !.old = FALSE, !.type = call.type]
    <3>1. hosts[top.slot] \in Host
      BY <2>2
    <3> HIDE DEF g
    <3>2. g = [hosts[top.slot] EXCEPT !.occupied = TRUE, !.old = FALSE, !.type = call.type]
      BY DEF g
    <3>3. g \in Host
      BY <2>2, <3>1, <3>2, HostMarked
    <3> QED
      BY <3>3 DEF g
  <2> QED
    BY <1>1, <1>4, <2>1, <2>2, <2>4, SetTyped DEF Mark, Step
<1>5. CASE Name
  <2>1. [top EXCEPT !.step = "info"] \in WellFormed
    BY <1>1, <1>5, StepTyped DEF Name, At, InCall
  <2>2. top.slot \in Slot /\ call.mac \in Mac
    BY <1>1, <1>2, <1>5, FrameFields DEF Name, At, InCall, Call
  <2>3. [hosts[top.slot] EXCEPT !.mac = call.mac] \in Host
    BY <2>2 DEF Host
  <2> QED
    BY <1>1, <1>5, <2>1, <2>2, <2>3, SetTyped DEF Name, Step
<1>6. CASE Info
  <2>1. [top EXCEPT !.step = "use"] \in WellFormed
    BY <1>1, <1>6, StepTyped DEF Info, At, InCall
  <2>2. top.slot \in Slot
    BY <1>1, <1>6, FrameFields DEF Info, At, InCall
  <2> DEFINE h == hosts[top.slot]
  <2>4. Informed(h) \in Host
    BY <2>2, HostInformed
  <2> QED
    BY <1>1, <1>6, <2>1, <2>2, <2>4, SetTyped DEF Info, Step
<1>7. CASE Use
  <2> DEFINE f == [top EXCEPT !.step = "look", !.todo = Tail(top.todo), !.slot = 0]
  <2>2. top.slot \in Slot /\ Tail(top.todo) \in Seq(Call)
    BY <1>1, <1>2, <1>7, FrameFields DEF Use, At, InCall
  <2>3. f \in Frame /\ f.step = "look"
    <3> DEFINE f1 == [top EXCEPT !.step = "look"]
               f2 == [f1 EXCEPT !.todo = Tail(top.todo)]
    <3>1. f1 \in Frame /\ f1.step = "look"
      BY <1>1 DEF WellFormed, Frame
    <3> HIDE DEF f1
    <3>2. f2 \in Frame /\ f2.step = "look"
      BY <2>2, <3>1 DEF Frame
    <3> HIDE DEF f2
    <3>a. 0 \in 0 .. MaxHosts
      BY SizeAssumption
    <3>3. [f2 EXCEPT !.slot = 0] \in Frame /\ [f2 EXCEPT !.slot = 0].step = "look"
      BY <3>2, <3>a DEF Frame
    <3> QED
      BY <3>3 DEF f1, f2
  <2>4. [hosts[top.slot] EXCEPT !.type = "AdhocHub"] \in Host
    BY <2>2 DEF Host, Type
  <2>5. hosts' \in [Slot -> Host]
    BY <1>7, <2>2, <2>4 DEF Use
  <2> QED
    BY <1>1, <1>7, <2>3, <2>5, SetTyped DEF Use, WellFormed, InCall
<1>8. CASE PrintHost
  <2>1. top.slot + 1 \in 0 .. MaxHosts /\ top.step = "print"
    BY <1>8, SizeAssumption DEF PrintHost, At, Slot
  <2>2. [top EXCEPT !.slot = top.slot + 1] \in WellFormed
    BY <1>1, <2>1 DEF WellFormed, Frame, InCall
  <2>3. [hosts[top.slot] EXCEPT !.occupied = FALSE, !.old = FALSE] \in Host
    BY <1>8, HostForgotten DEF PrintHost
  <2>4. hosts' \in [Slot -> Host]
    BY <1>8, <2>3 DEF PrintHost
  <2> QED
    BY <1>1, <1>8, <2>2, <2>4, SetTyped DEF PrintHost
<1> QED
  BY <1>3, <1>4, <1>5, <1>6, <1>7, <1>8 DEF GotHost

LEMMA TypeHopper ==
  ASSUME TypeInv, Unread \/ Overrun \/ Apply \/ Fork \/ Note
  PROVE  /\ stack' \in Seq(WellFormed) /\ hopping' \in BOOLEAN /\ pid' \in Pid \cup {0, -1}
         /\ hoppers' \subseteq Pid /\ fault' \in {NULL, "memory", "info", "killall"}
<1> USE DEF TypeInv, TypeOK
<1>1. stack # <<>> /\ top \in WellFormed
  BY TopProperties DEF Unread, Overrun, Apply, Fork, Note, At
<1>2. Kill(pid) => /\ hoppers' \subseteq Pid
                   /\ fault' \in {NULL, "memory", "info", "killall"}
  BY DEF Kill, Killed
<1>3. CASE Apply
  <2>1. [top EXCEPT !.step = "fork"] \in WellFormed /\ [top EXCEPT !.step = "end"] \in WellFormed
    BY <1>1, StepTyped DEF InCall
  <2>2. stack' \in Seq(WellFormed)
    BY <1>1, <1>3, <2>1, SetTyped DEF Apply, Step
  <2>3. hopping' \in BOOLEAN
    BY <1>3, Zenon DEF Apply
  <2>4. pid' \in Pid \cup {0, -1} /\ (Kill(pid) \/ UNCHANGED <<hoppers, fault>>)
    BY <1>3 DEF Apply
  <2> QED
    BY <1>2, <2>2, <2>3, <2>4
<1>4. CASE Fork
  <2>2. ASSUME NEW c \in Pid \cup {-1}
        PROVE  [top EXCEPT !.step = "note", !.child = c] \in WellFormed
    <3> DEFINE f == [top EXCEPT !.step = "note"]
    <3>1. f \in Frame /\ f.step = "note"
      BY <1>1 DEF WellFormed, Frame
    <3> HIDE DEF f
    <3>2. [f EXCEPT !.child = c] \in Frame /\ [f EXCEPT !.child = c].step = "note"
      BY <3>1 DEF Frame
    <3> QED
      BY <3>2 DEF f, WellFormed, InCall
  <2>3. stack' \in Seq(WellFormed)
    BY <1>1, <1>4, <2>2, SetTyped DEF Fork
  <2>4. PICK c \in Pid \cup {-1} : hoppers' = hoppers \cup ({c} \ {-1})
    BY <1>4 DEF Fork
  <2> QED
    BY <1>4, <2>3, <2>4 DEF Fork
<1>5. CASE Note
  <2>1. [top EXCEPT !.step = "end", !.child = -1] \in WellFormed
    <3> DEFINE f == [top EXCEPT !.step = "end"]
    <3>1. f \in Frame /\ f.step = "end"
      BY <1>1 DEF WellFormed, Frame
    <3> HIDE DEF f
    <3>2. [f EXCEPT !.child = -1] \in Frame /\ [f EXCEPT !.child = -1].step = "end"
      BY <3>1 DEF Frame
    <3> QED
      BY <3>2 DEF f, WellFormed, InCall
  <2>2. stack' \in Seq(WellFormed) /\ top.child \in Pid \cup {-1}
    BY <1>1, <1>5, <2>1, SetTyped, FrameFields DEF Note
  <2> QED
    BY <1>5, <2>2 DEF Note
<1>6. CASE Unread
  <2>1. [top EXCEPT !.step = "end"] \in WellFormed
    BY <1>1, StepTyped DEF InCall
  <2> QED
    BY <1>1, <1>6, <2>1, SetTyped DEF Unread, Step
<1>7. CASE Overrun
  BY <1>7 DEF Overrun
<1> QED
  BY <1>3, <1>4, <1>5, <1>6, <1>7

\* What the signal for the page makes of the daemon.
LEMMA TypePage ==
  ASSUME TypeInv, Page \/ Nothing
  PROVE  /\ UNCHANGED <<hosts, hopping, pid, hoppers>> /\ stack' \in Seq(WellFormed)
         /\ life' \in {"off", "exec", "blank", "config", "loop", "final"}
         /\ fault' \in {NULL, "memory", "info", "killall"} /\ stale' \in BOOLEAN
<1> USE DEF TypeInv, TypeOK, hopper
<1>1. UNCHANGED <<hosts, hopping, pid, hoppers>>
  BY DEF Page, Struck, Nothing
<1>2. stack' \in Seq(WellFormed)
  <2>1. ASSUME NEW todo \in WlCalls
        PROVE  Append(stack, Begin("page", todo, "same")) \in Seq(WellFormed)
    BY <2>1, WlCallsTyped, BeginTyped
  <2> QED
    BY <2>1 DEF Page, Struck, Nothing
<1>3. /\ life' \in {"off", "exec", "blank", "config", "loop", "final"}
      /\ fault' \in {NULL, "memory", "info", "killall"}
  BY DEF Page, Struck, Nothing
<1>4. stale' = stale \/ stale' = FALSE
  BY DEF Page, Struck, Nothing
<1>5. stale' \in BOOLEAN
  BY <1>4, Zenon
<1> QED
  BY <1>1, <1>2, <1>3, <1>5

LEMMA TypeSignals ==
  ASSUME TypeInv, Ask \/ Again \/ Reload, UNCHANGED env PROVE TypeInv'
<1> USE DEF TypeInv, TypeOK, hopper
<1>a. stack' \in Seq(WellFormed) => stack' \in Seq(Frame)
  BY SeqMonotonic DEF WellFormed
<1>1. CASE Ask \/ Again
  <2>1. asks' \in Nat /\ again' \in Nat
    BY <1>1 DEF Ask, Again
  <2>2. CASE Page \/ Nothing
    BY <1>a, <2>1, <2>2, TypePage
  <2>3. CASE life' = "exec" /\ UNCHANGED <<hosts, stack, stale, hopping, pid, hoppers, fault>>
    BY <2>1, <2>3
  <2> QED
    BY <1>1, <2>2, <2>3 DEF Ask, Again
<1>2. CASE Reload
  <2>1. stack' \in Seq(WellFormed)
    <3>1. ASSUME NEW frame \in Configs PROVE Append(stack, frame) \in Seq(WellFormed)
      BY ConfigsTyped
    <3> QED
      BY <1>2, <3>1 DEF Reload, Struck
  <2>2. UNCHANGED <<asks, again, hosts, stale, hopping, pid, hoppers>>
    BY <1>2 DEF Reload, Struck
  <2>3. /\ life' \in {"off", "exec", "blank", "config", "loop", "final"}
        /\ fault' \in {NULL, "memory", "info", "killall"}
    BY <1>2 DEF Reload, Struck
  <2>4. stack' \in Seq(Frame)
    BY <2>1, SeqMonotonic DEF WellFormed
  <2> QED
    BY <2>1, <2>2, <2>3, <2>4
<1> QED
  BY <1>1, <1>2

LEMMA ExitTyped ==
  ASSUME TypeInv, Exit
  PROVE  /\ hosts' \in [Slot -> Host] /\ stack' \in Seq(WellFormed) /\ life' = "off"
         /\ hopping' \in BOOLEAN /\ pid' \in Pid \cup {0, -1} /\ hoppers' \subseteq Pid
<1>1. NoHost \in Host
  BY DEF NoHost, Host, Type
<1>2. <<>> \in Seq(WellFormed)
  OBVIOUS
<1> QED
  BY <1>1, <1>2 DEF Exit, TypeInv, TypeOK

LEMMA FinalTyped ==
  ASSUME Final PROVE life' = "final" /\ stack' \in Seq(WellFormed)
<1>1. \A todo \in WlCalls : Begin("page", todo, "same") \in WellFormed
  BY WlCallsTyped, BeginTyped
<1>2. [Begin("page", <<>>, "same") EXCEPT !.step = "end"] \in WellFormed
  <2>1. <<>> \in Seq(Call)
    OBVIOUS
  <2>2. Begin("page", <<>>, "same") \in WellFormed
    BY <2>1, BeginTyped
  <2> QED
    BY <2>2, StepTyped DEF InCall
<1>3. ASSUME NEW f \in WellFormed PROVE <<f>> \in Seq(WellFormed)
  OBVIOUS
<1> QED
  BY <1>1, <1>2, <1>3 DEF Final

LEMMA TypeStart ==
  ASSUME TypeInv, Start
  PROVE  /\ stack' \in Seq(WellFormed) /\ stale' \in BOOLEAN
         /\ life' \in {"off", "exec", "blank", "config", "loop", "final"}
<1>1. \A frame \in Configs : <<frame>> \in Seq(WellFormed)
  BY ConfigsTyped
<1>2. stack' \in Seq(WellFormed)
  BY <1>1 DEF Start, TypeInv
<1>3. stale' \in BOOLEAN
  BY Zenon DEF Start, TypeInv, TypeOK
<1> QED
  BY <1>2, <1>3 DEF Start

\* What main does besides.
LEMMA TypeMain ==
  ASSUME TypeInv, fault = NULL, Packet \/ Called \/ Ended \/ Leave
  PROVE  /\ hosts' \in [Slot -> Host] /\ stack' \in Seq(WellFormed)
         /\ life' \in {"off", "exec", "blank", "config", "loop", "final"}
         /\ hopping' \in BOOLEAN /\ pid' \in Pid \cup {0, -1} /\ hoppers' \subseteq Pid
         /\ fault' \in {NULL, "memory", "info", "killall"}
<1> USE DEF TypeInv, TypeOK, hopper
<1>2. CASE Packet
  <2>1. \A todo \in Frames : Begin("packet", todo, "same") \in WellFormed
    BY FramesTyped, BeginTyped
  <2>2. stack # <<>>
    BY <1>2 DEF Packet, Quiet
  <2>3. stack' \in Seq(WellFormed)
    BY <1>2, <2>1, <2>2, SetTyped, FinalTyped DEF Packet
  <2>4. life' = life \/ life' = "final"
    BY <1>2 DEF Packet, Final
  <2> QED
    BY <1>2, <2>3, <2>4 DEF Packet
<1>3. CASE Called
  <2>1. stack # <<>> /\ top \in WellFormed
    BY <1>3, TopProperties DEF Called, At
  <2>2. [top EXCEPT !.step = "print"] \in WellFormed /\ [top EXCEPT !.step = "apply"] \in WellFormed
    BY <2>1, StepTyped DEF InCall
  <2>3. CASE (Step("print") \/ Step("apply")) /\ UNCHANGED <<hosts, life, hopping, pid, hoppers>>
    BY <1>3, <2>1, <2>2, <2>3, SetTyped DEF Called, Step
  <2>4. CASE Final /\ UNCHANGED <<hosts, hopping, pid, hoppers>>
    BY <1>3, <2>1, <2>4, FinalTyped DEF Called
  <2>5. CASE Set(Wait) /\ (UNCHANGED life \/ life' = "loop")
             /\ UNCHANGED <<hosts, hopping, pid, hoppers>>
    BY <1>3, <2>1, <2>5, SetTyped, WaitTyped DEF Called
  <2>6. CASE Exit
    BY <1>3, <2>6, ExitTyped DEF Called
  <2> QED
    BY <1>3, <2>3, <2>4, <2>5, <2>6 DEF Called
<1>4. CASE Ended
  <2>1. stack # <<>> /\ top \in WellFormed
    BY <1>4, TopProperties DEF Ended, At
  <2>2. CASE Len(stack) > 1 /\ stack' = Pop(stack) /\ UNCHANGED <<hosts, life, hopping, pid, hoppers, fault>>
    BY <2>2, PopProperties
  <2>3. CASE /\ \E todo \in WlCalls : Set(Begin("start", todo, "same"))
             /\ UNCHANGED <<hosts, life, hopping, pid, hoppers, fault>>
    <3>1. \A todo \in WlCalls : Begin("start", todo, "same") \in WellFormed
      BY WlCallsTyped, BeginTyped
    <3> QED
      BY <2>1, <2>3, <3>1, SetTyped
  <2>4. CASE Kill(pid) /\ Step("exit") /\ UNCHANGED <<hosts, life, hopping, pid>>
    <3>1. [top EXCEPT !.step = "exit"] \in WellFormed
      BY <2>1, StepTyped DEF InCall
    <3> QED
      BY <2>1, <2>4, <3>1, SetTyped DEF Step, Kill, Killed
  <2> QED
    BY <1>4, <2>2, <2>3, <2>4 DEF Ended
<1>5. CASE Leave
  BY <1>5, ExitTyped DEF Leave
<1> QED
  BY <1>2, <1>3, <1>4, <1>5

LEMMA TypeStep == TypeInv /\ [Next]_vars => TypeInv'
<1> SUFFICES ASSUME TypeInv, [Next]_vars PROVE TypeInv'
  OBVIOUS
<1>1. stack' \in Seq(WellFormed) => stack' \in Seq(Frame)
  BY SeqMonotonic DEF WellFormed
<1> USE DEF TypeInv, TypeOK, hopper
<1>2. ASSUME Runs(Start \/ Packet \/ Main \/ Tick \/ \E i \in Slot : Age(i)) PROVE TypeInv'
  <2>a. fault = NULL /\ UNCHANGED <<env, asks, again>>
    BY <1>2 DEF Runs
  <2>1. CASE Start
    BY <1>1, <2>a, <2>1, TypeStart DEF Start
  <2>2. CASE Packet
    BY <1>1, <2>a, <2>2, TypeMain DEF Packet
  <2>3. CASE Main
    <3>1. UNCHANGED stale
      BY <2>3 DEF Main
    <3>2. CASE (GotHost \/ PrintHost) /\ UNCHANGED <<life, hopping, pid, hoppers>>
      BY <1>1, <2>a, <3>1, <3>2, TypeHosts
    <3>3. CASE (Unread \/ Overrun \/ Apply \/ Fork \/ Note) /\ UNCHANGED <<hosts, life>>
      BY <1>1, <2>a, <3>1, <3>3, TypeHopper
    <3>4. CASE Called \/ Ended \/ Leave
      BY <1>1, <2>a, <3>1, <3>4, TypeMain
    <3> QED
      BY <2>3, <3>2, <3>3, <3>4 DEF Main
  <2>4. CASE Tick
    BY <2>a, <2>4 DEF Tick
  <2>5. ASSUME NEW i \in Slot, Age(i) PROVE TypeInv'
    <3>1. [hosts[i] EXCEPT !.old = TRUE] \in Host
      BY DEF Host
    <3> QED
      BY <2>a, <2>5, <3>1 DEF Age
  <2> QED
    BY <1>2, <2>1, <2>2, <2>3, <2>4, <2>5 DEF Runs
<1>3. ASSUME fault = NULL, Ask \/ Again \/ Reload, UNCHANGED env PROVE TypeInv'
  BY <1>3, TypeSignals
<1>4. CASE UNCHANGED vars
  BY <1>4 DEF vars
<1> QED
  BY <1>2, <1>3, <1>4 DEF Next

-----------------------------------------------------------------------------
(* The shape of the stack                                                  *)

\* A handler that arrives while main waits is not interrupted itself.
ShapeInv ==
  /\ life \in {"off", "exec", "blank"} => stack = <<>>
  /\ "deferred" \in env => Len(stack) <= 2 /\ (Len(stack) = 2 => stack[1] = Wait)

LEMMA QuietTop ==
  ASSUME Quiet PROVE stack # <<>> /\ Len(stack) = 1 /\ top = Wait /\ Wait.step = "look"
BY DEF Quiet, top, Wait, Begin

LEMMA AppendTop ==
  ASSUME stack \in Seq(WellFormed), NEW f \in WellFormed, stack' = Append(stack, f)
  PROVE  /\ stack' # <<>> /\ Len(stack') = Len(stack) + 1 /\ top' = f
         /\ \A i \in 1 .. Len(stack) : stack'[i] = stack[i]
BY DEF top

\* Under "deferred" a handler begins on top of the frame that waits, and uncovers it again.
LEMMA SignalTop ==
  ASSUME TypeInv, ShapeInv, "deferred" \in env, Ask \/ Again \/ Reload
  PROVE  \/ /\ UNCHANGED <<stack, hosts, fault, hopping, pid, hoppers>>
            /\ life' = life \/ (stack = <<>> /\ hoppers = {})
         \/ /\ Quiet /\ UNCHANGED <<hosts, life, fault, hopping, pid, hoppers>>
            /\ \E f \in WellFormed : stack' = Append(stack, f) /\ f.step = "look"
<1> USE DEF hopper
<1>1. ~Struck
  BY DEF Struck, Holds
<1>2. \A who \in {"page", "config"} : MayInterrupt(who) => Quiet
  BY DEF MayInterrupt, Holds
<1>3. CASE Ask \/ Again
  <2>1. CASE life = "off" /\ hoppers = {} /\ UNCHANGED <<hosts, stack, stale, hopper, fault>>
    BY <2>1 DEF ShapeInv
  <2>2. CASE UNCHANGED <<stack, hosts, life, hopper, fault>>
    BY <2>2
  <2>3. ASSUME Quiet, NEW todo \in WlCalls, stack' = Append(stack, Begin("page", todo, "same")),
               UNCHANGED <<hosts, life, hopper, fault>>
        PROVE  /\ UNCHANGED <<hosts, life, fault, hopping, pid, hoppers>>
               /\ \E f \in WellFormed : stack' = Append(stack, f) /\ f.step = "look"
    <3>1. Begin("page", todo, "same") \in WellFormed
      BY WlCallsTyped, BeginTyped
    <3>2. Begin("page", todo, "same").step = "look"
      BY DEF Begin
    <3> QED
      BY <2>3, <3>1, <3>2
  <2> QED
    BY <1>1, <1>2, <1>3, <2>1, <2>2, <2>3 DEF Ask, Again, Page, Nothing
<1>4. CASE Reload
  <2>1. Quiet /\ UNCHANGED <<hosts, life, fault, hopping, pid, hoppers>>
    BY <1>1, <1>2, <1>4 DEF Reload
  <2>2. PICK f \in Configs : stack' = Append(stack, f)
    BY <1>1, <1>4 DEF Reload
  <2>3. f \in WellFormed /\ f.step = "look"
    BY <2>2, ConfigsTyped DEF Configs, Begin
  <2> QED
    BY <2>1, <2>2, <2>3
<1> QED
  BY <1>3, <1>4

\* What an activity leaves when it ends.
LEMMA EndedTop ==
  ASSUME TypeInv, ShapeInv, "deferred" \in env, Ended
  PROVE  /\ stack # <<>> /\ top.step \in {"print", "end"} /\ UNCHANGED <<hosts, life, hopping, pid>>
         /\ stack' \in Seq(WellFormed) /\ stack' # <<>>
         /\ \/ Len(stack') = 1 /\ top' = Wait /\ UNCHANGED <<fault, hoppers>>
            \/ /\ Len(stack') = 1 /\ top'.step = "look" /\ top'.todo \in WlCalls
               /\ UNCHANGED <<fault, hoppers>>
            \/ /\ Len(stack') = 1 /\ top'.step = "exit" /\ top'.todo = top.todo
               /\ Kill(pid)
<1> USE DEF TypeInv, hopper
<1>1. stack # <<>> /\ top \in WellFormed /\ top.step \in {"print", "end"}
  BY TopProperties DEF Ended, At
<1>2. CASE Len(stack) > 1 /\ stack' = Pop(stack) /\ UNCHANGED <<hosts, life, hopper, fault>>
  <2>0. stack \in Seq(WellFormed) /\ Len(stack) \in Nat \ {0}
    BY <1>1, TopProperties
  <2> HIDE DEF TypeInv
  <2>1. Len(stack) = 2 /\ stack[1] = Wait
    <3>1. Len(stack) <= 2 /\ (Len(stack) = 2 => stack[1] = Wait)
      BY DEF ShapeInv
    <3>2. Len(stack) > 1
      BY <1>2
    <3>3. \A n \in Nat : n > 1 /\ n <= 2 => n = 2
      OBVIOUS
    <3> QED
      BY <2>0, <3>1, <3>2, <3>3
  <2>2. stack' \in Seq(WellFormed) /\ Len(stack') = 1 /\ stack'[1] = Wait
    <3>1. stack' = Pop(stack) /\ Len(stack) > 1 /\ 1 \in 1 .. Len(stack) - 1
      BY <1>2, <2>1
    <3>2. /\ Pop(stack) \in Seq(WellFormed) /\ Len(Pop(stack)) = Len(stack) - 1
          /\ \A i \in 1 .. Len(stack) - 1 : Pop(stack)[i] = stack[i]
      BY <2>0, <3>1, PopProperties
    <3> QED
      BY <2>1, <3>1, <3>2
  <2>3. stack' # <<>>
    BY <2>2, EmptySeq
  <2>4. top' = Wait
    BY <2>2 DEF top
  <2> QED
    BY <1>1, <1>2, <2>2, <2>3, <2>4
<1>3. ASSUME Len(stack) = 1, NEW todo \in WlCalls, Set(Begin("start", todo, "same")),
             UNCHANGED <<hosts, life, hopper, fault>>
      PROVE  /\ stack' \in Seq(WellFormed) /\ stack' # <<>> /\ Len(stack') = 1
             /\ top'.step = "look" /\ top'.todo \in WlCalls
  <2>1. /\ Begin("start", todo, "same") \in WellFormed
        /\ Begin("start", todo, "same").step = "look" /\ Begin("start", todo, "same").todo = todo
    BY WlCallsTyped, BeginTyped DEF Begin
  <2> QED
    BY <1>1, <1>3, <2>1, SetTyped
<1>4. CASE Len(stack) = 1 /\ Kill(pid) /\ Step("exit") /\ UNCHANGED <<hosts, life, hopping, pid>>
  <2>1. [top EXCEPT !.step = "exit"] \in WellFormed
    BY <1>1, StepTyped DEF InCall
  <2>2. [top EXCEPT !.step = "exit"].step = "exit" /\ [top EXCEPT !.step = "exit"].todo = top.todo
    BY <1>1, StepFields
  <2> QED
    BY <1>1, <1>4, <2>1, <2>2, SetTyped DEF Step
<1> QED
  BY <1>1, <1>2, <1>3, <1>4 DEF Ended

\* Every step of Next, by what it does to the stack: nothing, a new activity, the next step
\* of the one on top, or its end.
LEMMA SetShape ==
  ASSUME TypeInv, ShapeInv, stack # <<>>, NEW f \in WellFormed, Set(f),
         life' = life \/ life' \in {"loop", "final"}, env' = env
  PROVE  ShapeInv'
<1>1. life \notin {"off", "exec", "blank"} /\ life' \notin {"off", "exec", "blank"}
  BY DEF ShapeInv
<1>2. /\ stack' # <<>> /\ Len(stack') = Len(stack) /\ Len(stack) \in Nat \ {0}
      /\ \A i \in 1 .. Len(stack) - 1 : stack'[i] = stack[i]
  BY SetTyped, TopProperties DEF TypeInv
<1>3. Len(stack) = 2 => stack'[1] = stack[1]
  BY <1>2
<1> QED
  BY <1>1, <1>2, <1>3 DEF ShapeInv

LEMMA OneFrameShape ==
  ASSUME NEW f, stack' = <<f>>, life' \notin {"off", "exec", "blank"} PROVE ShapeInv'
<1>1. Len(stack') = 1
  OBVIOUS
<1> QED
  BY <1>1 DEF ShapeInv

\* The calls of gotHost, printing, and the work on the channel hopper; all but the overrun.
Works == GotHost \/ PrintHost \/ Unread \/ Apply \/ Fork \/ Note

LEMMA WorksSet ==
  ASSUME TypeInv, Works PROVE stack # <<>> /\ \E f \in WellFormed : Set(f)
<1>1. stack # <<>> /\ stack' \in Seq(WellFormed)
  BY TypeHosts, TypeHopper
     DEF Works, GotHost, Look, Mark, Name, Info, Use, PrintHost, Unread, Apply, Fork, Note, At
<1>2. PICK f : stack' = [stack EXCEPT ![Len(stack)] = f]
  BY DEF Works, GotHost, Look, Mark, Name, Info, Use, PrintHost, Unread, Apply, Fork, Note,
         Step, Set
<1>3. Len(stack) \in 1 .. Len(stack) /\ DOMAIN stack = 1 .. Len(stack)
  BY <1>1, EmptySeq, LenProperties DEF TypeInv
<1>4. DOMAIN stack' = DOMAIN stack /\ stack'[Len(stack)] = f
  BY <1>2, <1>3
<1>5. stack'[Len(stack)] \in WellFormed
  <2>1. DOMAIN stack' = 1 .. Len(stack') /\ \A n \in 1 .. Len(stack') : stack'[n] \in WellFormed
    BY <1>1, LenProperties, ElementOfSeq
  <2> QED
    BY <1>3, <1>4, <2>1
<1> QED
  BY <1>1, <1>2, <1>4, <1>5 DEF Set

LEMMA ShapeStep == TypeInv /\ ShapeInv /\ [Next]_vars => ShapeInv'
<1> SUFFICES ASSUME TypeInv, ShapeInv, [Next]_vars PROVE ShapeInv'
  OBVIOUS
<1> USE DEF hopper
<1>1. CASE UNCHANGED vars
  BY <1>1 DEF vars, ShapeInv
<1>2. ASSUME Ask \/ Again \/ Reload, UNCHANGED env PROVE ShapeInv'
  <2>1. life' \in {"off", "exec", "blank"} => stack' = <<>>
    BY <1>2 DEF Ask, Again, Page, Nothing, Reload, Struck, MayInterrupt, ShapeInv
  <2>2. ASSUME "deferred" \in env
        PROVE  Len(stack') <= 2 /\ (Len(stack') = 2 => stack'[1] = Wait)
    <3>1. CASE UNCHANGED stack
      BY <2>2, <3>1 DEF ShapeInv
    <3>2. ASSUME Quiet, NEW f \in WellFormed, stack' = Append(stack, f)
          PROVE  Len(stack') = 2 /\ stack'[1] = Wait
      <4>1. Len(stack) = 1 /\ stack[1] = Wait
        BY <3>2, QuietTop DEF top
      <4>2. Len(stack') = Len(stack) + 1 /\ \A i \in 1 .. Len(stack) : stack'[i] = stack[i]
        BY <3>2, AppendTop DEF TypeInv
      <4> QED
        BY <4>1, <4>2
    <3> QED
      BY <1>2, <2>2, <3>1, <3>2, SignalTop
  <2> QED
    BY <1>2, <2>1, <2>2 DEF ShapeInv
<1>3. ASSUME UNCHANGED env, Start \/ Packet \/ Called \/ Leave PROVE ShapeInv'
  <2>1. CASE Start
    BY <2>1, OneFrameShape DEF Start, ShapeInv
  <2>2. ASSUME Final PROVE ShapeInv'
    BY <2>2, OneFrameShape DEF Final
  <2>3. ASSUME Exit PROVE ShapeInv'
    BY <2>3 DEF Exit, ShapeInv
  <2>4. CASE Packet
    <3>1. ASSUME NEW todo \in Frames, Set(Begin("packet", todo, "same")), UNCHANGED life
          PROVE  ShapeInv'
      BY <1>3, <2>4, <3>1, FramesTyped, BeginTyped, SetShape, QuietTop DEF Packet
    <3> QED
      BY <2>2, <2>4, <3>1 DEF Packet
  <2>5. CASE Called
    <3>1. stack # <<>> /\ top \in WellFormed
      BY <2>5, TopProperties DEF Called, At, TypeInv
    <3>2. [top EXCEPT !.step = "print"] \in WellFormed /\ [top EXCEPT !.step = "apply"] \in WellFormed
      BY <3>1, StepTyped DEF InCall
    <3>3. ASSUME NEW f \in WellFormed, Set(f), life' = life \/ life' = "loop" PROVE ShapeInv'
      BY <1>3, <3>1, <3>3, SetShape
    <3> QED
      BY <2>2, <2>3, <2>5, <3>2, <3>3, WaitTyped DEF Called, Step
  <2> QED
    BY <1>3, <2>1, <2>3, <2>4, <2>5 DEF Leave
<1>4. ASSUME Works, UNCHANGED <<env, life>> PROVE ShapeInv'
  BY <1>4, WorksSet, SetShape
<1>5. ASSUME Ended, UNCHANGED env PROVE ShapeInv'
  <2>1. life \notin {"off", "exec", "blank"} /\ UNCHANGED life
    BY <1>5 DEF Ended, At, ShapeInv
  <2>2. "deferred" \in env => Len(stack') = 1
    BY <1>5, EndedTop
  <2> QED
    BY <1>5, <2>1, <2>2 DEF ShapeInv
<1>6. ASSUME \/ Tick \/ \E i \in Slot : Age(i)
             \/ Overrun /\ UNCHANGED life, UNCHANGED env
      PROVE  ShapeInv'
  BY <1>6 DEF Tick, Age, Overrun, ShapeInv
<1> QED
  BY <1>1, <1>2, <1>3, <1>4, <1>5, <1>6 DEF Next, Runs, Main, Works

-----------------------------------------------------------------------------
(* What is printed or written is there                                     *)

\* Only a slot that is just being filled may lack what its type needs; that type is the one
\* that is asked for until the caller has used the slot.
Between == stack = <<>> \/ top.step \notin {"name", "info", "use"}
Filled ==
  /\ \A i \in Slot : \/ stack # <<>> /\ top.step \in {"name", "info"} /\ top.slot = i
                     \/ ~Missing(hosts[i])
  /\ Between \/ hosts[top.slot].type = call.type
InfoInv == "deferred" \in env => Filled /\ fault # "info"

LEMMA InfoInit == Init => InfoInv
BY NullAssumption DEF Init, InfoInv, Filled, Between, NoHost, Missing

\* Steps outside of gotHost fill no slot, and find each slot filled.
LEMMA BetweenFilled ==
  ASSUME InfoInv, UNCHANGED env,
         "deferred" \in env => Between /\ Between' /\ \A i \in Slot : Missing(hosts[i])' => Missing(hosts[i]),
         fault' = "info" => \E i \in Slot : Missing(hosts[i])
  PROVE  InfoInv'
BY DEF InfoInv, Filled, Between

LEMMA InfoGotHost ==
  ASSUME TypeInv, InfoInv, "deferred" \in env, GotHost, UNCHANGED env PROVE InfoInv'
<1> USE DEF TypeInv, TypeOK
<1>0. Filled /\ fault # "info"
  BY DEF InfoInv
<1>1. stack # <<>> /\ top \in WellFormed
  BY TopProperties DEF GotHost, Look, Mark, Name, Info, Use, At
<1>2. top.step \in InCall => top.slot \in Slot /\ call \in Call
  BY <1>1, FrameFields DEF call
<1>3. \A f : Set(f) => stack' # <<>> /\ top' = f
  <2>1. ASSUME NEW f, Set(f) PROVE stack' # <<>> /\ top' = f
    <3>1. f \in WellFormed /\ stack' # <<>> /\ top' = f
      <4>1. PICK g \in WellFormed : Set(g)
        BY WorksSet DEF Works
      <4>2. stack' # <<>> /\ top' = g
        BY <1>1, <4>1, SetTyped
      <4>3. Len(stack) \in DOMAIN stack
        BY <1>1, EmptySeq, LenProperties
      <4>4. f = stack'[Len(stack)] /\ g = stack'[Len(stack)]
        BY <2>1, <4>1, <4>3 DEF Set
      <4> QED
        BY <4>2, <4>4
    <3> QED
      BY <3>1
  <2> QED
    BY <2>1
<1>4. CASE Look
  <2> DEFINE f == [top EXCEPT !.step = "mark", !.slot = Found(call.mac)]
  <2>1. f.step = "mark"
    BY <1>1, SlotFields
  <2>2. stack' # <<>> /\ top' = f
    BY <1>3, <1>4 DEF Look
  <2>3. Between /\ Between' /\ UNCHANGED <<hosts, fault>>
    BY <1>4, <2>1, <2>2 DEF Between, Look, At
  <2> QED
    BY <1>0, <2>3, BetweenFilled DEF Missing
<1>5. CASE Mark
  <2>1. stack' # <<>> /\ top' = [top EXCEPT !.step = "name"]
    BY <1>3, <1>5 DEF Mark, Step
  <2>2. top'.step = "name" /\ top'.slot = top.slot /\ top'.todo = top.todo
    BY <1>1, <2>1, StepFields
  <2>3. call' = call
    BY <2>2 DEF call
  <2>4. top.step = "mark" /\ top.slot \in Slot /\ call.type \in Type
    BY <1>2, <1>5 DEF Mark, At, InCall, Call, Type
  <2> DEFINE g == [hosts[top.slot] EXCEPT !.occupied = TRUE, !.old = FALSE, !.type = call.type]
  <2>5. hosts' = [hosts EXCEPT ![top.slot] = g]
    BY <1>5 DEF Mark
  <2> HIDE DEF g
  <2>6. g.type = call.type
    <3>1. hosts[top.slot] \in Host
      BY <2>4
    <3>2. g = [hosts[top.slot] EXCEPT !.occupied = TRUE, !.old = FALSE, !.type = call.type]
      BY DEF g
    <3>3. call.type \in Type
      BY <2>4
    <3>4. g.type = call.type
      BY ONLY <3>1, <3>2, <3>3, HostMarked
    <3> QED
      BY <3>4
  <2>7. hosts'[top.slot].type = call.type /\ \A i \in Slot \ {top.slot} : hosts'[i] = hosts[i]
    BY <2>4, <2>5, <2>6
  <2>8. \A i \in Slot \ {top.slot} : ~Missing(hosts[i])
    BY <1>0, <2>4 DEF Filled
  <2>9. Filled'
    BY <2>1, <2>2, <2>3, <2>4, <2>7, <2>8 DEF Filled, Missing
  <2> QED
    BY <1>0, <1>5, <2>9 DEF InfoInv, Mark
<1>6. CASE Name
  <2>1. stack' # <<>> /\ top' = [top EXCEPT !.step = "info"]
    BY <1>3, <1>6 DEF Name, Step
  <2>2. top'.step = "info" /\ top'.slot = top.slot /\ top'.todo = top.todo
    BY <1>1, <2>1, StepFields
  <2>3. call' = call
    BY <2>2 DEF call
  <2>4. top.step = "name" /\ top.slot \in Slot
    BY <1>2, <1>6 DEF Name, At, InCall
  <2>5. hosts'[top.slot].type = hosts[top.slot].type
        /\ \A i \in Slot \ {top.slot} : hosts'[i] = hosts[i]
    BY <1>6, <2>4 DEF Name, Host
  <2>6. hosts[top.slot].type = call.type /\ \A i \in Slot \ {top.slot} : ~Missing(hosts[i])
    BY <1>0, <1>1, <2>4 DEF Filled, Between
  <2>7. Filled'
    BY <2>1, <2>2, <2>3, <2>4, <2>5, <2>6 DEF Filled, Missing
  <2> QED
    BY <1>0, <1>6, <2>7 DEF InfoInv, Name
<1>7. CASE Info
  <2>1. stack' # <<>> /\ top' = [top EXCEPT !.step = "use"]
    BY <1>3, <1>7 DEF Info, Step
  <2>2. top'.step = "use" /\ top'.slot = top.slot /\ top'.todo = top.todo
    BY <1>1, <2>1, StepFields
  <2>3. call' = call
    BY <2>2 DEF call
  <2>4. top.step = "info" /\ top.slot \in Slot /\ call.type \in {"AP", "Sta"}
    BY <1>2, <1>7 DEF Info, At, InCall, Call
  <2>5. hosts[top.slot].type = call.type /\ \A i \in Slot \ {top.slot} : ~Missing(hosts[i])
    BY <1>0, <1>1, <2>4 DEF Filled, Between
  <2>6. hosts'[top.slot] = Informed(hosts[top.slot])
        /\ \A i \in Slot \ {top.slot} : hosts'[i] = hosts[i]
    BY <1>7, <2>4 DEF Info
  <2>7. hosts'[top.slot].type = call.type /\ ~Missing(hosts'[top.slot])
    BY <2>4, <2>5, <2>6, HostInformed
  <2>8. Filled'
    BY <2>1, <2>2, <2>3, <2>4, <2>5, <2>6, <2>7 DEF Filled, Missing
  <2> QED
    BY <1>0, <1>7, <2>8 DEF InfoInv, Info
<1>8. CASE Use
  <2> DEFINE f == [top EXCEPT !.step = "look", !.todo = Tail(top.todo), !.slot = 0]
  <2>1. f.step = "look"
    BY <1>1, LookFields
  <2>2. stack' # <<>> /\ top' = f
    BY <1>3, <1>8 DEF Use
  <2>3. Between' /\ stack' # <<>>
    BY <2>1, <2>2 DEF Between
  <2>4. /\ top.step = "use" /\ top.slot \in Slot
        /\ call.type \in {"AP", "Sta"} /\ (call.hub => call.type = "AP")
    BY <1>2, <1>8 DEF Use, At, InCall, Call
  <2>5. hosts[top.slot].type = call.type /\ \A i \in Slot : ~Missing(hosts[i])
    BY <1>0, <1>1, <2>4 DEF Filled, Between
  <2>6. fault' = fault
    BY <1>8, <2>4, <2>5 DEF Use, Missing
  <2>7. ASSUME NEW i \in Slot PROVE ~Missing(hosts'[i])
    <3>1. CASE ~call.hub \/ i # top.slot
      <4>1. hosts'[i] = hosts[i]
        BY <1>8, <2>4, <3>1 DEF Use
      <4> QED
        BY <2>5, <4>1 DEF Missing
    <3>2. CASE call.hub /\ i = top.slot
      <4>1. hosts'[i] = [hosts[i] EXCEPT !.type = "AdhocHub"]
        BY <1>8, <2>4, <3>2 DEF Use
      <4>2. hosts'[i].type = "AdhocHub" /\ hosts'[i].apInfo = hosts[i].apInfo
        BY <4>1 DEF Host
      <4> QED
        BY <2>4, <2>5, <3>2, <4>2 DEF Missing
    <3> QED
      BY <3>1, <3>2
  <2> QED
    BY <1>0, <2>3, <2>6, <2>7 DEF InfoInv, Filled, Missing, Between
<1> QED
  BY <1>4, <1>5, <1>6, <1>7, <1>8 DEF GotHost


LEMMA SetBetween ==
  ASSUME TypeInv, stack # <<>>, NEW f \in WellFormed, Set(f), f.step \notin {"name", "info", "use"}
  PROVE  Between'
BY SetTyped DEF TypeInv, Between

LEMMA FinalBetween == ASSUME Final PROVE Between' /\ top'.step \in {"look", "end"} /\ stack' # <<>>
<1>1. PICK f : stack' = <<f>> /\ f.step \in {"look", "end"}
  <2>1. \A todo : Begin("page", todo, "same").step = "look"
    BY DEF Begin
  <2>2. [Begin("page", <<>>, "same") EXCEPT !.step = "end"].step = "end"
    BY DEF Begin
  <2> QED
    BY <2>1, <2>2 DEF Final
<1>2. stack' # <<>> /\ top' = f
  BY <1>1 DEF top
<1> QED
  BY <1>1, <1>2 DEF Between

\* The rest of the steps find the stack between two calls, and leave it so.
LEMMA InfoMain ==
  ASSUME TypeInv, ShapeInv, InfoInv, "deferred" \in env, fault = NULL, UNCHANGED env,
         \/ PrintHost \/ Start \/ Packet \/ Called \/ Leave
         \/ (Unread \/ Apply \/ Fork \/ Note) /\ UNCHANGED hosts
  PROVE  InfoInv'
<1> USE DEF hopper
<1>0. stack \in Seq(WellFormed) /\ hosts \in [Slot -> Host] /\ fault # "info" /\ fault # "killall"
  BY NullAssumption DEF TypeInv, TypeOK
<1>1. CASE PrintHost
  <2>1. stack # <<>> /\ top \in WellFormed /\ top.step = "print" /\ top.slot \in Slot
    BY <1>0, <1>1, TopProperties DEF PrintHost, At
  <2>2. [top EXCEPT !.slot = top.slot + 1].step = "print"
    BY <2>1 DEF WellFormed, Frame
  <2>3. stack' \in Seq(WellFormed)
    BY <1>1, TypeHosts
  <2>4. Between'
    <3>1. Set([top EXCEPT !.slot = top.slot + 1])
      BY <1>1 DEF PrintHost
    <3>2. PICK f \in WellFormed : Set(f)
      BY <1>1, WorksSet DEF Works
    <3>3. Len(stack) \in DOMAIN stack
      BY <1>0, <2>1, EmptySeq, LenProperties
    <3>4. f = [top EXCEPT !.slot = top.slot + 1]
      BY <3>1, <3>2, <3>3 DEF Set
    <3> QED
      BY <2>1, <2>2, <3>2, <3>4, SetBetween
  <2>5. \A i \in Slot : Missing(hosts[i])' => Missing(hosts[i])
    <3> SUFFICES ASSUME NEW i \in Slot PROVE Missing(hosts'[i]) => Missing(hosts[i])
      BY DEF Missing
    <3>1. CASE hosts'[i] = hosts[i]
      BY <3>1 DEF Missing
    <3>2. CASE hosts'[i] = [hosts[i] EXCEPT !.occupied = FALSE, !.old = FALSE]
      BY <1>0, <3>2, HostForgotten
    <3> QED
      BY <1>0, <1>1, <2>1, <3>1, <3>2 DEF PrintHost
  <2>6. fault' = "info" => \E i \in Slot : Missing(hosts[i])
    BY <1>0, <1>1, <2>1 DEF PrintHost
  <2> QED
    BY <2>1, <2>4, <2>5, <2>6, BetweenFilled DEF Between
<1>2. CASE (Unread \/ Apply \/ Fork \/ Note) /\ UNCHANGED hosts
  <2>1. stack # <<>> /\ top \in WellFormed /\ top.step \in {"apply", "fork", "note"}
    BY <1>0, <1>2, TopProperties DEF Unread, Apply, Fork, Note, At
  <2>2. \/ \E p \in {"fork", "end", "note"} : Set([top EXCEPT !.step = p])
        \/ \E c : Set([top EXCEPT !.step = "note", !.child = c])
        \/ \E c : Set([top EXCEPT !.step = "end", !.child = c])
    BY <1>2, Zenon DEF Unread, Apply, Fork, Note, Step
  <2>3. PICK f : Set(f) /\ f.step \in {"fork", "end", "note"}
    <3>1. \A p : [top EXCEPT !.step = p].step = p
      BY <2>1, StepFields
    <3>2. \A c : /\ [top EXCEPT !.step = "note", !.child = c].step = "note"
                 /\ [top EXCEPT !.step = "end", !.child = c].step = "end"
      BY <2>1, ChildFields
    <3> QED
      BY <2>2, <3>1, <3>2
  <2>4. Between'
    <3>1. PICK g \in WellFormed : Set(g)
      BY <1>2, WorksSet DEF Works
    <3>2. Len(stack) \in DOMAIN stack
      BY <1>0, <2>1, EmptySeq, LenProperties
    <3>3. f = g
      BY <2>3, <3>1, <3>2 DEF Set
    <3> QED
      BY <2>1, <2>3, <3>1, <3>3, SetBetween
  <2>5. fault' # "info"
    BY <1>0, <1>2 DEF Unread, Apply, Fork, Note, Kill
  <2> QED
    BY <1>2, <2>1, <2>4, <2>5, BetweenFilled DEF Between, Missing
<1>3. CASE Start
  <2>1. Between
    BY <1>3 DEF Start, ShapeInv, Between
  <2>2. Between'
    <3>1. CASE stack' = stack
      BY <1>3, <3>1 DEF Start, ShapeInv, Between
    <3>2. ASSUME NEW f \in Configs, stack' = <<f>> PROVE Between'
      <4>1. f.step = "look"
        BY <3>2 DEF Configs, Begin
      <4>2. top' = f
        BY <3>2 DEF top
      <4> QED
        BY <4>1, <4>2 DEF Between
    <3> QED
      BY <1>3, <3>1, <3>2 DEF Start
  <2> QED
    BY <1>0, <1>3, <2>1, <2>2, BetweenFilled DEF Start, Missing
<1>4. CASE Packet
  <2>1. Between /\ stack # <<>>
    BY <1>4, QuietTop DEF Packet, Between
  <2>2. Between'
    <3>1. ASSUME NEW todo \in Frames, Set(Begin("packet", todo, "same")) PROVE Between'
      <4>1. Begin("packet", todo, "same") \in WellFormed /\ Begin("packet", todo, "same").step = "look"
        BY FramesTyped, BeginTyped DEF Begin
      <4> QED
        BY <2>1, <3>1, <4>1, SetBetween
    <3> QED
      BY <1>4, <3>1, FinalBetween DEF Packet
  <2> QED
    BY <1>0, <1>4, <2>1, <2>2, BetweenFilled DEF Packet, Missing
<1>5. ASSUME Exit, Between, fault' = "info" => \E i \in Slot : Missing(hosts[i]) PROVE InfoInv'
  <2>1. Between'
    BY <1>5 DEF Exit, Between
  <2>2. \A i \in Slot : ~Missing(hosts[i])'
    BY <1>5 DEF Exit, NoHost, Missing
  <2> QED
    BY <1>5, <2>1, <2>2, BetweenFilled
<1>6. CASE Called
  <2>1. stack # <<>> /\ top \in WellFormed /\ top.step = "look" /\ fault' = fault
    BY <1>0, <1>6, TopProperties DEF Called, At
  <2>2. CASE Exit
    BY <1>0, <1>5, <2>1, <2>2 DEF Between
  <2>3. CASE UNCHANGED hosts /\ Between'
    BY <1>0, <2>1, <2>3, BetweenFilled DEF Between, Missing
  <2>4. ASSUME NEW p \in {"print", "apply"}, Step(p) PROVE Between'
    <3>1. [top EXCEPT !.step = p] \in WellFormed /\ [top EXCEPT !.step = p].step = p
      BY <2>1, StepTyped, StepFields DEF InCall
    <3> QED
      BY <2>1, <2>4, <3>1, SetBetween DEF Step
  <2>5. Set(Wait) => Between'
    BY <2>1, WaitTyped, SetBetween DEF Wait, Begin
  <2> QED
    BY <1>6, <2>2, <2>3, <2>4, <2>5, FinalBetween DEF Called
<1>7. CASE Leave
  <2>1. Between
    BY <1>7 DEF Leave, At, Between
  <2>2. fault' = "info" => \E i \in Slot : Missing(hosts[i])
    BY <1>0, <1>7 DEF Leave
  <2> QED
    BY <1>5, <1>7, <2>1, <2>2 DEF Leave
<1> QED
  BY <1>1, <1>2, <1>3, <1>4, <1>6, <1>7

LEMMA InfoStep == TypeInv /\ ShapeInv /\ InfoInv /\ [Next]_vars => InfoInv'
<1> SUFFICES ASSUME TypeInv, ShapeInv, InfoInv, [Next]_vars, "deferred" \in env PROVE InfoInv'
  BY DEF InfoInv, Next, Runs, vars
<1> USE DEF hopper
<1>0. fault = NULL => fault # "info"
  BY NullAssumption
<1>1. CASE UNCHANGED vars
  BY <1>1 DEF vars, InfoInv, Filled, Between, Missing, top, call
<1>2. ASSUME fault = NULL, Ask \/ Again \/ Reload, UNCHANGED env PROVE InfoInv'
  <2>1. CASE UNCHANGED <<stack, hosts, fault>>
    BY <1>2, <2>1 DEF InfoInv, Filled, Between, Missing, top, call
  <2>2. ASSUME Quiet, UNCHANGED <<hosts, fault>>,
               NEW f \in WellFormed, stack' = Append(stack, f), f.step = "look"
        PROVE  InfoInv'
    <3>1. Between
      BY <2>2, QuietTop DEF Between
    <3>2. Between'
      BY <2>2, AppendTop DEF Between, TypeInv
    <3> QED
      BY <1>0, <1>2, <2>2, <3>1, <3>2, BetweenFilled DEF Missing
  <2> QED
    BY <1>2, <2>1, <2>2, SignalTop
<1>3. ASSUME fault = NULL, Ended, UNCHANGED env PROVE InfoInv'
  <2>1. Between /\ UNCHANGED hosts
    BY <1>3, EndedTop DEF Between
  <2>2. Between'
    BY <1>3, EndedTop DEF Between, Wait, Begin
  <2>3. fault' # "info"
    BY <1>0, <1>3, EndedTop DEF Kill
  <2> QED
    BY <1>3, <2>1, <2>2, <2>3, BetweenFilled DEF Missing
<1>4. ASSUME fault = NULL, Tick, UNCHANGED env PROVE InfoInv'
  BY <1>4 DEF Tick, InfoInv, Filled, Between, Missing, top, call
<1>5. ASSUME fault = NULL, NEW i \in Slot, Age(i), UNCHANGED env PROVE InfoInv'
  <2>1. \A j \in Slot : Missing(hosts[j])' <=> Missing(hosts[j])
    BY <1>5 DEF Age, Missing, TypeInv, TypeOK, Host
  <2>2. Between /\ Between'
    BY <1>5, QuietTop DEF Age, Between, top
  <2> QED
    BY <1>0, <1>5, <2>1, <2>2, BetweenFilled DEF Age
<1>6. ASSUME fault = NULL, GotHost, UNCHANGED env PROVE InfoInv'
  BY <1>6, InfoGotHost
<1>7. ASSUME fault = NULL, UNCHANGED env,
             \/ PrintHost \/ Start \/ Packet \/ Called \/ Leave
             \/ (Unread \/ Apply \/ Fork \/ Note) /\ UNCHANGED hosts
      PROVE  InfoInv'
  BY <1>7, InfoMain
<1>9. ASSUME Overrun, UNCHANGED <<env, hosts>> PROVE InfoInv'
  BY <1>9 DEF Overrun, InfoInv, Filled, Between, Missing, top, call
<1>8. CASE Runs(Start \/ Packet \/ Main \/ Tick \/ \E i \in Slot : Age(i))
  <2>1. fault = NULL /\ UNCHANGED env
    BY <1>8 DEF Runs
  <2>2. CASE Main
    <3>1. CASE GotHost
      BY <1>6, <2>1, <3>1
    <3>4. CASE PrintHost
      BY <1>7, <2>1, <3>4
    <3>2. CASE (Unread \/ Overrun \/ Apply \/ Fork \/ Note) /\ UNCHANGED <<hosts, life>>
      BY <1>7, <1>9, <2>1, <3>2
    <3>3. CASE Called \/ Ended \/ Leave
      BY <1>3, <1>7, <2>1, <3>3
    <3> QED
      BY <2>2, <3>1, <3>2, <3>3, <3>4 DEF Main
  <2> QED
    BY <1>4, <1>5, <1>7, <1>8, <2>1, <2>2 DEF Runs
<1> QED
  BY <1>1, <1>2, <1>8 DEF Next

-----------------------------------------------------------------------------
(* The channel hopper                                                      *)

Calm == {"deferred", "short"} \subseteq env
Settled == stack # <<>> /\ top.step \notin {"fork", "note", "exit"}
\* Without a daemon there is no hopper but one that a daemon has left which could not open
\* the capture device; no other daemon is started beside that one.
Absent == /\ pid = 0 /\ ~hopping
          /\ "opens" \in env \/ life # "off" => hoppers = {}
          /\ hoppers = {} \/ \E p : hoppers = {p}
HopperInv ==
  Calm =>
    /\ stack = <<>> => Absent
    /\ Settled => hoppers = {pid} \ {0, -1} /\ (hopping <=> pid # 0)
    /\ stack # <<>> /\ top.step \in {"fork", "exit"} => hoppers = {}
    /\ stack # <<>> /\ top.step \in {"fork", "note"} => hopping
    /\ stack # <<>> /\ top.step = "note" => hoppers = {top.child} \ {-1}

LEMMA HopperInit == Init => HopperInv
BY DEF Init, HopperInv, Settled, Absent

\* Steps that do not touch the hopper, with the stack between its changes.
LEMMA HopperKept ==
  ASSUME HopperInv, Calm => Settled /\ Settled', UNCHANGED <<env, hopping, pid, hoppers>>
  PROVE  HopperInv'
BY DEF HopperInv, Settled, Calm

LEMMA SetSettled ==
  ASSUME TypeInv, stack # <<>>, NEW f \in WellFormed, Set(f), f.step \notin {"fork", "note", "exit"}
  PROVE  Settled' /\ stack' # <<>>
BY SetTyped DEF TypeInv, Settled

\* gotHost and printing leave the hopper alone.
LEMMA HopperHosts ==
  ASSUME TypeInv, HopperInv, GotHost \/ PrintHost, UNCHANGED <<env, hopping, pid, hoppers>>
  PROVE  HopperInv'
<1>1. stack # <<>> /\ top \in WellFormed /\ top.step \in {"look", "mark", "name", "info", "use", "print"}
  BY TopProperties DEF TypeInv, GotHost, Look, Mark, Name, Info, Use, PrintHost, At
<1>2. PICK f \in WellFormed : Set(f)
  BY WorksSet DEF Works
<1>3. f = stack'[Len(stack)]
  BY <1>1, <1>2, EmptySeq, LenProperties DEF Set, TypeInv
<1>4. f.step \in {"look", "mark", "name", "info", "use", "print"}
  <2>1. Len(stack) \in DOMAIN stack
    BY <1>1, EmptySeq, LenProperties DEF TypeInv
  <2>2. \A g : Set(g) => f = g
    BY <1>3, <2>1 DEF Set
  <2>3. CASE Mark \/ Name \/ Info
    <3>1. PICK p \in {"name", "info", "use"} : f = [top EXCEPT !.step = p]
      BY <2>2, <2>3 DEF Mark, Name, Info, Step
    <3> QED
      BY <1>1, <3>1, StepFields
  <2>4. CASE Look
    BY <1>1, <2>2, <2>4, SlotFields DEF Look
  <2>5. CASE Use
    <3>1. f = [top EXCEPT !.step = "look", !.todo = Tail(top.todo), !.slot = 0]
      BY <2>2, <2>5 DEF Use
    <3>2. f.step = "look"
      BY <1>1, <3>1, LookFields
    <3> QED
      BY <3>2
  <2>6. CASE PrintHost
    <3>1. f = [top EXCEPT !.slot = top.slot + 1]
      BY <2>2, <2>6 DEF PrintHost
    <3> QED
      BY <1>1, <3>1 DEF WellFormed, Frame
  <2> QED
    BY <2>3, <2>4, <2>5, <2>6 DEF GotHost
<1> QED
  BY <1>1, <1>2, <1>4, SetSettled, HopperKept DEF Settled

\* reloadConfig, in its three steps.
LEMMA HopperReload ==
  ASSUME TypeInv, HopperInv, Unread \/ Apply \/ Fork \/ Note, UNCHANGED env PROVE HopperInv'
<1> SUFFICES ASSUME Calm PROVE HopperInv'
  BY DEF HopperInv, Calm
<1>1. stack # <<>> /\ top \in WellFormed /\ stack \in Seq(WellFormed)
  BY TopProperties DEF TypeInv, Unread, Apply, Fork, Note, At
<1>2. \A f : Set(f) => stack' # <<>> /\ top' = f
  <2>1. PICK g \in WellFormed : Set(g)
    BY WorksSet DEF Works
  <2>2. stack' # <<>> /\ top' = g
    BY <1>1, <2>1, SetTyped
  <2>3. Len(stack) \in DOMAIN stack
    BY <1>1, EmptySeq, LenProperties
  <2>4. \A f : Set(f) => f = g
    BY <2>1, <2>3 DEF Set
  <2> QED
    BY <2>2, <2>4
<1>3. ASSUME NEW p, Step(p) PROVE stack' # <<>> /\ top'.step = p
  <2>1. stack' # <<>> /\ top' = [top EXCEPT !.step = p]
    BY <1>2, <1>3 DEF Step
  <2> QED
    BY <1>1, <2>1, StepFields
<1>4. pid \in Pid \cup {0, -1} /\ -1 \notin Pid /\ 0 \notin Pid
  BY PidAssumption DEF TypeInv, TypeOK
<1>5. CASE Apply
  <2>1. hoppers = {pid} \ {0, -1} /\ (hopping <=> pid # 0)
    BY <1>1, <1>5 DEF HopperInv, Settled, Apply, At
  <2>2. Kill(pid) => hoppers' = {}
    BY <1>4, <2>1 DEF Kill, Killed
  <2>3. CASE hopping' /\ Kill(pid) /\ UNCHANGED pid /\ Step("fork")
    BY <1>3, <1>4, <2>2, <2>3 DEF HopperInv, Settled, Calm
  <2>4. CASE Step("end") /\ UNCHANGED <<pid, hoppers>> /\ hopping' /\ hopping
    BY <1>3, <1>4, <2>1, <2>4 DEF HopperInv, Settled, Calm
  <2>5. CASE Step("end") /\ Kill(pid) /\ pid' = 0 /\ ~hopping'
    BY <1>3, <1>4, <2>2, <2>5 DEF HopperInv, Settled, Calm
  <2>6. PICK changed \in BOOLEAN :
          LET hop == IF top.sel = "same" THEN hopping ELSE top.sel = "hop"
          IN /\ hopping' = hop
             /\ IF hop /\ (changed \/ top.sel = "hop")
                  THEN Kill(pid) /\ UNCHANGED pid /\ Step("fork")
                  ELSE /\ Step("end")
                       /\ IF hop THEN UNCHANGED <<pid, hoppers, fault>>
                                 ELSE Kill(pid) /\ pid' = 0
    BY <1>5 DEF Apply
  <2>7. CASE hopping' /\ (changed \/ top.sel = "hop")
    BY <2>3, <2>6, <2>7
  <2>8. CASE hopping' /\ ~(changed \/ top.sel = "hop")
    BY <2>4, <2>6, <2>8
  <2>9. CASE ~hopping'
    BY <2>5, <2>6, <2>9
  <2> QED
    BY <2>7, <2>8, <2>9
<1>6. CASE Fork
  <2>1. hoppers = {} /\ hopping /\ hopping' /\ pid' = pid
    BY <1>1, <1>6 DEF HopperInv, Settled, Fork, At
  <2>2. PICK c \in Pid \cup {-1} : /\ hoppers' = {c} \ {-1}
                                   /\ Set([top EXCEPT !.step = "note", !.child = c])
    BY <1>6, <2>1 DEF Fork
  <2>3. top'.step = "note" /\ top'.child = c /\ stack' # <<>>
    <3>1. PICK g : g = [top EXCEPT !.step = "note", !.child = c]
      OBVIOUS
    <3>2. g.step = "note" /\ g.child = c
      BY <1>1, <3>1, ChildFields
    <3> QED
      BY <1>2, <2>2, <3>1, <3>2
  <2> QED
    BY <1>4, <2>1, <2>2, <2>3 DEF HopperInv, Settled, Calm
<1>7. CASE Note
  <2>1. top.child \in Pid \cup {-1} /\ hoppers = {top.child} \ {-1} /\ hopping
    BY <1>1, <1>7, FrameFields DEF HopperInv, Note, At
  <2>2. top'.step = "end" /\ stack' # <<>>
    <3>1. stack' # <<>> /\ top' = [top EXCEPT !.step = "end", !.child = -1]
      BY <1>2, <1>7 DEF Note
    <3> QED
      BY <1>1, <3>1, ChildFields
  <2>3. pid' = top.child /\ UNCHANGED <<hopping, hoppers>>
    BY <1>7 DEF Note
  <2> QED
    BY <1>4, <2>1, <2>2, <2>3 DEF HopperInv, Settled, Calm
<1>8. CASE Unread
  <2>1. Settled
    BY <1>1, <1>8 DEF Unread, At, Settled
  <2>2. Settled' /\ UNCHANGED <<hopping, pid, hoppers>>
    BY <1>3, <1>8 DEF Unread, Settled
  <2> QED
    BY <2>1, <2>2, HopperKept
<1> QED
  BY <1>5, <1>6, <1>7, <1>8

LEMMA HopperExit ==
  ASSUME Exit, UNCHANGED env,
         Calm => hoppers = {} \/ ("opens" \notin env /\ \E p : hoppers = {p})
  PROVE  HopperInv'
BY DEF Exit, HopperInv, Settled, Calm, Absent

\* The rest of main.
LEMMA HopperMain ==
  ASSUME TypeInv, ShapeInv, HopperInv, Start \/ Packet \/ Called \/ Ended \/ Leave, UNCHANGED env
  PROVE  HopperInv'
<1> SUFFICES ASSUME Calm PROVE HopperInv'
  BY DEF HopperInv, Calm
<1> USE DEF hopper
<1>1. CASE Start
  <2>1. /\ stack = <<>> /\ UNCHANGED <<hopping, pid, hoppers>>
        /\ pid = 0 /\ ~hopping /\ hoppers = {}
    BY <1>1 DEF Start, ShapeInv, HopperInv, Absent
  <2>2. CASE stack' = stack
    BY <2>1, <2>2 DEF HopperInv, Settled, Absent
  <2>3. ASSUME NEW f \in Configs, stack' = <<f>> PROVE HopperInv'
    <3>1. f.step = "look"
      BY <2>3 DEF Configs, Begin
    <3>2. top' = f /\ stack' # <<>>
      BY <2>3 DEF top
    <3> QED
      BY <2>1, <3>1, <3>2 DEF HopperInv, Settled
  <2> QED
    BY <1>1, <2>2, <2>3 DEF Start
<1>2. ASSUME Final, Settled, UNCHANGED <<hopping, pid, hoppers>> PROVE HopperInv'
  BY <1>2, FinalBetween, HopperKept DEF Settled
<1>3. CASE Packet
  <2>1. Settled /\ stack # <<>> /\ UNCHANGED <<hopping, pid, hoppers>>
    BY <1>3, QuietTop DEF Packet, Settled
  <2>2. ASSUME NEW todo \in Frames, Set(Begin("packet", todo, "same")) PROVE HopperInv'
    <3>1. Begin("packet", todo, "same") \in WellFormed /\ Begin("packet", todo, "same").step = "look"
      BY FramesTyped, BeginTyped DEF Begin
    <3> QED
      BY <2>1, <2>2, <3>1, SetSettled, HopperKept
  <2> QED
    BY <1>2, <1>3, <2>1, <2>2 DEF Packet
<1>4. CASE Called
  <2>1. stack # <<>> /\ top \in WellFormed /\ top.step = "look"
    BY <1>4, TopProperties DEF Called, At, TypeInv
  <2>2. Settled
    BY <2>1 DEF Settled
  <2>3. ASSUME NEW p \in {"print", "apply"}, Step(p) PROVE Settled' /\ stack' # <<>>
    <3>1. [top EXCEPT !.step = p] \in WellFormed /\ [top EXCEPT !.step = p].step = p
      BY <2>1, StepTyped, StepFields DEF InCall
    <3> QED
      BY <2>1, <2>3, <3>1, SetSettled DEF Step
  <2>4. Set(Wait) => Settled' /\ stack' # <<>>
    BY <2>1, WaitTyped, SetSettled DEF Wait, Begin
  <2>5. CASE Settled' /\ stack' # <<>> /\ UNCHANGED <<hopping, pid, hoppers>>
    BY <2>2, <2>5, HopperKept
  <2>6. CASE ~Holds("opens") /\ Exit
    <3>1. hoppers = {pid} \ {0, -1}
      BY <2>2 DEF HopperInv
    <3>2. hoppers = {} \/ hoppers = {pid}
      BY <3>1
    <3> QED
      BY <1>4, <2>6, <3>2, HopperExit DEF Holds
  <2> QED
    BY <1>2, <1>4, <2>2, <2>3, <2>4, <2>5, <2>6 DEF Called
<1>5. CASE Ended
  <2>1. /\ stack # <<>> /\ top.step \in {"print", "end"} /\ UNCHANGED <<hopping, pid>>
        /\ stack' # <<>>
        /\ \/ top' = Wait /\ UNCHANGED hoppers
           \/ top'.step = "look" /\ UNCHANGED hoppers
           \/ top'.step = "exit" /\ Kill(pid)
    BY <1>5, EndedTop DEF Calm
  <2>2. CASE UNCHANGED hoppers /\ (top' = Wait \/ top'.step = "look")
    BY <2>1, <2>2, HopperKept DEF Settled, Wait, Begin
  <2>3. CASE top'.step = "exit" /\ Kill(pid)
    <3>1. pid \in Pid \cup {0, -1} /\ hoppers = {pid} \ {0, -1}
      BY <2>1 DEF HopperInv, Settled, TypeInv, TypeOK
    <3>2. hoppers' = {}
      BY <2>3, <3>1 DEF Kill, Killed
    <3> QED
      BY <2>1, <2>3, <3>1, <3>2 DEF HopperInv, Settled, Calm
  <2> QED
    BY <2>1, <2>2, <2>3
<1>6. CASE Leave
  <2>1. stack # <<>> /\ top.step = "exit"
    BY <1>6 DEF Leave, At
  <2>2. hoppers = {}
    BY <2>1 DEF HopperInv, Settled
  <2> QED
    BY <1>6, <2>2, HopperExit DEF Leave
<1> QED
  BY <1>1, <1>3, <1>4, <1>5, <1>6

LEMMA HopperStep == TypeInv /\ ShapeInv /\ HopperInv /\ [Next]_vars => HopperInv'
<1> SUFFICES ASSUME TypeInv, ShapeInv, HopperInv, [Next]_vars PROVE HopperInv'
  OBVIOUS
<1> USE DEF hopper
<1>1. CASE UNCHANGED vars
  BY <1>1 DEF vars, HopperInv, Settled, Absent, Calm, top
<1>2. ASSUME Ask \/ Again \/ Reload, UNCHANGED env PROVE HopperInv'
  <2> SUFFICES ASSUME Calm PROVE HopperInv'
    BY <1>2 DEF HopperInv, Calm
  <2>1. CASE /\ UNCHANGED <<stack, hopping, pid, hoppers>>
             /\ life' = life \/ (stack = <<>> /\ hoppers = {})
    BY <1>2, <2>1 DEF HopperInv, Settled, Absent, Calm, top
  <2>2. ASSUME Quiet, UNCHANGED <<hopping, pid, hoppers>>,
               NEW f \in WellFormed, stack' = Append(stack, f), f.step = "look"
        PROVE  HopperInv'
    <3>1. Settled /\ stack # <<>>
      BY <2>2, QuietTop DEF Settled
    <3>2. Settled' /\ stack' # <<>>
      BY <2>2, AppendTop DEF Settled, TypeInv
    <3> QED
      BY <1>2, <2>2, <3>1, <3>2, HopperKept
  <2> QED
    BY <1>2, <2>1, <2>2, SignalTop DEF Calm
<1>3. ASSUME Tick \/ (\E i \in Slot : Age(i)), UNCHANGED env PROVE HopperInv'
  <2>1. UNCHANGED <<stack, life, hopping, pid, hoppers>>
    BY <1>3 DEF Tick, Age
  <2> QED
    BY <1>3, <2>1 DEF HopperInv, Settled, Absent, Calm, top
<1>4. CASE Runs(Start \/ Packet \/ Main \/ Tick \/ \E i \in Slot : Age(i))
  <2>1. UNCHANGED env
    BY <1>4 DEF Runs
  <2>2. CASE Main
    <3>1. CASE (GotHost \/ PrintHost) /\ UNCHANGED <<life, hopping, pid, hoppers>>
      BY <2>1, <3>1, HopperHosts
    <3>2. CASE Unread \/ Apply \/ Fork \/ Note
      BY <2>1, <3>2, HopperReload
    <3>4. CASE Overrun
      BY <2>1, <3>4 DEF Overrun, HopperInv, Calm, Holds
    <3>3. CASE Called \/ Ended \/ Leave
      BY <2>1, <3>3, HopperMain
    <3> QED
      BY <2>2, <3>1, <3>2, <3>3, <3>4 DEF Main
  <2>3. CASE Start \/ Packet
    BY <2>1, <2>3, HopperMain
  <2> QED
    BY <1>3, <1>4, <2>1, <2>2, <2>3 DEF Runs
<1> QED
  BY <1>1, <1>2, <1>4 DEF Next

LEMMA HopperImplies == TypeInv /\ ShapeInv /\ HopperInv => OneHopper
<1> SUFFICES ASSUME TypeInv, ShapeInv, HopperInv, Calm
             PROVE  /\ Cardinality(hoppers) <= 1
                    /\ "opens" \in env /\ life = "off" => hoppers = {}
                    /\ Quiet => hoppers = {pid} \ {0, -1} /\ (hopping <=> pid # 0)
  BY DEF OneHopper, Calm
<1>1. hoppers = {} \/ \E p : hoppers = {p}
  <2>1. CASE stack = <<>>
    BY <2>1 DEF HopperInv, Absent
  <2>2. CASE Settled
    <3>1. hoppers = {pid} \ {0, -1}
      BY <2>2 DEF HopperInv
    <3> QED
      BY <3>1
  <2>3. CASE stack # <<>> /\ top.step \in {"fork", "exit"}
    BY <2>3 DEF HopperInv
  <2>4. CASE stack # <<>> /\ top.step = "note"
    <3>1. hoppers = {top.child} \ {-1}
      BY <2>4 DEF HopperInv
    <3> QED
      BY <3>1
  <2> QED
    BY <2>1, <2>2, <2>3, <2>4 DEF Settled
<1>2. Cardinality(hoppers) <= 1
  BY <1>1, FS_EmptySet, FS_Singleton
<1>3. "opens" \in env /\ life = "off" => hoppers = {}
  BY DEF ShapeInv, HopperInv, Absent
<1>4. Quiet => hoppers = {pid} \ {0, -1} /\ (hopping <=> pid # 0)
  BY QuietTop DEF HopperInv, Settled
<1> QED
  BY <1>2, <1>3, <1>4

-----------------------------------------------------------------------------
(* The table: each host in one slot, which gotHost finds again.             *)

\* gotHost passes only hosts of other addresses before it comes to the slot.
Steady == {"deferred", "young", "few"} \subseteq env
Place(m, i) ==
  \E c \in 0 .. MaxProbes :
    /\ i = Probe(m, c)
    /\ \A d \in 0 .. c - 1 : hosts[Probe(m, d)].occupied /\ hosts[Probe(m, d)].mac # m
Fresh == \A i \in Slot : ~hosts[i].old /\ (~hosts[i].occupied => hosts[i].mac = NULL)
Asked == stack # <<>> => \A n \in 1 .. Len(top.todo) : top.todo[n].mac \in Few
Placed ==
  \A i \in Slot, m \in Mac \cup {NULL} : hosts[i].occupied /\ hosts[i].mac = m =>
    \/ m = NULL /\ stack # <<>> /\ top.step = "name" /\ top.slot = i
    \/ m \in Few /\ Place(m, i)
\* The slot gotHost has found is still right, and no other has the address.
Aim(m, i) == /\ Place(m, i) /\ hosts[i].mac \in {NULL, m}
             /\ \A j \in Slot \ {i} : hosts[j].mac # m
Aimed ==
  \A i \in Slot, m \in Mac :
    stack # <<>> /\ top.step \in {"mark", "name"} /\ top.slot = i /\ call.mac = m =>
      Aim(m, i) /\ (top.step = "name" => hosts[i].occupied)
TableInv == Steady => Fresh /\ Asked /\ Placed /\ Aimed

LEMMA Probes == MaxProbes \in Nat /\ MaxProbes <= MaxHosts - 1
BY SizeAssumption DEF MaxProbes

LEMMA ProbeInjective ==
  ASSUME NEW m \in Mac, NEW c \in 0 .. MaxProbes, NEW d \in 0 .. MaxProbes,
         Probe(m, c) = Probe(m, d)
  PROVE  c = d
<1>1. Hash[m] \in 0 .. MaxHosts - 1 /\ MaxHosts \in Nat \ {0}
  BY MacAssumption, SizeAssumption DEF Slot
<1>2. c \in 0 .. MaxHosts - 1 /\ d \in 0 .. MaxHosts - 1
  BY <1>1, Probes
<1>3. (Hash[m] + c) % MaxHosts = (Hash[m] + d) % MaxHosts
  BY DEF Probe
<1> QED
  BY <1>1, <1>2, <1>3

LEMMA ProbeInSlot == ASSUME NEW m \in Mac, NEW c \in 0 .. MaxProbes PROVE Probe(m, c) \in Slot
<1>1. Hash[m] \in 0 .. MaxHosts - 1 /\ MaxHosts \in Nat \ {0}
  BY MacAssumption, SizeAssumption DEF Slot
<1>2. c \in Nat
  BY Probes
<1> QED
  BY <1>1, <1>2 DEF Probe, Slot

\* gotHost finds the first slot that is free or has the address.
LEMMA FoundIs ==
  ASSUME NEW m \in Mac, NEW c \in 0 .. MaxProbes, Ends(m, c), \A d \in 0 .. c - 1 : ~Ends(m, d)
  PROVE  Found(m) = Probe(m, c)
<1> DEFINE P(k) == Ends(m, k) /\ \A d \in 0 .. k - 1 : ~Ends(m, d)
           x == CHOOSE k \in 0 .. MaxProbes + 1 : P(k)
<1>1. c \in 0 .. MaxProbes + 1 /\ P(c)
  BY Probes
<1>2. x \in 0 .. MaxProbes + 1 /\ P(x)
  BY <1>1
<1>3. Found(m) = Probe(m, x)
  BY DEF Found
<1> HIDE DEF x
<1>4. ~(x < c) /\ ~(c < x)
  BY <1>1, <1>2, Probes
<1>5. x = c
  BY <1>1, <1>2, <1>4, Probes
<1> QED
  BY <1>3, <1>5

\* A host is in one slot only: from the later place gotHost would have seen the earlier.
LEMMA OnePlace ==
  ASSUME NEW m \in Mac, NEW i \in Slot, NEW j \in Slot, Place(m, i), Place(m, j),
         hosts[i].mac = m, hosts[j].mac = m
  PROVE  i = j
<1>1. PICK c \in 0 .. MaxProbes : /\ i = Probe(m, c)
                                  /\ \A d \in 0 .. c - 1 : hosts[Probe(m, d)].mac # m
  BY DEF Place
<1>2. PICK e \in 0 .. MaxProbes : /\ j = Probe(m, e)
                                  /\ \A d \in 0 .. e - 1 : hosts[Probe(m, d)].mac # m
  BY DEF Place
<1>3. ~(c < e) /\ ~(e < c)
  BY <1>1, <1>2, Probes
<1>4. c = e
  BY <1>3, Probes
<1> QED
  BY <1>1, <1>2, <1>4

\* With no more hosts than probes one of these is free, or the host is there.
LEMMA FreePlace ==
  ASSUME IsFiniteSet(Few), Cardinality(Few) <= MaxProbes + 1, NEW m \in Few,
         \A i \in Slot : hosts[i].occupied => hosts[i].mac \in Few /\ Place(hosts[i].mac, i)
  PROVE  \E c \in 0 .. MaxProbes : Ends(m, c)
<1> SUFFICES ASSUME \A c \in 0 .. MaxProbes : ~Ends(m, c) PROVE FALSE
  OBVIOUS
<1> DEFINE S == 0 .. MaxProbes
           T == Few \ {m}
           f == [c \in S |-> hosts[Probe(m, c)].mac]
<1>0. m \in Mac /\ Few \subseteq Mac
  BY MacAssumption
<1>1. \A c \in S : /\ Probe(m, c) \in Slot
                   /\ hosts[Probe(m, c)].occupied /\ hosts[Probe(m, c)].mac # m
  BY <1>0, ProbeInSlot DEF Ends
<1>2. f \in [S -> T]
  BY <1>1
<1>3. ASSUME NEW c \in S, NEW d \in S, f[c] = f[d] PROVE c = d
  <2> DEFINE x == f[c]
  <2>1. /\ x \in Mac /\ hosts[Probe(m, c)].mac = x /\ hosts[Probe(m, d)].mac = x
        /\ Place(x, Probe(m, c)) /\ Place(x, Probe(m, d))
    BY <1>0, <1>1, <1>3
  <2> HIDE DEF x
  <2>2. Probe(m, c) = Probe(m, d)
    BY <1>1, <2>1, OnePlace
  <2> QED
    BY <1>0, <2>2, ProbeInjective
<1>4. f \in Injection(S, T)
  BY <1>2, <1>3 DEF Injection, IsInjective
<1>5. IsFiniteSet(T) /\ Cardinality(T) = Cardinality(Few) - 1
  BY FS_RemoveElement
<1>6. IsFiniteSet(S) /\ Cardinality(S) = MaxProbes + 1
  BY Probes, FS_Interval
<1>7. Cardinality(S) <= Cardinality(T)
  BY <1>4, <1>5, FS_Injection
<1>8. Cardinality(Few) \in Nat
  BY FS_CardinalityType
<1> QED
  BY <1>5, <1>6, <1>7, <1>8, Probes

LEMMA FoundPlace ==
  ASSUME IsFiniteSet(Few), Cardinality(Few) <= MaxProbes + 1, NEW m \in Few, Fresh,
         \A i \in Slot : hosts[i].occupied => hosts[i].mac \in Few /\ Place(hosts[i].mac, i)
  PROVE  /\ Found(m) \in Slot /\ Place(m, Found(m))
         /\ hosts[Found(m)].mac \in {NULL, m}
         /\ \A j \in Slot \ {Found(m)} : hosts[j].mac # m
<1>0. m \in Mac /\ m # NULL
  BY MacAssumption, NullAssumption
<1> DEFINE T == {c \in 0 .. MaxProbes : Ends(m, c)}
<1>1. T \subseteq Nat /\ T # {}
  BY FreePlace, Probes
<1>2. PICK c \in T : \A d \in T : ~(d < c)
  BY <1>1, LeastNatural
<1>3. c \in 0 .. MaxProbes /\ Ends(m, c) /\ \A d \in 0 .. c - 1 : ~Ends(m, d)
  BY <1>2, Probes
<1>4. Found(m) = Probe(m, c) /\ Probe(m, c) \in Slot
  BY <1>0, <1>3, FoundIs, ProbeInSlot
<1>5. \A d \in 0 .. c - 1 : hosts[Probe(m, d)].occupied /\ hosts[Probe(m, d)].mac # m
  BY <1>3 DEF Ends
<1>6. hosts[Probe(m, c)].mac \in {NULL, m} /\ (hosts[Probe(m, c)].occupied => hosts[Probe(m, c)].mac = m)
  BY <1>3, <1>4, Probes DEF Ends, Fresh
<1>7. Place(m, Probe(m, c))
  BY <1>3, <1>5 DEF Place
<1>8. ASSUME NEW j \in Slot, hosts[j].mac = m PROVE j = Probe(m, c)
  <2>1. hosts[j].occupied /\ Place(m, j)
    BY <1>0, <1>8 DEF Fresh
  <2>2. PICK e \in 0 .. MaxProbes :
          /\ j = Probe(m, e)
          /\ \A d \in 0 .. e - 1 : hosts[Probe(m, d)].occupied /\ hosts[Probe(m, d)].mac # m
    BY <2>1 DEF Place
  <2>3. ~(e < c)
    BY <1>5, <1>8, <2>2, Probes
  <2>4. ~(c < e)
    <3>1. ASSUME c < e PROVE FALSE
      <4>1. hosts[Probe(m, c)].occupied /\ hosts[Probe(m, c)].mac # m
        BY <1>3, <2>2, <3>1, Probes
      <4> QED
        BY <1>6, <4>1
    <3> QED
      BY <3>1
  <2>5. e = c
    BY <1>3, <2>3, <2>4, Probes
  <2> QED
    BY <2>2, <2>5
<1> QED
  BY <1>4, <1>6, <1>7, <1>8

LEMMA SetTop ==
  ASSUME TypeInv, stack # <<>>, NEW f, Set(f) PROVE stack' # <<>> /\ top' = f
<1>1. stack \in Seq(WellFormed \cup {f})
  BY SeqMonotonic DEF TypeInv
<1>2. stack' = [stack EXCEPT ![Len(stack)] = f] /\ f \in WellFormed \cup {f}
  BY DEF Set
<1>3. /\ stack' # <<>> /\ stack'[Len(stack')] = f
  BY <1>1, <1>2, SetProperties
<1> QED
  BY <1>3 DEF top

\* The fields of a frame that has gone on, and of a slot that is filled.
LEMMA MarkGoes ==
  ASSUME NEW f \in WellFormed, NEW n
  PROVE  LET g == [f EXCEPT !.step = "mark", !.slot = n]
         IN  g.step = "mark" /\ g.slot = n /\ g.todo = f.todo
<1> DEFINE h == [f EXCEPT !.step = "mark"]
<1>1. /\ DOMAIN h = {"who", "step", "todo", "slot", "sel", "child"}
      /\ h.step = "mark" /\ h.todo = f.todo
  BY DEF WellFormed, Frame
<1>2. [f EXCEPT !.step = "mark", !.slot = n] = [h EXCEPT !.slot = n]
  OBVIOUS
<1> HIDE DEF h
<1> QED
  BY <1>1, <1>2

LEMMA LookGoes ==
  ASSUME NEW f \in WellFormed, NEW t, NEW n
  PROVE  LET g == [f EXCEPT !.step = "look", !.todo = t, !.slot = n]
         IN  g.step = "look" /\ g.todo = t
<1> DEFINE h == [f EXCEPT !.step = "look"]
           k == [h EXCEPT !.todo = t]
<1>1. DOMAIN h = {"who", "step", "todo", "slot", "sel", "child"} /\ h.step = "look"
  BY DEF WellFormed, Frame
<1>2. [f EXCEPT !.step = "look", !.todo = t, !.slot = n] = [k EXCEPT !.slot = n]
  OBVIOUS
<1> HIDE DEF h
<1>3. DOMAIN k = {"who", "step", "todo", "slot", "sel", "child"} /\ k.step = "look" /\ k.todo = t
  BY <1>1
<1> HIDE DEF k
<1> QED
  BY <1>2, <1>3

LEMMA ChildGoes ==
  ASSUME NEW f \in WellFormed, NEW p, NEW c
  PROVE  LET g == [f EXCEPT !.step = p, !.child = c]
         IN  g.step = p /\ g.todo = f.todo
<1> DEFINE h == [f EXCEPT !.step = p]
<1>1. /\ DOMAIN h = {"who", "step", "todo", "slot", "sel", "child"}
      /\ h.step = p /\ h.todo = f.todo
  BY DEF WellFormed, Frame
<1>2. [f EXCEPT !.step = p, !.child = c] = [h EXCEPT !.child = c]
  OBVIOUS
<1> HIDE DEF h
<1> QED
  BY <1>1, <1>2

LEMMA CountGoes ==
  ASSUME NEW f \in WellFormed, NEW n
  PROVE  LET g == [f EXCEPT !.slot = n]
         IN  g.step = f.step /\ g.todo = f.todo
BY DEF WellFormed, Frame

LEMMA HostFilled ==
  ASSUME NEW h \in Host, NEW t, NEW g,
         g = [h EXCEPT !.occupied = TRUE, !.old = FALSE, !.type = t]
  PROVE  g.occupied /\ ~g.old /\ g.mac = h.mac
<1> DEFINE D == {"occupied", "mac", "type", "old", "apInfo", "staInfo"}
           h1 == [h EXCEPT !.occupied = TRUE]
           h2 == [h1 EXCEPT !.old = FALSE]
<1>1. DOMAIN h1 = D /\ h1.occupied /\ h1.mac = h.mac
  BY DEF Host
<1>2. g = [h2 EXCEPT !.type = t]
  OBVIOUS
<1> HIDE DEF h1
<1>3. DOMAIN h2 = D /\ h2.occupied /\ ~h2.old /\ h2.mac = h.mac
  BY <1>1
<1> HIDE DEF h2
<1> QED
  BY <1>2, <1>3

LEMMA PlaceKept ==
  ASSUME NEW m \in Mac, NEW i, Place(m, i),
         \A j \in Slot : hosts[j].occupied /\ hosts[j].mac # m => hosts'[j].occupied /\ hosts'[j].mac # m
  PROVE  Place(m, i)'
<1>1. PICK c \in 0 .. MaxProbes :
        /\ i = Probe(m, c)
        /\ \A d \in 0 .. c - 1 : hosts[Probe(m, d)].occupied /\ hosts[Probe(m, d)].mac # m
  BY DEF Place
<1>2. \A d \in 0 .. c - 1 : Probe(m, d) \in Slot
  BY <1>1, Probes, ProbeInSlot
<1> QED
  BY <1>1, <1>2 DEF Place

LEMMA TableInit == Init => TableInv
BY DEF Init, TableInv, Fresh, Asked, Placed, Aimed, NoHost

\* Steps outside of gotHost leave the table as it is; what they ask for is heard.
Resting == stack = <<>> \/ top.step \notin {"mark", "name"}
LEMMA TableKept ==
  ASSUME TableInv, UNCHANGED env,
         Steady => /\ Resting /\ Resting' /\ Asked'
                   /\ \A i \in Slot : /\ hosts'[i].occupied = hosts[i].occupied
                                      /\ hosts'[i].mac = hosts[i].mac
                                      /\ hosts'[i].old = hosts[i].old
  PROVE  TableInv'
<1> SUFFICES ASSUME Steady PROVE Fresh' /\ Asked' /\ Placed' /\ Aimed'
  BY DEF TableInv, Steady
<1>1. Fresh /\ Placed
  BY DEF TableInv
<1>2. Fresh'
  BY <1>1 DEF Fresh
<1>3. ASSUME NEW i \in Slot, NEW m \in Mac \cup {NULL}, hosts'[i].occupied, hosts'[i].mac = m
      PROVE  m \in Few /\ Place(m, i)'
  <2>1. m \in Few /\ Place(m, i)
    BY <1>1, <1>3 DEF Placed, Resting
  <2> QED
    BY <2>1, PlaceKept, MacAssumption
<1>4. Placed' /\ Aimed'
  BY <1>3 DEF Placed, Aimed, Resting
<1> QED
  BY <1>2, <1>4

LEMMA TableLook ==
  ASSUME IsFiniteSet(Few), Cardinality(Few) <= MaxProbes + 1,
         TypeInv, TableInv, UNCHANGED env, Look
  PROVE  TableInv'
<1> SUFFICES ASSUME Steady PROVE Fresh' /\ Asked' /\ Placed' /\ Aimed'
  BY DEF TableInv, Steady
<1>0. Fresh /\ Asked /\ Placed /\ UNCHANGED hosts
  BY DEF TableInv, Look
<1>1. stack # <<>> /\ top \in WellFormed /\ top.step = "look" /\ top.todo # <<>>
  BY TopProperties DEF Look, At, TypeInv
<1>2. PICK m \in Few : call.mac = m
  <2>1. 1 \in 1 .. Len(top.todo) /\ call = top.todo[1]
    BY <1>1, FrameFields, EmptySeq, LenProperties DEF call
  <2> QED
    BY <1>0, <1>1, <2>1 DEF Asked
<1>3. m \in Mac /\ m # NULL
  BY MacAssumption, NullAssumption
<1>4. \A i \in Slot, n \in Mac \cup {NULL} :
        hosts[i].occupied /\ hosts[i].mac = n => n \in Few /\ Place(n, i)
  BY <1>0, <1>1 DEF Placed
<1>5. \A i \in Slot : hosts[i].occupied => hosts[i].mac \in Few /\ Place(hosts[i].mac, i)
  <2>1. \A i \in Slot : hosts[i].mac \in Mac \cup {NULL}
    BY DEF TypeInv, TypeOK, Host
  <2> QED
    BY <1>4, <2>1
<1>6. PICK i \in Slot : i = Found(m) /\ Aim(m, i)
  BY <1>0, <1>5, FoundPlace DEF Aim
<1> DEFINE f == [top EXCEPT !.step = "mark", !.slot = i]
<1>7. f.step = "mark" /\ f.slot = i /\ f.todo = top.todo
  BY <1>1, MarkGoes
<1>8. Set(f)
  BY <1>2, <1>6 DEF Look
<1> HIDE DEF f
<1>9. stack' # <<>> /\ top' = f
  BY <1>1, <1>8, SetTop
<1>10. \A n, j : Place(n, j) => Place(n, j)'
  BY <1>0 DEF Place
<1>11. Aim(m, i)'
  BY <1>0, <1>6, <1>10 DEF Aim
<1>12. call' = call
  BY <1>7, <1>9 DEF call
<1>13. Fresh' /\ Asked'
  BY <1>0, <1>1, <1>7, <1>9 DEF Fresh, Asked
<1>14. Placed'
  BY <1>0, <1>4, <1>10 DEF Placed
<1>15. Aimed'
  <2>1. top'.step = "mark" /\ top'.slot = i /\ call'.mac = m
    BY <1>2, <1>7, <1>9, <1>12
  <2> QED
    BY <1>11, <2>1 DEF Aimed
<1> QED
  BY <1>13, <1>14, <1>15

LEMMA TableMark == ASSUME TypeInv, TableInv, UNCHANGED env, Mark PROVE TableInv'
<1> SUFFICES ASSUME Steady PROVE Fresh' /\ Asked' /\ Placed' /\ Aimed'
  BY DEF TableInv, Steady
<1>0. Fresh /\ Asked /\ Placed /\ Aimed
  BY DEF TableInv
<1>1. stack # <<>> /\ top \in WellFormed /\ top.step = "mark" /\ top.slot \in Slot /\ call \in Call
  BY TopProperties, FrameFields DEF Mark, At, TypeInv, InCall, call
<1>2. PICK i \in Slot, m \in Mac : top.slot = i /\ call.mac = m
  BY <1>1 DEF Call
<1>3. PICK f : f = [top EXCEPT !.step = "name"]
  OBVIOUS
<1>4. stack' # <<>> /\ top' = f /\ f.step = "name" /\ f.slot = i /\ f.todo = top.todo
  BY <1>1, <1>2, <1>3, SetTop, StepFields DEF Mark, Step
<1>5. call' = call
  BY <1>4 DEF call
<1>6. /\ hosts'[i].occupied /\ ~hosts'[i].old /\ hosts'[i].mac = hosts[i].mac
      /\ \A j \in Slot \ {i} : hosts'[j] = hosts[j]
  <2> DEFINE g == [hosts[i] EXCEPT !.occupied = TRUE, !.old = FALSE, !.type = call.type]
  <2>1. hosts' = [hosts EXCEPT ![i] = g] /\ hosts[i] \in Host
    BY <1>2 DEF Mark, TypeInv, TypeOK
  <2>2. g.occupied /\ ~g.old /\ g.mac = hosts[i].mac
    BY <2>1, HostFilled
  <2> HIDE DEF g
  <2> QED
    BY <2>1, <2>2 DEF TypeInv, TypeOK
<1>7. \A n \in Mac, j \in Slot : Place(n, j) => Place(n, j)'
  BY <1>6, PlaceKept
<1>8. Aim(m, i)
  BY <1>0, <1>1, <1>2 DEF Aimed
<1>9. Fresh' /\ Asked'
  BY <1>0, <1>1, <1>4, <1>6 DEF Fresh, Asked
<1>10. Placed'
  <2> SUFFICES ASSUME NEW j \in Slot, NEW n \in Mac \cup {NULL},
                      hosts'[j].occupied, hosts'[j].mac = n
               PROVE  \/ n = NULL /\ stack' # <<>> /\ top'.step = "name" /\ top'.slot = j
                      \/ n \in Few /\ Place(n, j)'
    BY DEF Placed
  <2>1. CASE hosts[j].occupied
    <3>1. n \in Few /\ Place(n, j)
      BY <1>0, <1>1, <1>6, <2>1 DEF Placed
    <3> QED
      BY <1>7, <3>1, MacAssumption
  <2>2. CASE ~hosts[j].occupied
    <3>1. j = i /\ n = NULL
      BY <1>0, <1>6, <2>2 DEF Fresh
    <3> QED
      BY <1>4, <3>1
  <2> QED
    BY <2>1, <2>2
<1>11. Aim(m, i)'
  BY <1>6, <1>7, <1>8 DEF Aim
<1>12. Aimed'
  <2>1. top'.step = "name" /\ top'.slot = i /\ call'.mac = m
    BY <1>2, <1>4, <1>5
  <2> QED
    BY <1>6, <1>11, <2>1 DEF Aimed
<1> QED
  BY <1>9, <1>10, <1>12

LEMMA TableName == ASSUME TypeInv, TableInv, UNCHANGED env, Name PROVE TableInv'
<1> SUFFICES ASSUME Steady PROVE Fresh' /\ Asked' /\ Placed' /\ Aimed'
  BY DEF TableInv, Steady
<1>0. Fresh /\ Asked /\ Placed /\ Aimed
  BY DEF TableInv
<1>1. stack # <<>> /\ top \in WellFormed /\ top.step = "name" /\ top.slot \in Slot /\ call \in Call
  BY TopProperties, FrameFields DEF Name, At, TypeInv, InCall, call
<1>2. PICK i \in Slot, m \in Mac : top.slot = i /\ call.mac = m
  BY <1>1 DEF Call
<1>3. PICK f : f = [top EXCEPT !.step = "info"]
  OBVIOUS
<1>4. stack' # <<>> /\ top' = f /\ f.step = "info" /\ f.todo = top.todo
  BY <1>1, <1>3, SetTop, StepFields DEF Name, Step
<1>5. m \in Few
  <2>1. 1 \in 1 .. Len(top.todo) /\ call = top.todo[1]
    BY <1>1, FrameFields, EmptySeq, LenProperties DEF call, InCall
  <2> QED
    BY <1>0, <1>1, <1>2, <2>1 DEF Asked
<1>6. /\ hosts'[i].occupied = hosts[i].occupied /\ hosts'[i].old = hosts[i].old
      /\ hosts'[i].mac = m /\ \A j \in Slot \ {i} : hosts'[j] = hosts[j]
  BY <1>2 DEF Name, TypeInv, TypeOK, Host
<1>7. Aim(m, i) /\ hosts[i].occupied
  BY <1>0, <1>1, <1>2 DEF Aimed
<1>8. Place(m, i)'
  <2>1. PICK c \in 0 .. MaxProbes :
          /\ i = Probe(m, c)
          /\ \A d \in 0 .. c - 1 : hosts[Probe(m, d)].occupied /\ hosts[Probe(m, d)].mac # m
    BY <1>7 DEF Aim, Place
  <2>2. \A d \in 0 .. c - 1 : d \in 0 .. MaxProbes /\ d # c
    BY Probes
  <2>3. \A d \in 0 .. c - 1 : Probe(m, d) \in Slot \ {i}
    BY <2>1, <2>2, ProbeInSlot, ProbeInjective
  <2> QED
    BY <1>6, <2>1, <2>3 DEF Place
<1>9. Fresh' /\ Asked'
  BY <1>0, <1>1, <1>4, <1>6, <1>7 DEF Fresh, Asked
<1>10. ASSUME NEW j \in Slot \ {i}, NEW n \in Mac \cup {NULL}, hosts'[j].occupied, hosts'[j].mac = n
       PROVE  n \in Few /\ Place(n, j)'
  <2>1. hosts[j].occupied /\ hosts[j].mac = n /\ n # m
    BY <1>6, <1>7, <1>10 DEF Aim
  <2>2. n \in Few /\ Place(n, j)
    BY <1>0, <1>2, <2>1 DEF Placed
  <2> QED
    BY <1>6, <2>1, <2>2, PlaceKept, MacAssumption
<1>11. Placed'
  BY <1>5, <1>6, <1>8, <1>10 DEF Placed
<1>12. Aimed'
  BY <1>4 DEF Aimed
<1> QED
  BY <1>9, <1>11, <1>12

\* Under "few" whatever calls gotHost does so for hosts of Few.
AllFew(todo) == "few" \in env => \A n \in 1 .. Len(todo) : todo[n].mac \in Few
LEMMA HeardFew ==
  /\ AllFew(<<>>) /\ \A todo \in WlCalls \cup Frames : AllFew(todo)
  /\ \A f \in Configs : AllFew(f.todo)
<1> SUFFICES ASSUME "few" \in env
             PROVE  /\ AllFew(<<>>) /\ \A todo \in WlCalls \cup Frames : AllFew(todo)
                    /\ \A f \in Configs : AllFew(f.todo)
  BY DEF AllFew
<1>1. Heard = Few /\ Own \in Few
  BY MacAssumption DEF Heard, Holds
<1>2. \A n : ~(n \in 1 .. Len(<<>>))
  OBVIOUS
<1>3. AllFew(<<>>)
  BY <1>2 DEF AllFew
<1>4. \A c : AllFew(<<c>>) <=> c.mac \in Few
  BY DEF AllFew
<1>5. \A c, d : AllFew(<<c, d>>) <=> c.mac \in Few /\ d.mac \in Few
  BY DEF AllFew
<1>6. ASSUME NEW m \in Few, NEW t, NEW hub
      PROVE  Calls(m, t).mac \in Few /\ [Calls(m, t) EXCEPT !.hub = hub].mac \in Few
  BY DEF Calls
<1>7. \A todo \in WlCalls : AllFew(todo)
  <2>1. ASSUME NEW s \in Stations
        PROVE  AllFew(<<Calls(Own, "AP")>> \o [i \in DOMAIN s |-> Calls(s[i], "Sta")])
    <3> DEFINE rest == [i \in DOMAIN s |-> Calls(s[i], "Sta")]
               first == <<Calls(Own, "AP")>>
    <3>1. PICK k \in Nat : s \in [1 .. k -> Few]
      BY <1>1, SizeAssumption DEF Stations
    <3>2. rest \in Seq({c \in Call : c.mac \in Few}) /\ first \in Seq({c \in Call : c.mac \in Few})
      <4>1. \A m \in Few, t \in {"AP", "Sta"} : Calls(m, t) \in {c \in Call : c.mac \in Few}
        BY MacAssumption DEF Calls, Call
      <4> QED
        BY <1>1, <3>1, <4>1, SeqDef
    <3>3. first \o rest \in Seq({c \in Call : c.mac \in Few})
      BY <3>2, ConcatProperties
    <3> QED
      BY <3>3 DEF AllFew
  <2> QED
    BY <1>1, <1>3, <1>4, <1>6, <2>1 DEF WlCalls
<1>8. \A todo \in Frames : AllFew(todo)
  <2> SUFFICES ASSUME NEW todo \in Frames PROVE AllFew(todo)
    OBVIOUS
  <2>1. CASE todo = <<>>
    BY <1>3, <2>1
  <2>2. ASSUME NEW m \in Heard, NEW t \in {"AP", "Sta"}, todo = <<Calls(m, t)>>
        PROVE  AllFew(todo)
    BY <1>1, <1>4, <1>6, <2>2
  <2>3. ASSUME NEW m \in Heard, NEW b \in Heard, NEW hub \in BOOLEAN,
               todo = <<Calls(m, "Sta"), [Calls(b, "AP") EXCEPT !.hub = hub]>>
        PROVE  AllFew(todo)
    BY <1>1, <1>5, <1>6, <2>3
  <2> QED
    BY <2>1, <2>2, <2>3 DEF Frames
<1>9. \A f \in Configs : AllFew(f.todo)
  BY <1>3, <1>7 DEF Configs, Begin
<1> QED
  BY <1>3, <1>7, <1>8, <1>9

\* A frame that has just begun, or goes on outside of gotHost.
Heeded == "few" \in env => Asked
Rests == Resting /\ Heeded
LEMMA TopRests ==
  ASSUME top'.step \notin {"mark", "name"}, AllFew(top'.todo), UNCHANGED env PROVE Rests'
BY DEF Rests, Resting, Heeded, Asked, AllFew

LEMMA FinalRests == ASSUME Final, UNCHANGED env PROVE Rests'
<1>1. PICK f : stack' = <<f>> /\ f.step \in {"look", "end"} /\ AllFew(f.todo)
  <2>1. \A todo : Begin("page", todo, "same").step = "look" /\ Begin("page", todo, "same").todo = todo
    BY DEF Begin
  <2>2. [Begin("page", <<>>, "same") EXCEPT !.step = "end"].step = "end"
        /\ [Begin("page", <<>>, "same") EXCEPT !.step = "end"].todo = <<>>
    BY DEF Begin
  <2>3. AllFew(<<>>) /\ \A todo \in WlCalls : AllFew(todo)
    BY HeardFew
  <2>4. \/ \E todo \in WlCalls : stack' = <<Begin("page", todo, "same")>>
        \/ stack' = <<[Begin("page", <<>>, "same") EXCEPT !.step = "end"]>>
    BY DEF Final
  <2>5. ASSUME NEW todo \in WlCalls, stack' = <<Begin("page", todo, "same")>>
        PROVE  \E f : stack' = <<f>> /\ f.step \in {"look", "end"} /\ AllFew(f.todo)
    BY <2>1, <2>3, <2>5
  <2>6. ASSUME stack' = <<[Begin("page", <<>>, "same") EXCEPT !.step = "end"]>>
        PROVE  \E f : stack' = <<f>> /\ f.step \in {"look", "end"} /\ AllFew(f.todo)
    <3> DEFINE f == [Begin("page", <<>>, "same") EXCEPT !.step = "end"]
    <3>1. stack' = <<f>> /\ f.step = "end" /\ AllFew(f.todo)
      BY <2>2, <2>3, <2>6
    <3> HIDE DEF f
    <3> QED
      BY <3>1
  <2> QED
    BY <2>4, <2>5, <2>6
<1>2. stack' # <<>> /\ top' = f
  BY <1>1 DEF top
<1> QED
  BY <1>1, <1>2, TopRests

\* What the slot is used for afterwards, and printing, leave every host where it is.
SameHosts == \A i \in Slot : /\ hosts'[i].occupied = hosts[i].occupied
                             /\ hosts'[i].mac = hosts[i].mac /\ hosts'[i].old = hosts[i].old
LEMMA GotHostRests ==
  ASSUME TypeInv, Heeded, Info \/ Use \/ PrintHost, UNCHANGED env
  PROVE  Resting /\ Rests' /\ (SameHosts \/ PrintHost)
<1>1. stack # <<>> /\ top \in WellFormed /\ top.step \in {"info", "use", "print"}
  BY TopProperties DEF Info, Use, PrintHost, At, TypeInv
<1>2. /\ top.slot \in Slot /\ hosts \in [Slot -> Host]
      /\ AllFew(top.todo) /\ (top.step \in InCall => top.todo # <<>>)
  BY <1>1, FrameFields DEF TypeInv, TypeOK, InCall, Heeded, Asked, AllFew, Info, Use,
         PrintHost, At
<1>3. CASE Info
  <2>1. stack' # <<>> /\ top'.step = "use" /\ top'.todo = top.todo
    <3>1. PICK f : f = [top EXCEPT !.step = "use"]
      OBVIOUS
    <3>2. f.step = "use" /\ f.todo = top.todo
      BY <1>1, <3>1, StepFields
    <3>3. stack' # <<>> /\ top' = f
      BY <1>1, <1>3, <3>1, SetTop DEF Info, Step
    <3> QED
      BY <3>2, <3>3
  <2>2. \A h \in Host : LET g == Informed(h) IN
          g.occupied = h.occupied /\ g.mac = h.mac /\ g.old = h.old
    BY DEF Host, Informed
  <2>3. SameHosts
    BY <1>2, <1>3, <2>2 DEF Info, SameHosts
  <2>4. Rests'
    BY <1>2, <2>1, TopRests
  <2> QED
    BY <1>1, <2>3, <2>4 DEF Resting
<1>4. CASE Use
  <2> DEFINE f == [top EXCEPT !.step = "look", !.todo = Tail(top.todo), !.slot = 0]
  <2>1. f.step = "look" /\ f.todo = Tail(top.todo)
    BY <1>1, LookGoes
  <2>2. Set(f)
    BY <1>4 DEF Use
  <2> HIDE DEF f
  <2>3. stack' # <<>> /\ top' = f
    BY <1>1, <2>2, SetTop
  <2>4. AllFew(Tail(top.todo))
    <3>1. top.todo # <<>> /\ top.todo \in Seq(Call)
      BY <1>1, <1>2, <1>4, FrameFields DEF Use, At, InCall
    <3>2. \A n \in 1 .. Len(Tail(top.todo)) :
            n + 1 \in 1 .. Len(top.todo) /\ Tail(top.todo)[n] = top.todo[n + 1]
      BY <3>1
    <3> QED
      BY <1>2, <3>2 DEF AllFew
  <2>5. Rests'
    BY <2>1, <2>3, <2>4, TopRests
  <2>6. SameHosts
    <3>1. \A h \in Host : LET g == [h EXCEPT !.type = "AdhocHub"] IN
            g.occupied = h.occupied /\ g.mac = h.mac /\ g.old = h.old
      BY DEF Host
    <3> QED
      BY <1>2, <1>4, <3>1 DEF Use, SameHosts
  <2> QED
    BY <1>1, <2>5, <2>6 DEF Resting
<1>5. CASE PrintHost
  <2>1. [top EXCEPT !.slot = top.slot + 1].step = top.step
        /\ [top EXCEPT !.slot = top.slot + 1].todo = top.todo
    BY <1>1, CountGoes
  <2>2. stack' # <<>> /\ top'.step = "print" /\ top'.todo = top.todo
    BY <1>1, <1>5, <2>1, SetTop DEF PrintHost, At
  <2>3. Rests'
    BY <1>2, <2>2, TopRests
  <2> QED
    BY <1>1, <1>5, <2>3 DEF Resting
<1> QED
  BY <1>3, <1>4, <1>5

LEMMA HopperRests ==
  ASSUME TypeInv, Heeded, Unread \/ Apply \/ Fork \/ Note, UNCHANGED env
  PROVE  Resting /\ Rests'
<1>1. stack # <<>> /\ top \in WellFormed /\ top.step \in {"apply", "fork", "note"}
  BY TopProperties DEF Unread, Apply, Fork, Note, At, TypeInv
<1>2. \/ \E p \in {"fork", "end", "note"} : Set([top EXCEPT !.step = p])
      \/ \E c : Set([top EXCEPT !.step = "note", !.child = c])
      \/ \E c : Set([top EXCEPT !.step = "end", !.child = c])
  BY Zenon DEF Unread, Apply, Fork, Note, Step
<1>3. PICK f : Set(f) /\ f.step \in {"fork", "end", "note"} /\ f.todo = top.todo
  <2>1. \A p : [top EXCEPT !.step = p].step = p /\ [top EXCEPT !.step = p].todo = top.todo
    BY <1>1, StepFields
  <2>2. \A p, c : [top EXCEPT !.step = p, !.child = c].step = p
                  /\ [top EXCEPT !.step = p, !.child = c].todo = top.todo
    BY <1>1, ChildGoes
  <2>3. ASSUME NEW p \in {"fork", "end", "note"}, Set([top EXCEPT !.step = p])
        PROVE  \E f : Set(f) /\ f.step \in {"fork", "end", "note"} /\ f.todo = top.todo
    BY <2>1, <2>3
  <2>4. ASSUME NEW p \in {"end", "note"}, NEW c, Set([top EXCEPT !.step = p, !.child = c])
        PROVE  \E f : Set(f) /\ f.step \in {"fork", "end", "note"} /\ f.todo = top.todo
    <3> DEFINE f == [top EXCEPT !.step = p, !.child = c]
    <3>1. Set(f) /\ f.step = p /\ f.todo = top.todo
      BY <2>2, <2>4
    <3> HIDE DEF f
    <3> QED
      BY <2>4, <3>1
  <2> QED
    BY <1>2, <2>3, <2>4
<1>4. stack' # <<>> /\ top' = f
  BY <1>1, <1>3, SetTop
<1> QED
  BY <1>1, <1>3, <1>4 DEF Rests, Resting, Heeded, Asked

\* The activities of main, between its calls of gotHost.
LEMMA MainRests ==
  ASSUME TypeInv, ShapeInv, Heeded, "deferred" \in env, UNCHANGED env,
         Start \/ Packet \/ Called \/ Ended
  PROVE  Exit \/ (UNCHANGED hosts /\ Resting /\ Rests')
<1> USE DEF hopper
<1>0. stack \in Seq(WellFormed)
  BY DEF TypeInv
<1>2. CASE Start
  <2>1. stack = <<>> /\ UNCHANGED hosts
    BY <1>2 DEF Start, ShapeInv
  <2>2. CASE UNCHANGED stack
    BY <2>1, <2>2 DEF Rests, Resting, Heeded, Asked
  <2>3. ASSUME NEW f \in Configs, stack' = <<f>> PROVE Rests'
    <3>1. f.step = "look" /\ top' = f
      BY <2>3 DEF Configs, Begin, top
    <3> QED
      BY <2>3, <3>1, HeardFew, TopRests
  <2> QED
    BY <1>2, <2>1, <2>2, <2>3 DEF Start, Resting
<1>3. CASE Packet
  <2>1. stack # <<>> /\ Resting /\ UNCHANGED hosts
    BY <1>3, QuietTop DEF Packet, Resting
  <2>2. ASSUME NEW todo \in Frames, Set(Begin("packet", todo, "same"))
        PROVE  Rests'
    <3>1. top' = Begin("packet", todo, "same")
      BY <2>1, <2>2, SetTop
    <3>2. top'.step = "look" /\ top'.todo = todo
      BY <3>1 DEF Begin
    <3> QED
      BY <3>2, HeardFew, TopRests
  <2> QED
    BY <1>3, <2>1, <2>2, FinalRests DEF Packet
<1>4. CASE Called
  <2>1. stack # <<>> /\ top \in WellFormed /\ top.step = "look" /\ top.todo = <<>>
    BY <1>0, <1>4, TopProperties DEF Called, At
  <2>2. ASSUME NEW p \in {"print", "apply"}, Step(p) PROVE Rests'
    <3>1. PICK f : f = [top EXCEPT !.step = p]
      OBVIOUS
    <3>2. f.step = p /\ f.todo = <<>>
      BY <2>1, <3>1, StepFields
    <3>3. top' = f
      BY <2>1, <2>2, <3>1, SetTop DEF Step
    <3> QED
      BY <3>2, <3>3, HeardFew, TopRests
  <2>3. ASSUME Set(Wait) PROVE Rests'
    <3>1. top' = Wait /\ Wait.step = "look" /\ Wait.todo = <<>>
      BY <2>1, <2>3, SetTop DEF Wait, Begin
    <3> QED
      BY <3>1, HeardFew, TopRests
  <2> QED
    BY <1>4, <2>1, <2>2, <2>3, FinalRests DEF Called, Resting
<1>5. CASE Ended
  <2>1. stack # <<>> /\ Resting /\ UNCHANGED hosts
    BY <1>5, EndedTop DEF Resting
  <2>2. \/ top' = Wait \/ (top'.step = "look" /\ top'.todo \in WlCalls)
        \/ (top'.step = "exit" /\ top'.todo = top.todo)
    BY <1>5, EndedTop
  <2>3. Wait.step = "look" /\ Wait.todo = <<>>
    BY DEF Wait, Begin
  <2>4. AllFew(top.todo)
    BY <2>1 DEF Heeded, Asked, AllFew
  <2>5. Rests'
    BY <2>2, <2>3, <2>4, HeardFew, TopRests
  <2> QED
    BY <2>1, <2>5
<1> QED
  BY <1>2, <1>3, <1>4, <1>5

LEMMA SignalsRest ==
  ASSUME TypeInv, "deferred" \in env, UNCHANGED env, Ask \/ Again \/ Reload
  PROVE  UNCHANGED hosts /\ (UNCHANGED stack \/ (Resting /\ Rests'))
<1> USE DEF hopper
<1>1. ASSUME Quiet, NEW f \in WellFormed, stack' = Append(stack, f),
             f.step = "look", AllFew(f.todo)
      PROVE  Resting /\ Rests'
  <2>1. Resting
    BY <1>1, QuietTop DEF Resting
  <2>2. top' = f
    BY <1>1, AppendTop DEF TypeInv
  <2> QED
    BY <1>1, <2>1, <2>2, TopRests
<1>2. ~Struck /\ \A who \in {"page", "config"} : MayInterrupt(who) => Quiet
  BY DEF Struck, MayInterrupt, Holds
<1>3. CASE Ask \/ Again
  <2>1. ASSUME Quiet, NEW todo \in WlCalls,
               stack' = Append(stack, Begin("page", todo, "same"))
        PROVE  Resting /\ Rests'
    <3>1. Begin("page", todo, "same") \in WellFormed
      BY WlCallsTyped, BeginTyped
    <3>2. Begin("page", todo, "same").step = "look" /\ Begin("page", todo, "same").todo = todo
      BY DEF Begin
    <3>3. AllFew(todo)
      BY HeardFew
    <3> QED
      BY <1>1, <2>1, <3>1, <3>2, <3>3
  <2> QED
    BY <1>2, <1>3, <2>1 DEF Ask, Again, Page, Nothing
<1>4. CASE Reload
  <2>1. Quiet /\ UNCHANGED hosts
    BY <1>2, <1>4 DEF Reload
  <2>2. PICK f \in Configs : stack' = Append(stack, f)
    BY <1>2, <1>4 DEF Reload
  <2>3. f \in WellFormed /\ f.step = "look"
    BY <2>2, ConfigsTyped DEF Configs, Begin
  <2> QED
    BY <1>1, <2>1, <2>2, <2>3, HeardFew
<1> QED
  BY <1>3, <1>4

\* Every step is one of gotHost, or it leaves the hosts where they are, unless it forgets an
\* old one or main ends.
LEMMA StepKinds ==
  ASSUME TypeInv, ShapeInv, Heeded, "deferred" \in env, [Next]_vars, UNCHANGED env
  PROVE  \/ Look \/ Mark \/ Name \/ Exit
         \/ UNCHANGED <<hosts, stack>>
         \/ Resting /\ Rests' /\ (SameHosts \/ PrintHost)
         \/ \E i \in Slot : Age(i)
<1> USE DEF hopper
<1>0. UNCHANGED hosts => SameHosts
  BY DEF SameHosts
<1>1. CASE UNCHANGED vars
  BY <1>1 DEF vars
<1>2. CASE Ask \/ Again \/ Reload
  BY <1>0, <1>2, SignalsRest
<1>3. ASSUME Runs(Start \/ Packet \/ Main \/ Tick \/ \E i \in Slot : Age(i)), ~Leave
      PROVE  \/ Look \/ Mark \/ Name \/ Exit
             \/ UNCHANGED <<hosts, stack>>
             \/ Resting /\ Rests' /\ (SameHosts \/ PrintHost)
             \/ \E i \in Slot : Age(i)
  <2>1. CASE GotHost \/ PrintHost
    BY <2>1, GotHostRests DEF GotHost
  <2>2. CASE (Unread \/ Apply \/ Fork \/ Note) /\ UNCHANGED hosts
    BY <1>0, <2>2, HopperRests
  <2>5. CASE Overrun /\ UNCHANGED hosts
    BY <2>5 DEF Overrun
  <2>3. CASE Start \/ Packet \/ Called \/ Ended
    BY <1>0, <2>3, MainRests
  <2>4. CASE Tick
    BY <2>4 DEF Tick
  <2> QED
    BY <1>3, <2>1, <2>2, <2>3, <2>4, <2>5 DEF Runs, Main
<1> QED
  BY <1>1, <1>2, <1>3 DEF Next, Leave

LEMMA EnvKept == ASSUME [Next]_vars PROVE UNCHANGED env
BY DEF Next, Runs, vars

LEMMA TableExit == ASSUME Exit PROVE TableInv'
BY DEF Exit, TableInv, Fresh, Asked, Placed, Aimed, NoHost

LEMMA TableStep ==
  ASSUME IsFiniteSet(Few), Cardinality(Few) <= MaxProbes + 1,
         TypeInv, ShapeInv, TableInv, [Next]_vars
  PROVE  TableInv'
<1> SUFFICES ASSUME Steady PROVE TableInv'
  BY EnvKept DEF TableInv, Steady
<1>1. Fresh /\ Asked /\ UNCHANGED env
  BY EnvKept DEF TableInv
<1>2. CASE Look \/ Mark \/ Name
  BY <1>1, <1>2, TableLook, TableMark, TableName
<1>3. CASE UNCHANGED <<hosts, stack>>
  BY <1>1, <1>3 DEF TableInv, Steady, Fresh, Asked, Placed, Aimed, Aim, Place, top, call
<1>7. "deferred" \in env /\ "few" \in env /\ "few" \in env' /\ Heeded
  BY <1>1 DEF Steady, Heeded
<1>4. CASE Resting /\ Rests' /\ SameHosts
  BY <1>1, <1>4, <1>7, TableKept DEF Rests, Heeded, SameHosts
<1>5. CASE Resting /\ Rests' /\ PrintHost
  <2>1. UNCHANGED hosts
    BY <1>1, <1>5 DEF PrintHost, Expires, Fresh
  <2> QED
    BY <1>1, <1>5, <1>7, <2>1, TableKept DEF Rests, Heeded
<1>6. ASSUME NEW i \in Slot, Age(i) PROVE TableInv'
  BY <1>6 DEF Age, Holds, Steady
<1> QED
  BY <1>1, <1>2, <1>3, <1>4, <1>5, <1>6, <1>7, TableExit, StepKinds

\* No two slots are left for a host, and the one there is is the one that is found.
LEMMA TableImplies == TypeInv /\ TableInv => OneSlot
<1> SUFFICES ASSUME TypeInv, Fresh, Placed, NEW m \in Mac
             PROVE /\ Cardinality(Occupied(m)) <= 1
                   /\ (stack = <<Wait>> /\ Occupied(m) # {}) => Reachable(m)
  BY DEF OneSlot, TableInv, Steady
<1>1. \A i \in Occupied(m) : /\ i \in Slot /\ hosts[i].occupied /\ hosts[i].mac = m
                             /\ m \in Few /\ Place(m, i)
  BY NullAssumption DEF Occupied, Placed
<1>2. \A i, j \in Occupied(m) : i = j
  BY <1>1, OnePlace
<1>3. Occupied(m) = {} \/ \E i : Occupied(m) = {i}
  BY <1>2
<1>4. Cardinality(Occupied(m)) <= 1
  <2>1. Cardinality({}) = 0 /\ \A i : Cardinality({i}) = 1
    BY FS_EmptySet, FS_Singleton
  <2>2. Cardinality(Occupied(m)) \in {0, 1}
    BY <1>3, <2>1
  <2> QED
    BY <2>2
<1>5. ASSUME NEW i \in Occupied(m) PROVE Reachable(m)
  <2>1. PICK c \in 0 .. MaxProbes :
          /\ i = Probe(m, c)
          /\ \A d \in 0 .. c - 1 : hosts[Probe(m, d)].occupied /\ hosts[Probe(m, d)].mac # m
    BY <1>1 DEF Place
  <2>2. Ends(m, c) /\ \A d \in 0 .. c - 1 : ~Ends(m, d)
    <3>1. \A d \in 0 .. c - 1 : ~(d > MaxProbes)
      BY Probes
    <3> QED
      BY <1>1, <2>1, <3>1 DEF Ends
  <2>3. Found(m) = i
    BY <2>1, <2>2, FoundIs
  <2> QED
    BY <1>1, <2>3 DEF Reachable
<1> QED
  BY <1>4, <1>5

-----------------------------------------------------------------------------
(* Who is forgotten: the old, and those another host leaves no choice.       *)

\* The slot that gotHost takes is free, or the host's own, unless all it tries are taken.
Harmless ==
  stack # <<>> /\ top.step = "mark" /\ hosts[top.slot].occupied =>
    hosts[top.slot].mac = call.mac \/ Crowded(call.mac)
KeepInv == "deferred" \in env => Heeded /\ Harmless

LEMMA KeepInit == Init => KeepInv
BY DEF Init, KeepInv, Heeded, Asked, Harmless

LEMMA FoundHarmless ==
  ASSUME NEW m \in Mac, hosts[Found(m)].occupied, hosts[Found(m)].mac # m
  PROVE  Crowded(m)
<1> SUFFICES ASSUME NEW c \in 0 .. MaxProbes, Ends(m, c) PROVE FALSE
  BY DEF Crowded, Ends
<1> DEFINE T == {d \in 0 .. MaxProbes : Ends(m, d)}
<1>1. T \subseteq Nat /\ T # {}
  BY Probes
<1>2. PICK e \in T : \A d \in T : ~(d < e)
  BY <1>1, LeastNatural
<1>3. e \in 0 .. MaxProbes /\ Ends(m, e) /\ \A d \in 0 .. e - 1 : ~Ends(m, d)
  BY <1>2, Probes
<1>4. Found(m) = Probe(m, e) /\ ~(e > MaxProbes)
  BY <1>3, FoundIs, Probes
<1> QED
  BY <1>3, <1>4 DEF Ends

LEMMA KeepLook == ASSUME TypeInv, Heeded, Look, UNCHANGED env PROVE Heeded' /\ Harmless'
<1>1. stack # <<>> /\ top \in WellFormed /\ top.step = "look" /\ top.todo # <<>>
  BY TopProperties DEF Look, At, TypeInv
<1>2. call.mac \in Mac
  <2>1. call \in Call
    BY <1>1, FrameFields DEF call
  <2> QED
    BY <2>1 DEF Call
<1>3. PICK i \in Slot : i = Found(call.mac)
  BY <1>2, FoundInSlot
<1> DEFINE f == [top EXCEPT !.step = "mark", !.slot = i]
<1>4. f.step = "mark" /\ f.slot = i /\ f.todo = top.todo
  BY <1>1, MarkGoes
<1>5. Set(f)
  BY <1>3 DEF Look
<1> HIDE DEF f
<1>6. stack' # <<>> /\ top'.step = "mark" /\ top'.slot = i /\ top'.todo = top.todo
  BY <1>1, <1>4, <1>5, SetTop
<1>7. call' = call /\ UNCHANGED hosts
  BY <1>6 DEF call, Look
<1>8. Heeded'
  BY <1>1, <1>6 DEF Heeded, Asked
<1>9. Crowded(call.mac) => Crowded(call.mac)'
  BY <1>7 DEF Crowded, Probe
<1>10. hosts[i].occupied => hosts[i].mac = call.mac \/ Crowded(call.mac)
  BY <1>2, <1>3, FoundHarmless
<1>11. Harmless'
  BY <1>6, <1>7, <1>9, <1>10 DEF Harmless
<1> QED
  BY <1>8, <1>11

LEMMA KeepFill ==
  ASSUME TypeInv, Heeded, Mark \/ Name, UNCHANGED env PROVE Heeded' /\ Harmless'
<1>1. stack # <<>> /\ top \in WellFormed /\ top.step \in {"mark", "name"}
  BY TopProperties DEF Mark, Name, At, TypeInv
<1>2. PICK p \in {"name", "info"} : Step(p)
  BY DEF Mark, Name
<1>3. PICK f : f = [top EXCEPT !.step = p]
  OBVIOUS
<1>4. f.step = p /\ f.todo = top.todo
  BY <1>1, <1>3, StepFields
<1>5. stack' # <<>> /\ top' = f
  BY <1>1, <1>2, <1>3, SetTop DEF Step
<1> QED
  BY <1>1, <1>4, <1>5 DEF Heeded, Asked, Harmless

LEMMA KeepStep == TypeInv /\ ShapeInv /\ KeepInv /\ [Next]_vars => KeepInv'
<1> SUFFICES ASSUME TypeInv, ShapeInv, KeepInv, [Next]_vars, "deferred" \in env
             PROVE  Heeded' /\ Harmless'
  BY EnvKept DEF KeepInv
<1>1. Heeded /\ Harmless /\ UNCHANGED env
  BY EnvKept DEF KeepInv
<1>2. CASE Look \/ Mark \/ Name
  BY <1>1, <1>2, KeepLook, KeepFill
<1>3. CASE Exit
  BY <1>3 DEF Exit, Heeded, Asked, Harmless
<1>4. CASE UNCHANGED <<hosts, stack>>
  BY <1>1, <1>4 DEF Heeded, Asked, Harmless, Crowded, Probe, top, call
<1>5. CASE Rests'
  BY <1>5 DEF Harmless, Rests, Resting
<1>6. ASSUME NEW i \in Slot, Age(i) PROVE Heeded' /\ Harmless'
  <2>1. Resting /\ UNCHANGED stack
    BY <1>6, QuietTop DEF Age, Resting
  <2> QED
    BY <1>1, <2>1 DEF Heeded, Resting, Asked, Harmless, top
<1> QED
  BY <1>1, <1>2, <1>3, <1>4, <1>5, <1>6, StepKinds

\* Only the activity on top may be filling a slot.
LEMMA TopFills ==
  ASSUME NEW s \in Seq(WellFormed), Len(s) <= 2, Len(s) = 2 => s[1] = Wait,
         NEW k \in 1 .. Len(s), s[k].step = "name"
  PROVE  s # <<>> /\ k = Len(s)
<1>1. Len(s) \in Nat /\ k \in Int /\ 1 <= k /\ k <= Len(s)
  BY LenProperties
<1>2. s # <<>>
  BY <1>1, EmptySeq
<1>3. Wait.step = "look"
  BY DEF Wait, Begin
<1>4. ASSUME k # Len(s) PROVE FALSE
  <2> DEFINE n == Len(s)
  <2>1. n \in Nat /\ n <= 2 /\ 1 <= k /\ k <= n /\ k # n
    BY <1>1, <1>4
  <2>2. k = 1 /\ n = 2
    <3> HIDE DEF n
    <3> QED
      BY <1>1, <2>1
  <2> QED
    BY <1>3, <2>2
<1> QED
  BY <1>2, <1>4

LEMMA FillsIs ==
  ASSUME NEW s \in Seq(WellFormed), Len(s) <= 2, Len(s) = 2 => s[1] = Wait, NEW i, NEW m
  PROVE  (\A k \in 1 .. Len(s) : s[k].step = "name" /\ s[k].slot = i => Head(s[k].todo).mac = m)
         <=> (s # <<>> /\ s[Len(s)].step = "name" /\ s[Len(s)].slot = i
                => Head(s[Len(s)].todo).mac = m)
<1>1. s # <<>> => Len(s) \in 1 .. Len(s)
  BY EmptySeq, LenProperties
<1> QED
  BY <1>1, TopFills

\* The slots of a host, by the one activity that may be filling one.
SureIn(i, m) == /\ i \in Slot /\ hosts[i].occupied /\ hosts[i].mac = m
                /\ stack # <<>> /\ top.step = "name" /\ top.slot = i => call.mac = m
LEMMA OccupiedIs ==
  ASSUME TypeInv, ShapeInv, "deferred" \in env, NEW m, NEW i
  PROVE  i \in Occupied(m) <=> SureIn(i, m)
<1>1. stack \in Seq(WellFormed) /\ Len(stack) <= 2 /\ (Len(stack) = 2 => stack[1] = Wait)
  BY DEF TypeInv, ShapeInv
<1>2. (\A k \in 1 .. Len(stack) :
         stack[k].step = "name" /\ stack[k].slot = i => Head(stack[k].todo).mac = m)
      <=> (stack # <<>> /\ top.step = "name" /\ top.slot = i => call.mac = m)
  BY <1>1, FillsIs DEF top, call
<1> QED
  BY <1>2 DEF Occupied, SureIn
LEMMA OccupiedNext ==
  ASSUME TypeInv', ShapeInv', "deferred" \in env', NEW m \in Mac, NEW i \in Slot, SureIn(i, m)'
  PROVE  i \in Occupied(m)'
<1>1. stack' \in Seq(WellFormed) /\ Len(stack') <= 2 /\ (Len(stack') = 2 => stack'[1] = Wait)
  BY DEF TypeInv, ShapeInv
<1>2. (\A k \in 1 .. Len(stack') :
         stack'[k].step = "name" /\ stack'[k].slot = i => Head(stack'[k].todo).mac = m)
      <=> (stack' # <<>> /\ top'.step = "name" /\ top'.slot = i => call'.mac = m)
  BY <1>1, FillsIs DEF top, call
<1> QED
  BY <1>2 DEF Occupied, SureIn

\* What the steps of gotHost make of the activity on top.
LEMMA LookTop == ASSUME TypeInv, Look PROVE top'.step # "name"
<1>1. stack # <<>> /\ top \in WellFormed /\ top.todo # <<>> /\ top.step = "look"
  BY TopProperties DEF Look, At, TypeInv
<1>2. PICK i : i = Found(call.mac)
  OBVIOUS
<1> DEFINE f == [top EXCEPT !.step = "mark", !.slot = i]
<1>3. f.step = "mark"
  BY <1>1, MarkGoes
<1>4. Set(f)
  BY <1>2 DEF Look
<1> HIDE DEF f
<1> QED
  BY <1>1, <1>3, <1>4, SetTop
LEMMA FillTop ==
  ASSUME TypeInv, Mark \/ Name
  PROVE  /\ top.slot \in Slot /\ top'.slot = top.slot /\ call' = call
         /\ Mark => top'.step = "name"
         /\ Name => top'.step = "info"
<1>1. /\ stack # <<>> /\ top \in WellFormed /\ top.step \in {"mark", "name"}
      /\ top.slot \in Slot /\ top.todo # <<>>
  BY TopProperties, FrameFields DEF Mark, Name, At, TypeInv, InCall
<1>2. ASSUME NEW p \in {"name", "info"}, Step(p)
      PROVE  top'.step = p /\ top'.slot = top.slot /\ top'.todo = top.todo
  <2>1. PICK f : f = [top EXCEPT !.step = p]
    OBVIOUS
  <2>2. f.step = p /\ f.slot = top.slot /\ f.todo = top.todo
    BY <1>1, <2>1, StepFields
  <2>3. top' = f
    BY <1>1, <1>2, <2>1, SetTop DEF Step
  <2> QED
    BY <2>2, <2>3
<1>3. (Mark => Step("name")) /\ (Name => Step("info"))
  BY DEF Mark, Name
<1> QED
  BY <1>1, <1>2, <1>3 DEF call

\* The step of NotForgotten.
Forgets ==
  Holds("deferred") /\ life' # "off" =>
    \A m \in Mac : Occupied(m) # {} /\ Occupied(m)' = {} =>
      \/ At("print") /\ \E i \in Occupied(m) : hosts[i].old
      \/ At("mark") /\ top.slot \in Occupied(m) /\ Crowded(call.mac)
LEMMA ForgetStep ==
  ASSUME TypeInv, ShapeInv, KeepInv, TypeInv', ShapeInv', [Next]_vars
  PROVE  Forgets
<1> SUFFICES ASSUME "deferred" \in env, life' # "off", NEW m \in Mac,
                    NEW i \in Occupied(m)
             PROVE  \/ \E j \in Slot : j \in Occupied(m)'
                    \/ At("print") /\ hosts[i].old
                    \/ At("mark") /\ top.slot = i /\ Crowded(call.mac)
  BY DEF Forgets, Holds
<1>1. Heeded /\ Harmless /\ "deferred" \in env' /\ UNCHANGED env
  BY EnvKept DEF KeepInv
<1>2. SureIn(i, m)
  BY OccupiedIs
<1>3. \A j \in Slot : SureIn(j, m)' => j \in Occupied(m)'
  BY <1>1, OccupiedNext
<1>4. i \in Slot /\ hosts[i].occupied /\ hosts[i].mac = m
  BY <1>2 DEF SureIn
<1>5. CASE Look
  <2>1. stack # <<>> /\ top.step = "look" /\ UNCHANGED hosts
    BY <1>5 DEF Look, At
  <2>2. top'.step # "name"
    BY <1>5, LookTop
  <2>3. SureIn(i, m)'
    BY <1>4, <2>1, <2>2 DEF SureIn
  <2> QED
    BY <1>3, <1>4, <2>3
<1>6. CASE Mark
  <2>1. stack # <<>> /\ top.step = "mark" /\ top.slot \in Slot
    BY <1>6, FillTop DEF Mark, At
  <2>2. top'.step = "name" /\ top'.slot = top.slot /\ call' = call
    BY <1>6, FillTop
  <2>3. \A j \in Slot : hosts'[j].mac = hosts[j].mac /\ (hosts[j].occupied => hosts'[j].occupied)
    BY <1>6, <2>1 DEF Mark, TypeInv, TypeOK, Host
  <2>4. \A j \in Slot : hosts[j].occupied /\ hosts[j].mac = m /\ (j = top.slot => call.mac = m)
                         => SureIn(j, m)'
    BY <2>2, <2>3 DEF SureIn
  <2>5. CASE i # top.slot \/ call.mac = m
    BY <1>3, <1>4, <2>4, <2>5
  <2>6. CASE i = top.slot /\ call.mac # m
    <3>1. Crowded(call.mac)
      BY <1>1, <1>4, <2>1, <2>6 DEF Harmless
    <3> QED
      BY <1>6, <2>6, <3>1 DEF Mark
  <2> QED
    BY <2>5, <2>6
<1>7. CASE Name
  <2>1. stack # <<>> /\ top.step = "name" /\ top.slot \in Slot
    BY <1>7, FillTop DEF Name, At
  <2>2. top'.step = "info"
    BY <1>7, FillTop
  <2>3. \A j \in Slot : /\ hosts'[j].occupied = hosts[j].occupied
                         /\ hosts'[j].mac = (IF j = top.slot THEN call.mac ELSE hosts[j].mac)
    BY <1>7, <2>1 DEF Name, TypeInv, TypeOK, Host
  <2>4. SureIn(i, m)'
    BY <1>2, <1>4, <2>1, <2>2, <2>3 DEF SureIn
  <2> QED
    BY <1>3, <1>4, <2>4
<1>8. CASE Exit
  BY <1>8 DEF Exit
<1>9. CASE UNCHANGED <<hosts, stack>>
  <2>1. SureIn(i, m)'
    BY <1>2, <1>9 DEF SureIn, top, call
  <2> QED
    BY <1>3, <1>4, <2>1
<1>10. CASE Resting /\ Rests' /\ SameHosts
  <2>1. SureIn(i, m)'
    BY <1>4, <1>10 DEF SureIn, SameHosts, Rests, Resting
  <2> QED
    BY <1>3, <1>4, <2>1
<1>11. CASE Resting /\ Rests' /\ PrintHost
  <2>1. CASE hosts'[i] = hosts[i]
    <3>1. SureIn(i, m)'
      BY <1>4, <1>11, <2>1 DEF SureIn, Rests, Resting
    <3> QED
      BY <1>3, <1>4, <3>1
  <2>2. CASE hosts'[i] # hosts[i]
    <3>1. i = top.slot /\ Expires(hosts[top.slot])
      BY <1>4, <1>11, <2>2 DEF PrintHost, TypeInv, TypeOK
    <3> QED
      BY <1>11, <3>1 DEF PrintHost, Expires
  <2> QED
    BY <2>1, <2>2
<1>12. CASE \E j \in Slot : Age(j)
  <2>1. Resting /\ UNCHANGED stack
    BY <1>12, QuietTop DEF Age, Resting
  <2>2. hosts'[i].occupied /\ hosts'[i].mac = m
    BY <1>4, <1>12 DEF Age, TypeInv, TypeOK, Host
  <2>3. SureIn(i, m)'
    BY <1>4, <2>1, <2>2 DEF SureIn, Resting, top
  <2> QED
    BY <1>3, <1>4, <2>3
<1> QED
  BY <1>1, <1>5, <1>6, <1>7, <1>8, <1>9, <1>10, <1>11, <1>12, StepKinds

-----------------------------------------------------------------------------
(* Theorems                                                                *)

\* The inductive invariant, for a table of any size, any addresses and any number of signals.
THEOREM InvariantHolds == Spec => [](TypeInv /\ ShapeInv /\ InfoInv /\ HopperInv)
<1>1. Init => TypeInv /\ ShapeInv /\ InfoInv /\ HopperInv
  <2>1. Init => ShapeInv
    BY DEF Init, ShapeInv
  <2> QED
    BY <2>1, TypeInit, InfoInit, HopperInit
<1>2. TypeInv /\ ShapeInv /\ InfoInv /\ HopperInv /\ [Next]_vars
        => (TypeInv /\ ShapeInv /\ InfoInv /\ HopperInv)'
  BY TypeStep, ShapeStep, InfoStep, HopperStep
<1> QED
  BY <1>1, <1>2, PTL DEF Spec

\* Every variable of the daemon has its type, also when handlers interrupt one another: a
\* slot that gotHost finds is one of the table.
THEOREM TypeCorrect == Spec => []TypeOK
<1>1. TypeInv => TypeOK
  BY DEF TypeInv
<1> QED
  BY <1>1, InvariantHolds, PTL

\* print_host and the callers of gotHost follow no pointer of a slot that is not there, for
\* any hash function and any number of hosts, under "deferred": if signals arrive between the
\* packets only.  The code masks none, so that this is an assumption on when they are sent.
THEOREM PrintableCorrect == Spec => []Printable
<1>1. InfoInv => Printable
  BY DEF InfoInv, Printable
<1> QED
  BY <1>1, InvariantHolds, PTL

\* Under "deferred" and "short", whether fork succeeds or not: channelHopperPID names the one
\* hopper that runs; none is left when main ends, if the capture device could be opened.
THEOREM OneHopperCorrect == Spec => []OneHopper
BY HopperImplies, InvariantHolds, PTL

\* gotHost: as long as no more hosts are heard than it tries slots, and none is forgotten,
\* a host is in one slot and is found there, for any table and any hash function.
THEOREM OneSlotCorrect ==
  ASSUME IsFiniteSet(Few), Cardinality(Few) <= MaxProbes + 1
  PROVE  Spec => []OneSlot
<1>1. Init => TableInv
  BY TableInit
<1>2. TypeInv /\ ShapeInv /\ TableInv /\ [Next]_vars => TableInv'
  BY TableStep
<1>3. TypeInv /\ TableInv => OneSlot
  BY TableImplies
<1> QED
  BY <1>1, <1>2, <1>3, InvariantHolds, PTL DEF Spec

\* gotHost and print_host, as long as signals arrive between the packets: for any table, any
\* hash function and any number of hosts, a host leaves the table only when it is old and a
\* page is written, when all the slots tried for another host are taken, or when main ends.
\* (One that has been forgotten and is heard again may get a second and a third slot.)
THEOREM NotForgottenCorrect == Spec => NotForgotten
<1>1. Init => KeepInv
  BY KeepInit
<1>2. TypeInv /\ ShapeInv /\ KeepInv /\ [Next]_vars => KeepInv'
  BY KeepStep
<1>3. TypeInv /\ ShapeInv /\ KeepInv /\ TypeInv' /\ ShapeInv' /\ [Next]_vars => [Forgets]_vars
  BY ForgetStep
<1>4. [Forgets]_vars =>
        [Holds("deferred") /\ life' # "off" =>
           \A m \in Mac : Occupied(m) # {} /\ Occupied(m)' = {} =>
             \/ At("print") /\ \E i \in Occupied(m) : hosts[i].old
             \/ At("mark") /\ top.slot \in Occupied(m) /\ Crowded(call.mac)]_vars
  BY DEF Forgets
<1> QED
  BY <1>1, <1>2, <1>3, <1>4, InvariantHolds, PTL DEF Spec, NotForgotten
==============================================================================
