-------------------------- MODULE RpcFramingProofs --------------------------
(***************************************************************************)
(* Proofs about RpcFraming, for every size of the buffer and the header    *)
(* and any number of packets.                                              *)
(***************************************************************************)
EXTENDS RpcFraming, SequenceTheorems, TLAPS

USE SizeAssumption, PacketAssumption DEF PREFIX, BODY

Units == [pkt : Nat, pos : Nat, len : Nat, ends : BOOLEAN]

\* What the variables hold.
TypeInv ==
  /\ pipe \in Seq(Units)
  /\ here \in 0..Len(pipe)
  /\ sent \in Nat /\ waiting \in Nat
  /\ at \in {"prefix", "body", "handle"}
  /\ length \in Nat
  /\ buffer \in [1..BODY -> Units]

LEMMA LengthsType == Lengths \subseteq Nat
BY DEF Lengths

LEMMA PacketType ==
  ASSUME NEW n \in Nat, NEW len \in Nat, NEW e \in BOOLEAN
  PROVE  /\ Packet(n, len, e) \in Seq(Units)
         /\ Len(Packet(n, len, e)) = PREFIX + len
         /\ \A i \in 1..PREFIX + len : Packet(n, len, e)[i] = Unit(n, i, len, e)
<1>1. \A i \in 1..PREFIX + len : Unit(n, i, len, e) \in Units
  BY DEF Unit, Units
<1> QED BY <1>1 DEF Packet

LEMMA SendCallType ==
  ASSUME TypeInv, SendCall
  PROVE  TypeInv'
<1>1. PICK len \in Lengths, e \in BOOLEAN : pipe' = pipe \o Packet(sent', len, e)
  BY DEF SendCall
<1>2. sent' \in Nat /\ waiting' \in Nat /\ UNCHANGED <<here, at, length, buffer>>
  BY DEF SendCall, TypeInv
<1>3. Packet(sent', len, e) \in Seq(Units)
  BY <1>2, PacketType, LengthsType
<1>4. pipe' \in Seq(Units) /\ Len(pipe') >= Len(pipe)
  BY <1>1, <1>3, ConcatProperties DEF TypeInv
<1> QED BY <1>2, <1>4 DEF TypeInv

LEMMA TakeType ==
  ASSUME TypeInv, NEW n \in 0..here, Take(n)
  PROVE  pipe' \in Seq(Units) /\ here' \in 0..Len(pipe')
BY DEF TypeInv, Take

LEMMA ReadPrefixType ==
  ASSUME TypeInv, ReadPrefix
  PROVE  TypeInv'
<1>1. pipe' \in Seq(Units) /\ here' \in 0..Len(pipe')
  BY TakeType DEF ReadPrefix, TypeInv
<1>2. pipe[1] \in Units /\ pipe[2] \in Units
  BY DEF ReadPrefix, TypeInv
<1>3. length' \in Nat
  <2>1. length' \in LengthOf(pipe[1], pipe[2])
    BY DEF ReadPrefix
  <2>2. pipe[1].len \in Nat
    BY <1>2 DEF Units
  <2>3. length' \in {pipe[1].len} \/ length' \in {0} \cup Lengths
    BY <2>1 DEF LengthOf
  <2>4. CASE length' \in {0} \cup Lengths
    BY <2>4, LengthsType
  <2> QED BY <2>2, <2>3, <2>4
<1>4. at' \in {"prefix", "body", "handle"} /\ UNCHANGED <<sent, waiting, buffer>>
  BY DEF ReadPrefix, After
<1> QED BY <1>1, <1>3, <1>4 DEF TypeInv

LEMMA PrefixTimeoutType ==
  ASSUME TypeInv, PrefixTimeout
  PROVE  TypeInv'
<1>1. pipe' \in Seq(Units) /\ here' \in 0..Len(pipe')
  BY TakeType DEF PrefixTimeout, TypeInv
<1>2. length' \in Nat
  BY DEF PrefixTimeout, LengthUnread
<1>3. at' \in {"prefix", "body", "handle"} /\ UNCHANGED <<sent, waiting, buffer>>
  BY DEF PrefixTimeout, After
<1> QED BY <1>1, <1>2, <1>3 DEF TypeInv

LEMMA ReadBodyType ==
  ASSUME TypeInv, ReadBody
  PROVE  TypeInv'
<1>1. PICK n \in 0..Clamped(length) :
        /\ n <= here /\ n <= BODY /\ Take(n)
        /\ buffer' = [i \in 1..BODY |-> IF i <= n THEN pipe[i] ELSE buffer[i]]
  BY DEF ReadBody, Clamped, TypeInv
<1>2. n \in 0..here
  BY <1>1 DEF TypeInv, Clamped
<1>3. pipe' \in Seq(Units) /\ here' \in 0..Len(pipe')
  BY <1>1, <1>2, TakeType
<1>4. \A i \in 1..n : pipe[i] \in Units
  BY <1>1, <1>2 DEF TypeInv
<1>5. buffer' \in [1..BODY -> Units]
  BY <1>1, <1>2, <1>4 DEF TypeInv
<1> QED BY <1>3, <1>5 DEF ReadBody, TypeInv

LEMMA HandleType ==
  ASSUME TypeInv, Handle
  PROVE  TypeInv'
<1>1. waiting' \in Nat
  BY DEF Handle, Unanswered, TypeInv
<1>2. \/ pipe' = <<>> /\ here' = 0
      \/ UNCHANGED <<pipe, here>>
  BY DEF Handle
<1>3. pipe' \in Seq(Units) /\ here' \in 0..Len(pipe')
  <2>1. CASE pipe' = <<>> /\ here' = 0
    <3>1. <<>> \in Seq(Units) /\ Len(<<>>) = 0
      OBVIOUS
    <3> QED BY <2>1, <3>1
  <2>2. CASE UNCHANGED <<pipe, here>>
    BY <2>2 DEF TypeInv
  <2> QED BY <1>2, <2>1, <2>2
<1> QED BY <1>1, <1>3 DEF Handle, TypeInv

LEMMA InitType == Init => TypeInv
<1>1. Blank \in Units
  BY DEF Blank, Unit, Units
<1>2. <<>> \in Seq(Units) /\ Len(<<>>) = 0
  OBVIOUS
<1> QED BY <1>1, <1>2 DEF Init, TypeInv

LEMMA NextType == TypeInv /\ [Next]_vars => TypeInv'
<1> SUFFICES ASSUME TypeInv, [Next]_vars PROVE TypeInv'
  OBVIOUS
<1>1. CASE UNCHANGED vars
  BY <1>1 DEF vars, TypeInv
<1>2. CASE Arrive
  BY <1>2 DEF Arrive, TypeInv
<1> QED BY <1>1, <1>2, SendCallType, ReadPrefixType, PrefixTimeoutType, ReadBodyType, HandleType
        DEF Next, loop

LEMMA TypeInvariant == Spec => []TypeInv
BY InitType, NextType, PTL DEF Spec

-----------------------------------------------------------------------------
(* The packet awaited, while nothing has strayed *)

\* What is in the pipe is the awaited packet from its unit k + 1 on.
Holds(k, len, e) ==
  /\ Len(pipe) = PREFIX + len - k
  /\ \A i \in 1..Len(pipe) : pipe[i] = Unit(waiting, k + i, len, e)

PrefixInStep == \/ waiting = 0 /\ Len(pipe) = 0
                \/ waiting # 0 /\ \E len \in Regular, e \in BOOLEAN : Holds(0, len, e)
BodyInStep   == /\ waiting # 0 /\ length \in Regular
                /\ \E e \in BOOLEAN : Holds(PREFIX, length, e)
HandleInStep == /\ waiting # 0 /\ Len(pipe) = 0 /\ length \in Regular
                /\ \A i \in 1..length :
                     buffer[i] = Unit(waiting, PREFIX + i, length, buffer[1].ends)

InStepInv == sound => /\ at = "prefix" => PrefixInStep
                      /\ at = "body"   => BodyInStep
                      /\ at = "handle" => HandleInStep

LEMMA SendCallInStep ==
  ASSUME TypeInv, InStepInv, SendCall, sound'
  PROVE  InStepInv'
<1>1. PICK len \in Lengths, e \in BOOLEAN :
        /\ pipe' = pipe \o Packet(sent', len, e)
        /\ sound' = (sound /\ len \in Regular)
  BY DEF SendCall
<1>2. sound /\ len \in Regular
  BY <1>1
<1>3. waiting = 0 /\ sent' \in Nat /\ sent' # 0 /\ waiting' = sent' /\ UNCHANGED <<at, length, buffer>>
  BY <1>2 DEF SendCall, TypeInv
<1>4. at = "prefix" /\ Len(pipe) = 0
  BY <1>2, <1>3 DEF InStepInv, PrefixInStep, BodyInStep, HandleInStep, TypeInv
<1>5. Packet(sent', len, e) \in Seq(Units)
  BY <1>1, <1>3, PacketType, LengthsType
<1>6. pipe' = Packet(sent', len, e)
  BY <1>1, <1>4, <1>5, EmptySeq, ConcatEmptySeq DEF TypeInv
<1>7. Len(pipe') = PREFIX + len /\ \A i \in 1..Len(pipe') : pipe'[i] = Unit(sent', i, len, e)
  <2> DEFINE P == Packet(sent', len, e)
  <2>1. len \in Nat
    BY LengthsType
  <2>2. Len(P) = PREFIX + len /\ \A i \in 1..PREFIX + len : P[i] = Unit(sent', i, len, e)
    BY <1>3, <2>1, PacketType
  <2>3. pipe' = P
    BY <1>6
  <2> HIDE DEF P
  <2> QED BY <2>2, <2>3
<1>8. (Holds(0, len, e))'
  BY <1>3, <1>7, LengthsType DEF Holds
<1> QED BY <1>2, <1>3, <1>4, <1>8 DEF InStepInv, PrefixInStep

LEMMA ReadPrefixInStep ==
  ASSUME TypeInv, InStepInv, ReadPrefix, sound'
  PROVE  InStepInv'
<1>1. /\ sound /\ at = "prefix" /\ here >= 2 /\ UNCHANGED <<waiting, buffer>>
      /\ length' \in LengthOf(pipe[1], pipe[2]) /\ at' = After(length')
      /\ pipe' = SubSeq(pipe, 3, Len(pipe))
  BY DEF ReadPrefix, Take
<1>2. Len(pipe) >= 2 /\ pipe \in Seq(Units)
  BY <1>1 DEF TypeInv
<1>3. waiting # 0
  BY <1>1, <1>2 DEF InStepInv, PrefixInStep
<1>4. PICK len \in Regular, e \in BOOLEAN : Holds(0, len, e)
  BY <1>1, <1>3 DEF InStepInv, PrefixInStep
<1>5. len \in Nat /\ len > PREFIX
  BY DEF Regular
<1>6. /\ Len(pipe) = PREFIX + len
      /\ \A i \in 1..Len(pipe) : pipe[i] = Unit(waiting, i, len, e)
  BY <1>4, <1>5 DEF Holds
<1>7. length' = len
  <2>1. pipe[1] = Unit(waiting, 1, len, e) /\ pipe[2] = Unit(waiting, 2, len, e)
    BY <1>2, <1>6
  <2>2. LengthOf(pipe[1], pipe[2]) = {len}
    BY <2>1 DEF LengthOf, Unit
  <2> QED BY <1>1, <2>2
<1>8. at' = "body"
  BY <1>1, <1>5, <1>7 DEF After
<1>9. (Holds(PREFIX, len, e))'
  <2>1. Len(pipe') = len /\ \A i \in 1..Len(pipe') : pipe'[i] = pipe[i + 2]
    BY <1>1, <1>2, <1>5, <1>6
  <2>2. \A i \in 1..Len(pipe') : pipe'[i] = Unit(waiting, 2 + i, len, e)
    BY <1>2, <1>5, <1>6, <2>1
  <2>3. waiting' = waiting /\ PREFIX + len - PREFIX = len
    BY <1>1, <1>5
  <2> QED BY <2>1, <2>2, <2>3 DEF Holds
<1> QED BY <1>1, <1>3, <1>7, <1>8, <1>9 DEF InStepInv, BodyInStep

LEMMA PrefixTimeoutInStep ==
  ASSUME TypeInv, InStepInv, PrefixTimeout, sound'
  PROVE  InStepInv'
<1>1. sound /\ here = Len(pipe) /\ here < PREFIX /\ at = "prefix"
  <2>1. TimedOut /\ here < PREFIX /\ at = "prefix"
    BY DEF PrefixTimeout
  <2>2. sound /\ ~(here < Len(pipe))
    BY <2>1, Zenon DEF TimedOut
  <2> QED BY <2>1, <2>2 DEF TypeInv
<1>2. Len(pipe) = 0 /\ waiting = 0
  BY <1>1 DEF InStepInv, PrefixInStep, Holds, Regular
<1>3. length' = 0 /\ at' = "prefix"
  BY <1>1, <1>2 DEF PrefixTimeout, LengthUnread, After
<1>4. Len(pipe') = 0 /\ waiting' = 0
  BY <1>1, <1>2 DEF PrefixTimeout, Take, TypeInv
<1> QED BY <1>3, <1>4 DEF InStepInv, PrefixInStep

LEMMA ReadBodyInStep ==
  ASSUME TypeInv, InStepInv, ReadBody, sound'
  PROVE  InStepInv'
<1>1. PICK n \in 0..Clamped(length) :
        /\ \/ n = Clamped(length) /\ n <= here /\ UNCHANGED sound
           \/ n < Clamped(length) /\ n = here /\ TimedOut
        /\ buffer' = [i \in 1..BODY |-> IF i <= n THEN pipe[i] ELSE buffer[i]]
        /\ Take(n)
  BY DEF ReadBody
<1>2. at = "body" /\ at' = "handle" /\ UNCHANGED <<waiting, length>>
  BY DEF ReadBody
<1>3. sound
  BY <1>1 DEF TimedOut
<1>4. waiting # 0 /\ length \in Regular
  BY <1>2, <1>3 DEF InStepInv, BodyInStep
<1>5. PICK e \in BOOLEAN : Holds(PREFIX, length, e)
  BY <1>2, <1>3 DEF InStepInv, BodyInStep
<1>6. Clamped(length) = length /\ length \in Nat /\ length <= BODY
  BY <1>4 DEF Clamped, Regular
<1>7. /\ Len(pipe) = length
      /\ \A i \in 1..length : pipe[i] = Unit(waiting, PREFIX + i, length, e)
  BY <1>5, <1>6 DEF Holds
<1>8. n = length
  BY <1>1, <1>6, <1>7 DEF TimedOut
<1>9. Len(pipe') = 0
  BY <1>1, <1>6, <1>7, <1>8 DEF Take, TypeInv
<1>10. \A i \in 1..length : buffer'[i] = Unit(waiting, PREFIX + i, length, e)
  BY <1>1, <1>6, <1>7, <1>8
<1>11. buffer'[1].ends = e
  <2>1. 1 \in 1..length
    BY <1>4, <1>6 DEF Regular
  <2>2. buffer'[1] = Unit(waiting, PREFIX + 1, length, e)
    BY <1>10, <2>1
  <2> QED BY <2>2 DEF Unit
<1> QED BY <1>2, <1>4, <1>9, <1>10, <1>11 DEF InStepInv, HandleInStep

LEMMA HandleAnswers ==
  ASSUME TypeInv, InStepInv, Handle, sound'
  PROVE  waiting' = 0 /\ Len(pipe') = 0
<1>1. CASE Ends
  BY <1>1 DEF Handle, Unanswered
<1>2. CASE ~Ends
  <2>1. sound /\ at = "handle" /\ UNCHANGED pipe /\ waiting' = Unanswered
    BY <1>2 DEF Handle
  <2>2. HandleInStep
    BY <2>1 DEF InStepInv
  <2>3. buffer[1] = Unit(waiting, PREFIX + 1, length, buffer[1].ends)
    BY <2>2 DEF HandleInStep, Regular
  <2>4. Xid = waiting
    BY <2>3 DEF Xid, IsField, Unit
  <2> QED BY <2>1, <2>2, <2>4 DEF Unanswered, HandleInStep
<1> QED BY <1>1, <1>2

LEMMA NextInStep == TypeInv /\ InStepInv /\ [Next]_vars => InStepInv'
<1> SUFFICES ASSUME TypeInv, InStepInv, [Next]_vars, sound' PROVE InStepInv'
  BY DEF InStepInv
<1>1. CASE UNCHANGED vars
  BY <1>1 DEF vars, InStepInv, PrefixInStep, BodyInStep, HandleInStep, Holds
<1>2. CASE Arrive
  BY <1>2 DEF Arrive, InStepInv, PrefixInStep, BodyInStep, HandleInStep, Holds
<1>3. CASE Handle
  <2>1. at' = "prefix"
    BY <1>3 DEF Handle
  <2> QED BY <1>3, <2>1, HandleAnswers DEF InStepInv, PrefixInStep
<1> QED BY <1>1, <1>2, <1>3, SendCallInStep, ReadPrefixInStep, PrefixTimeoutInStep, ReadBodyInStep
        DEF Next, loop

\* While packets have a regular length and come in time, what is handled is
\* the awaited request, whole, and the next read begins at the next packet.
THEOREM RequestsInStep == Spec => []InStep
<1>1. Init => InStepInv
  BY DEF Init, InStepInv, PrefixInStep
<1>2. TypeInv /\ InStepInv => InStep
  <2> SUFFICES ASSUME TypeInv, InStepInv, sound, at = "handle" PROVE InStep
    BY DEF InStep
  <2>1. HandleInStep
    BY DEF InStepInv
  <2>2. pipe = <<>>
    BY <2>1, EmptySeq DEF HandleInStep, TypeInv
  <2> QED BY <2>1, <2>2 DEF HandleInStep, InStep
<1> QED BY <1>1, <1>2, TypeInvariant, NextInStep, PTL DEF Spec
=============================================================================
