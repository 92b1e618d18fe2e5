---------------------------- MODULE AwgFyProofs ----------------------------
(***************************************************************************)
(* Proofs about AwgFy, for every number of channels and retries and all    *)
(* sets of parameters and values.                                          *)
(***************************************************************************)
EXTENDS AwgFy, SequenceTheorems, TLAPS

USE RetryAssumption, ValueAssumption

-----------------------------------------------------------------------------
(* Numbers *)

LEMMA DivBounds ==
  ASSUME NEW a \in Int, NEW b \in Nat \ {0}
  PROVE  /\ a \div b \in Int
         /\ b * (a \div b) <= a
         /\ a < b * (a \div b) + b
BY Z3

LEMMA RoundedWithin ==
  ASSUME NEW v \in Int
  PROVE  Rounded(v) \in Int /\ Within(Rounded(v), v)
<1> DEFINE q == (2 * v + STEP) \div (2 * STEP)
<1>1. /\ q \in Int
      /\ (2 * STEP) * q <= 2 * v + STEP
      /\ 2 * v + STEP < (2 * STEP) * q + 2 * STEP
  BY DivBounds, 2 * v + STEP \in Int, 2 * STEP \in Nat \ {0}
<1> HIDE DEF q
<1>2. Rounded(v) = STEP * q
  BY DEF Rounded, q
<1>3. (2 * STEP) * q = 2 * (STEP * q)  /\ STEP * q \in Int
  BY <1>1
<1> QED BY <1>1, <1>2, <1>3 DEF Within

-----------------------------------------------------------------------------
(* Commands and replies *)

LEMMA CommandForms ==
  ASSUME NEW c \in Commands
  PROVE  /\ c[1] = "set" => c \in {"set"} \X Letters \X Params \X Readings
         /\ c[1] = "get" => c \in {"get"} \X Letters \X Params
         /\ c[1] \in {"set", "get", "blank"}
BY DEF Commands

LEMMA TargetType ==
  ASSUME req \in Requests
  PROVE  Target \in Letters \X Params
BY DEF Target, Requests, fy_channels, Letters


LEMMA ReplyTypes ==
  /\ Newline \in Tokens
  /\ \A v \in InRange : First(v) \in Tokens /\ Rest(v) \in Tokens
BY DEF Newline, First, Rest, Tokens

LEMMA LimitedType ==
  ASSUME NEW v \in Values
  PROVE  Limited(v) \subseteq Numbers
BY DEF Numbers

-----------------------------------------------------------------------------
(* Types *)

\* Within set() the retries are not used up, and its arguments were accepted.
TypeInv ==
  /\ TypeOK
  /\ at # "idle" => /\ retries \in 0..Retry
                    /\ req \in Requests
                    /\ limited \in Numbers

LEMMA CallType ==
  ASSUME TypeInv, NEW r \in Requests, Call(r)
  PROVE  TypeInv'
<1>1. r.value \in Values /\ r.ch \in Nat
  BY DEF Requests
<1>2. Limited(r.value) \subseteq Numbers
  BY <1>1, LimitedType
<1>3. /\ limited' \in Numbers \cup {NoValue} /\ (at' # "idle" => limited' \in Numbers)
      /\ at' \in {"idle", "send"} /\ result' \in {"none", "failed"}
  BY <1>2 DEF Call
<1>4. /\ req' = r /\ retries' = Retry
      /\ UNCHANGED <<toAwg, wire, rx, setting, alone>>
  BY DEF Call
<1> QED BY <1>3, <1>4 DEF TypeInv, TypeOK

LEMMA SendSetType ==
  ASSUME TypeInv, SendSet
  PROVE  TypeInv'
<1>1. Target \in Letters \X Params
  BY TargetType DEF TypeInv, SendSet, SendGet
<1>2. <<"set", Target[1], Target[2], limited>> \in Commands
  BY <1>1 DEF Commands, Readings, TypeInv, SendSet
<1> QED BY <1>2 DEF TypeInv, TypeOK, SendSet


LEMMA AwaitAckType ==
  ASSUME TypeInv, AwaitAck
  PROVE  TypeInv'
<1>1. /\ rx' = <<>> /\ UNCHANGED <<req, limited, retries, toAwg, wire, setting, alone>>
      /\ at = "ack" /\ at' \in {"get", "idle"}
      /\ result' \in {result, "ok"}
  BY DEF AwaitAck, Drain, Return
<1>2. rx' \in Seq(Tokens)
  BY <1>1
<1>3. retries \in 0..Retry /\ req \in Requests /\ limited \in Numbers
  BY <1>1 DEF TypeInv
<1>4. retries' \in -1..Retry /\ result' \in {"none", "ok", "failed"}
  BY <1>1, <1>3 DEF TypeInv, TypeOK
<1>5. TypeOK'
  BY <1>1, <1>2, <1>4 DEF TypeInv, TypeOK
<1>6. retries' \in 0..Retry /\ req' \in Requests /\ limited' \in Numbers
  BY <1>1, <1>3
<1> QED BY <1>5, <1>6 DEF TypeInv

LEMMA SendGetType ==
  ASSUME TypeInv, SendGet
  PROVE  TypeInv'
<1>1. Target \in Letters \X Params
  BY TargetType DEF TypeInv, SendSet, SendGet
<1>2. <<"get", Target[1], Target[2]>> \in Commands /\ <<"blank">> \in Commands
  BY <1>1 DEF Commands
<1>3. toAwg' = Append(Append(toAwg, <<"get", Target[1], Target[2]>>), <<"blank">>)
      /\ at' = "value" /\ at = "get"
      /\ UNCHANGED <<req, limited, retries, result, wire, rx, setting, alone>>
  BY DEF SendGet
<1>4. toAwg' \in Seq(Commands)
  BY <1>2, <1>3 DEF TypeInv, TypeOK
<1> QED BY <1>3, <1>4 DEF TypeInv, TypeOK

LEMMA VerifyType ==
  ASSUME TypeInv, at = "value", NEW v, Verify(v),
         rx' \in Seq(Tokens), alone' \in BOOLEAN,
         UNCHANGED <<req, limited, toAwg, wire, setting>>
  PROVE  TypeInv'
<1>1. /\ retries \in 0..Retry /\ req \in Requests /\ limited \in Numbers
      /\ toAwg \in Seq(Commands) /\ wire \in Seq(Tokens)
      /\ setting \in [Letters \X Params -> InRange]
  BY DEF TypeInv, TypeOK
<1>2. \/ retries' \in 0..Retry /\ at' = "send" /\ result' = result
      \/ retries' \in -1..Retry /\ at' = "idle" /\ result' \in {"ok", "failed"}
  BY <1>1 DEF Verify, Return, Again
<1>3. result' \in {"none", "ok", "failed"}
  BY <1>2 DEF TypeInv, TypeOK
<1> QED BY <1>1, <1>2, <1>3 DEF TypeInv, TypeOK

LEMMA ReadValueType ==
  ASSUME TypeInv, ReadValue
  PROVE  TypeInv'
<1>1. PICK n \in 1..Len(rx) :
        /\ rx' = SubSeq(rx, n + 1, Len(rx))
        /\ \E v \in Parsed(SubSeq(rx, 1, n)) : Verify(v)
  BY DEF ReadValue
<1>2. rx' \in Seq(Tokens)
  BY <1>1 DEF TypeInv, TypeOK
<1> QED BY <1>1, <1>2, VerifyType DEF ReadValue, TypeInv, TypeOK

LEMMA ReadTimeoutType ==
  ASSUME TypeInv, ReadTimeout
  PROVE  TypeInv'
<1>1. rx' = <<>> /\ alone' = FALSE
  BY DEF ReadTimeout
<1>2. rx' \in Seq(Tokens)
  BY <1>1
<1>3. alone' \in BOOLEAN
  BY <1>1, Zenon
<1> QED BY <1>2, <1>3, VerifyType DEF ReadTimeout

LEMMA UserTypesType ==
  ASSUME TypeInv, NEW c \in Typed, UserTypes(c)
  PROVE  TypeInv'
<1>1. c \in Commands
  BY TypedAssumption
<1>2. /\ toAwg' = Append(toAwg, c)
      /\ UNCHANGED <<at, req, limited, retries, result, wire, rx, setting>>
      /\ alone' \in BOOLEAN
  BY DEF UserTypes
<1>3. toAwg' \in Seq(Commands)
  BY <1>1, <1>2 DEF TypeInv, TypeOK
<1> QED BY <1>2, <1>3 DEF TypeInv, TypeOK

LEMMA ExecuteType ==
  ASSUME TypeInv, Execute
  PROVE  TypeInv'
<1> DEFINE c == Head(toAwg)
<1>1. c \in Commands /\ toAwg' \in Seq(Commands)
  <2>1. toAwg # <<>> /\ toAwg' = Tail(toAwg)
    BY DEF Execute
  <2>2. toAwg \in Seq(Commands)
    BY DEF TypeInv, TypeOK
  <2> QED BY <2>1, <2>2
<1>2. UNCHANGED <<at, req, limited, retries, result, rx>>
  BY DEF Execute
<1>3. CASE c[1] = "set"
  <2>1. c \in {"set"} \X Letters \X Params \X Readings
    BY <1>1, <1>3, CommandForms
  <2>2. /\ wire' = Append(wire, Newline) /\ UNCHANGED alone
        /\ setting' = [k \in Letters \X Params |->
                          IF k = Key(c) /\ c[4] \in InRange THEN c[4] ELSE setting[k]]
    BY <1>3 DEF Execute
  <2>3. wire' \in Seq(Tokens) /\ setting' \in [Letters \X Params -> InRange]
    BY <2>1, <2>2, ReplyTypes DEF TypeInv, TypeOK
  <2> QED BY <1>1, <1>2, <2>2, <2>3 DEF TypeInv, TypeOK
<1>4. CASE c[1] = "get"
  <2>1. c \in {"get"} \X Letters \X Params
    BY <1>1, <1>4, CommandForms
  <2>2. setting[Key(c)] \in InRange
    BY <2>1 DEF TypeInv, TypeOK, Key
  <2>3. /\ wire' = Append(Append(wire, First(setting[Key(c)])), Rest(setting[Key(c)]))
        /\ UNCHANGED <<setting, alone>>
    BY <1>4 DEF Execute
  <2>4. wire' \in Seq(Tokens)
    <3>1. wire \in Seq(Tokens)
      BY DEF TypeInv, TypeOK
    <3>2. First(setting[Key(c)]) \in Tokens /\ Rest(setting[Key(c)]) \in Tokens
      BY <2>2, ReplyTypes
    <3> QED BY <2>3, <3>1, <3>2
  <2> QED BY <1>1, <1>2, <2>3, <2>4 DEF TypeInv, TypeOK
<1>5. CASE c[1] = "blank"
  <2>1. /\ wire' \in {wire, Append(wire, Newline)}
        /\ UNCHANGED setting /\ alone' \in {alone, FALSE}
    BY <1>5 DEF Execute
  <2>2. wire' \in Seq(Tokens)
    <3>1. wire \in Seq(Tokens) /\ Newline \in Tokens
      BY ReplyTypes DEF TypeInv, TypeOK
    <3> QED BY <2>1, <3>1
  <2> QED BY <1>1, <1>2, <2>1, <2>2 DEF TypeInv, TypeOK
<1> QED BY <1>1, <1>3, <1>4, <1>5, CommandForms

LEMMA ArriveType ==
  ASSUME TypeInv, Arrive
  PROVE  TypeInv'
<1>1. Head(wire) \in Tokens /\ Tail(wire) \in Seq(Tokens)
  BY DEF TypeInv, TypeOK, Arrive
<1> QED BY <1>1 DEF TypeInv, TypeOK, Arrive


LEMMA InitType == Init => TypeInv
<1> SUFFICES ASSUME Init PROVE TypeInv
  OBVIOUS
<1>1. setting \in [Letters \X Params -> InRange]
  BY DEF Init
<1>2. <<>> \in Seq(Commands) /\ <<>> \in Seq(Tokens) /\ TRUE \in BOOLEAN
  OBVIOUS
<1> QED BY <1>1, <1>2 DEF Init, TypeInv, TypeOK

LEMMA NextType == TypeInv /\ [Next]_vars => TypeInv'
<1> SUFFICES ASSUME TypeInv, [Next]_vars PROVE TypeInv'
  OBVIOUS
<1>1. CASE UNCHANGED vars
  BY <1>1 DEF vars, TypeInv, TypeOK
<1>2. ASSUME NEW r \in Requests, Call(r) PROVE TypeInv'
  BY <1>2, CallType
<1>3. CASE set
  BY <1>3, SendSetType, AwaitAckType, SendGetType, ReadValueType, ReadTimeoutType DEF set
<1>4. ASSUME NEW c \in Typed, UserTypes(c) PROVE TypeInv'
  BY <1>4, UserTypesType
<1>5. CASE UserReads
  BY <1>5 DEF TypeInv, TypeOK, UserReads
<1>6. CASE Awg
  BY <1>6, ExecuteType, ArriveType DEF Awg
<1> QED BY <1>1, <1>2, <1>3, <1>4, <1>5, <1>6 DEF Next

\* Every variable has its type in every behaviour of the driver, and the
\* count of retries goes no further than one below zero.
THEOREM TypeCorrect == Spec => []TypeOK
<1>1. TypeInv => TypeOK
  BY DEF TypeInv
<1> QED BY <1>1, InitType, NextType, PTL DEF Spec


-----------------------------------------------------------------------------
(* Commands and replies in step *)

SetOfTarget == <<"set", Target[1], Target[2], limited>>
GetOfTarget == <<"get", Target[1], Target[2]>>
IsBlank(c)  == c = <<"blank">>
Quiet       == Len(wire) = 0 /\ Len(rx) = 0

\* The set has been carried out, if the instrument takes the value.
Settled == limited \in InRange => setting[Target] = limited

\* The command under way has not been carried out.
SetWaits == /\ Quiet
            /\ Len(toAwg) > 0 /\ toAwg[Len(toAwg)] = SetOfTarget
            /\ \A i \in 1..Len(toAwg) - 1 : IsBlank(toAwg[i])
GetWaits == /\ Quiet
            /\ Len(toAwg) = 2 /\ toAwg[1] = GetOfTarget /\ IsBlank(toAwg[2])

\* Its reply is on the wire or, so far as it has arrived, in the buffer.
Acknowledged == /\ Len(toAwg) = 0
                /\ \/ Len(wire) = 1 /\ wire[1] = Newline /\ Len(rx) = 0
                   \/ Len(wire) = 0 /\ Len(rx) = 1 /\ rx[1] = Newline

Replied ==
  LET f == First(setting[Target])
      r == Rest(setting[Target])
  IN /\ Len(toAwg) = 0 \/ (Len(toAwg) = 1 /\ IsBlank(toAwg[1]))
     /\ \/ Len(wire) = 2 /\ wire[1] = f /\ wire[2] = r /\ Len(rx) = 0
        \/ Len(wire) = 1 /\ wire[1] = r /\ Len(rx) = 1 /\ rx[1] = f
        \/ Len(wire) = 0 /\ Len(rx) = 2 /\ rx[1] = f /\ rx[2] = r

IdleInStep  == at \in {"idle", "send"} => Quiet /\ \A i \in 1..Len(toAwg) : IsBlank(toAwg[i])
AckInStep   == at = "ack" => SetWaits \/ (Acknowledged /\ Settled)
GetInStep   == at = "get" => Quiet /\ Len(toAwg) = 0 /\ Settled /\ Retry > 0
ValueInStep == at = "value" => (GetWaits \/ Replied) /\ Settled /\ Retry > 0
Truthful    == /\ result = "ok" /\ Retry > 0 =>
                    req \in Requests /\ setting[Target] = limited /\ limited \in Limited(req.value)
               /\ result = "failed" =>
                    req.ch > Channels \/ limited \notin InRange \/ limited \in Inexact
Accepted    == at # "idle" => limited \in Limited(req.value) /\ result = "none"



\* All of this holds while nobody else has used the serial line.
InStepNow == /\ IdleInStep /\ AckInStep /\ GetInStep /\ ValueInStep
             /\ Truthful /\ Accepted

StepInv == alone => InStepNow

LEMMA CallInStep ==
  ASSUME TypeInv, InStepNow, NEW r \in Requests, Call(r)
  PROVE  InStepNow'
<1>1. at = "idle" /\ at' \in {"idle", "send"} /\ UNCHANGED <<toAwg, wire, rx>>
  BY DEF Call
<1>2. /\ IdleInStep' /\ AckInStep' /\ GetInStep' /\ ValueInStep'
  BY <1>1 DEF InStepNow, IdleInStep, AckInStep, GetInStep, ValueInStep, Quiet
<1>3. Truthful' /\ Accepted'
  <2>1. CASE r.ch > Channels
    BY <2>1 DEF Call, Truthful, Accepted
  <2>2. CASE ~(r.ch > Channels)
    BY <2>2 DEF Call, Truthful, Accepted
  <2> QED BY <2>1, <2>2
<1> QED BY <1>2, <1>3 DEF InStepNow

LEMMA SendSetInStep ==
  ASSUME TypeInv, InStepNow, SendSet
  PROVE  InStepNow'
<1>1. /\ at = "send" /\ at' = "ack"
      /\ toAwg' = Append(toAwg, SetOfTarget)
      /\ UNCHANGED <<req, limited, retries, result, wire, rx, setting>>
  BY DEF SendSet, SetOfTarget
<1>2. Quiet /\ \A i \in 1..Len(toAwg) : IsBlank(toAwg[i])
  BY <1>1 DEF InStepNow, IdleInStep
<1>3. SetOfTarget' = SetOfTarget /\ Quiet'
  BY <1>1, <1>2 DEF SetOfTarget, Target, Quiet
<1>4. /\ Len(toAwg') > 0 /\ toAwg'[Len(toAwg')] = SetOfTarget
      /\ \A i \in 1..Len(toAwg') - 1 : IsBlank(toAwg'[i])
  BY <1>1, <1>2 DEF TypeInv, TypeOK
<1>5. SetWaits'
  BY <1>3, <1>4 DEF SetWaits
<1>6. Truthful' /\ Accepted'
  BY <1>1 DEF InStepNow, Truthful, Accepted
<1> QED BY <1>1, <1>5, <1>6 DEF InStepNow, IdleInStep, AckInStep, GetInStep, ValueInStep

LEMMA AwaitAckInStep ==
  ASSUME TypeInv, InStepNow, AwaitAck
  PROVE  InStepNow'
<1>1. /\ at = "ack" /\ rx # <<>> /\ rx' = <<>>
      /\ UNCHANGED <<req, limited, toAwg, wire, setting>>
      /\ \/ Retry > 0 /\ at' = "get" /\ result' = result
         \/ ~(Retry > 0) /\ at' = "idle" /\ result' = "ok"
  BY DEF AwaitAck, Drain, Return
<1>2. Len(rx) > 0
  BY <1>1 DEF TypeInv, TypeOK
<1>3. Acknowledged /\ Settled
  BY <1>1, <1>2 DEF InStepNow, AckInStep, SetWaits, Quiet
<1>4. Len(toAwg') = 0 /\ Quiet' /\ Settled'
  BY <1>1, <1>2, <1>3 DEF Acknowledged, Quiet, Settled, Target
<1>5. Truthful' /\ Accepted'
  BY <1>1 DEF InStepNow, Truthful, Accepted
<1> QED BY <1>1, <1>4, <1>5 DEF InStepNow, IdleInStep, AckInStep, GetInStep, ValueInStep

LEMMA SendGetInStep ==
  ASSUME TypeInv, InStepNow, SendGet
  PROVE  InStepNow'
<1>1. /\ at = "get" /\ at' = "value"
      /\ toAwg' = Append(Append(toAwg, GetOfTarget), <<"blank">>)
      /\ UNCHANGED <<req, limited, retries, result, wire, rx, setting>>
  BY DEF SendGet, GetOfTarget
<1>2. Quiet /\ Len(toAwg) = 0 /\ Settled /\ Retry > 0
  BY <1>1 DEF InStepNow, GetInStep
<1>3. GetOfTarget' = GetOfTarget /\ Quiet' /\ Settled'
  BY <1>1, <1>2 DEF GetOfTarget, Target, Quiet, Settled
<1>4. Len(toAwg') = 2 /\ toAwg'[1] = GetOfTarget /\ toAwg'[2] = <<"blank">>
  BY <1>1, <1>2 DEF TypeInv, TypeOK
<1>5. GetWaits'
  BY <1>3, <1>4 DEF GetWaits, IsBlank
<1>6. Truthful' /\ Accepted'
  BY <1>1 DEF InStepNow, Truthful, Accepted
<1> QED BY <1>1, <1>2, <1>3, <1>5, <1>6
        DEF InStepNow, IdleInStep, AckInStep, GetInStep, ValueInStep


LEMMA PairOfLine ==
  ASSUME NEW S, NEW t \in Seq(S), Len(t) = 2
  PROVE  SubSeq(t, 1, 2) = <<t[1], t[2]>> /\ SubSeq(t, 3, 2) = <<>>
<1>1. t[1] \in S /\ t[2] \in S
  BY ElementOfSeq, 1 \in 1..Len(t), 2 \in 1..Len(t)
<1>2. /\ SubSeq(t, 1, 2) \in Seq(S) /\ Len(SubSeq(t, 1, 2)) = 2
      /\ SubSeq(t, 1, 2)[1] = t[1] /\ SubSeq(t, 1, 2)[2] = t[2]
  BY <1>1
<1>3. <<t[1], t[2]>> \in Seq(S) /\ Len(<<t[1], t[2]>>) = 2
  BY <1>1
<1>4. SubSeq(t, 1, 2) = <<t[1], t[2]>>
  <2> DEFINE u == SubSeq(t, 1, 2)
             w == <<t[1], t[2]>>
  <2>1. \A i \in 1..Len(u) : u[i] = w[i]
    BY <1>2
  <2>2. u \in Seq(S) /\ w \in Seq(S) /\ Len(u) = Len(w)
    BY <1>2, <1>3
  <2> HIDE DEF u, w
  <2>3. u = w
    BY <2>1, <2>2, SeqEqual
  <2> QED BY <2>3 DEF u, w
<1>5. SubSeq(t, 3, 2) = <<>>
  <2>1. SubSeq(t, 3, 2) \in Seq(S) /\ Len(SubSeq(t, 3, 2)) = 0
    BY <1>1
  <2> QED BY <2>1, EmptySeq
<1> QED BY <1>4, <1>5

\* A whole reply is read as the number that it holds.
LEMMA ParsedReply ==
  ASSUME NEW v \in InRange
  PROVE  Parsed(<<First(v), Rest(v)>>) = {v}
BY DEF Parsed, First, Rest, Newline

LEMMA ReadValueInStep ==
  ASSUME TypeInv, InStepNow, ReadValue
  PROVE  InStepNow'
<1> DEFINE v == setting[Target]
<1>1. /\ at = "value" /\ UNCHANGED <<req, limited, toAwg, wire, setting>>
  BY DEF ReadValue
<1>2. PICK n \in 1..Len(rx) :
        /\ EndsLine(rx[n]) /\ rx' = SubSeq(rx, n + 1, Len(rx))
        /\ \E w \in Parsed(SubSeq(rx, 1, n)) : Verify(w)
  BY DEF ReadValue
<1>3. rx \in Seq(Tokens)
  BY DEF TypeInv, TypeOK
<1>4. v \in InRange
  BY <1>1, TargetType DEF TypeInv, TypeOK
<1>5. Settled /\ Retry > 0 /\ Replied
  BY <1>1, <1>2, <1>3 DEF InStepNow, ValueInStep, GetWaits, Quiet
<1>6. n = 2 /\ Len(rx) = 2 /\ rx[1] = First(v) /\ rx[2] = Rest(v) /\ Len(wire) = 0
  BY <1>2, <1>3, <1>5 DEF Replied, EndsLine, First
<1>7. Verify(v) /\ Len(rx') = 0
  <2>1. SubSeq(rx, 1, 2) = <<First(v), Rest(v)>> /\ rx' = <<>>
    BY <1>2, <1>3, <1>6, PairOfLine
  <2> QED BY <1>2, <1>4, <1>6, <2>1, ParsedReply
<1>8. v' = v
  BY <1>1 DEF Target
<1>9. /\ at' \in {"idle", "send"}
      /\ Quiet' /\ \A i \in 1..Len(toAwg') : IsBlank(toAwg'[i])
  BY <1>1, <1>5, <1>6, <1>7 DEF Verify, Return, Again, Quiet, Replied
<1>10. /\ at' = "send" => result' = result
       /\ result' = "ok" => v = limited \/ result' = result
       /\ result' = "failed" => v # limited \/ limited \in Inexact \/ result' = result
  BY <1>7 DEF Verify, Return, Again, Same
<1>11. Truthful' /\ Accepted'
  <2>1. result = "none" /\ req \in Requests /\ limited \in Limited(req.value)
    BY <1>1 DEF InStepNow, Accepted, TypeInv
  <2>2. /\ result' = "ok" => v = limited
        /\ result' = "failed" => limited \notin InRange \/ limited \in Inexact
        /\ at' = "send" => result' = "none"
    BY <1>5, <1>10, <2>1 DEF Settled
  <2>3. Truthful'
    BY <1>1, <1>8, <2>1, <2>2 DEF Truthful
  <2>4. Accepted'
    BY <1>1, <1>9, <2>1, <2>2 DEF Accepted
  <2> QED BY <2>3, <2>4
<1> QED BY <1>9, <1>11 DEF InStepNow, IdleInStep, AckInStep, GetInStep, ValueInStep

LEMMA ArriveInStep ==
  ASSUME TypeInv, InStepNow, Arrive
  PROVE  InStepNow'
<1>1. /\ wire \in Seq(Tokens) /\ rx \in Seq(Tokens)
  BY DEF TypeInv, TypeOK
<1>2. /\ wire # <<>> /\ rx' = Append(rx, Head(wire)) /\ wire' = Tail(wire)
      /\ UNCHANGED <<at, req, limited, result, toAwg, setting>>
  BY DEF Arrive
<1>3. /\ Len(wire) > 0 /\ Len(wire') = Len(wire) - 1 /\ Len(rx') = Len(rx) + 1
      /\ rx'[Len(rx) + 1] = wire[1] /\ \A i \in 1..Len(rx) : rx'[i] = rx[i]
      /\ \A i \in 1..Len(wire') : wire'[i] = wire[i + 1]
  BY <1>1, <1>2
<1>4. ~Quiet
  BY <1>3 DEF Quiet
<1>5. CASE at = "ack" /\ Acknowledged /\ Settled
  <2>1. Acknowledged' /\ Settled'
    BY <1>2, <1>3, <1>5 DEF Acknowledged, Settled, Target
  <2> QED BY <1>2, <1>5, <2>1 DEF InStepNow, IdleInStep, AckInStep, GetInStep, ValueInStep,
                                  Truthful, Accepted
<1>6. CASE at = "value" /\ Replied /\ Settled /\ Retry > 0
  <2>1. Target' = Target /\ setting' = setting /\ Settled'
    BY <1>2, <1>6 DEF Target, Settled
  <2>2. Replied'
    BY <1>2, <1>3, <1>6, <2>1 DEF Replied
  <2> QED BY <1>2, <1>6, <2>1, <2>2 DEF InStepNow, IdleInStep, AckInStep, GetInStep,
                                       ValueInStep, Truthful, Accepted
<1>7. (at = "ack" /\ Acknowledged /\ Settled) \/ (at = "value" /\ Replied /\ Settled /\ Retry > 0)
  BY <1>4 DEF InStepNow, IdleInStep, AckInStep, GetInStep, ValueInStep, SetWaits, GetWaits,
              TypeInv, TypeOK
<1> QED BY <1>5, <1>6, <1>7


LEMMA ExecuteInStep ==
  ASSUME TypeInv, InStepNow, Execute, alone'
  PROVE  InStepNow'
<1> DEFINE c == Head(toAwg)
<1>1. /\ wire \in Seq(Tokens) /\ rx \in Seq(Tokens) /\ toAwg \in Seq(Commands)
      /\ setting \in [Letters \X Params -> InRange]
  BY DEF TypeInv, TypeOK
<1>2. /\ toAwg # <<>> /\ toAwg' = Tail(toAwg)
      /\ UNCHANGED <<at, req, limited, result, rx>>
  BY DEF Execute
<1>3. /\ Len(toAwg) > 0 /\ Len(toAwg') = Len(toAwg) - 1 /\ c = toAwg[1]
      /\ \A i \in 1..Len(toAwg') : toAwg'[i] = toAwg[i + 1]
  BY <1>1, <1>2
<1>4. Target' = Target
  BY <1>2 DEF Target
<1>5. CASE at \in {"idle", "send"}
  <2>1. Quiet /\ \A i \in 1..Len(toAwg) : IsBlank(toAwg[i])
    BY <1>5 DEF InStepNow, IdleInStep
  <2>2. c[1] = "blank"
    BY <1>3, <2>1 DEF IsBlank
  <2>3. UNCHANGED <<wire, setting>>
    BY <2>2 DEF Execute
  <2>4. Quiet' /\ \A i \in 1..Len(toAwg') : IsBlank(toAwg'[i])
    BY <1>2, <1>3, <2>1, <2>3 DEF Quiet
  <2> QED BY <1>2, <1>4, <1>5, <2>3, <2>4
          DEF InStepNow, IdleInStep, AckInStep, GetInStep, ValueInStep, Truthful, Accepted
<1>6. CASE at = "ack"
  <2>1. SetWaits
    BY <1>3, <1>6 DEF InStepNow, AckInStep, Acknowledged
  <2>2. CASE Len(toAwg) > 1
    <3>1. c[1] = "blank"
      BY <1>3, <2>1, <2>2 DEF SetWaits, IsBlank
    <3>2. UNCHANGED <<wire, setting>>
      BY <3>1 DEF Execute
    <3>3. SetWaits'
      BY <1>2, <1>3, <1>4, <2>1, <2>2, <3>2 DEF SetWaits, Quiet, SetOfTarget
    <3> QED BY <1>2, <1>4, <1>6, <3>2, <3>3
            DEF InStepNow, IdleInStep, AckInStep, GetInStep, ValueInStep, Truthful, Accepted
  <2>3. CASE Len(toAwg) = 1
    <3>1. c = SetOfTarget
      BY <1>3, <2>1, <2>3 DEF SetWaits
    <3>2. c[1] = "set" /\ Key(c) = Target /\ c[4] = limited
      BY <3>1 DEF SetOfTarget, Key, Target
    <3>3. /\ wire' = Append(wire, Newline)
          /\ setting' = [k \in Letters \X Params |->
                            IF k = Key(c) /\ c[4] \in InRange THEN c[4] ELSE setting[k]]
      BY <3>2 DEF Execute
    <3>4. Target \in Letters \X Params
      BY <1>6, TargetType DEF TypeInv
    <3>5. Settled'
      BY <1>2, <1>4, <3>2, <3>3, <3>4 DEF Settled
    <3>6. Acknowledged'
      BY <1>1, <1>2, <1>3, <2>1, <2>3, <3>3 DEF Acknowledged, SetWaits, Quiet
    <3>7. result = "none"
      BY <1>6 DEF InStepNow, Accepted
    <3> QED BY <1>2, <1>6, <3>5, <3>6, <3>7
            DEF InStepNow, IdleInStep, AckInStep, GetInStep, ValueInStep, Truthful, Accepted
  <2> QED BY <1>1, <1>3, <2>2, <2>3
<1>7. CASE at = "value"
  <2>1. (GetWaits \/ Replied) /\ Settled /\ Retry > 0
    BY <1>7 DEF InStepNow, ValueInStep
  <2>2. CASE GetWaits
    <3>1. c = GetOfTarget
      BY <1>3, <2>2 DEF GetWaits
    <3>2. c[1] = "get" /\ Key(c) = Target
      BY <3>1 DEF GetOfTarget, Key, Target
    <3>3. /\ wire' = Append(Append(wire, First(setting[Target])), Rest(setting[Target]))
          /\ setting' = setting
      BY <3>2 DEF Execute
    <3>4. setting[Target] \in InRange
      BY <1>1, <1>7, TargetType DEF TypeInv
    <3>5. First(setting[Target]) \in Tokens /\ Rest(setting[Target]) \in Tokens
      BY <3>4, ReplyTypes
    <3>6. /\ Len(wire') = 2 /\ wire'[1] = First(setting[Target]) /\ wire'[2] = Rest(setting[Target])
      BY <1>1, <2>2, <3>3, <3>5 DEF GetWaits, Quiet
    <3>7. Replied'
      BY <1>2, <1>3, <1>4, <2>2, <3>3, <3>6 DEF Replied, GetWaits, Quiet
    <3>8. Settled'
      BY <1>2, <1>4, <2>1, <3>3 DEF Settled
    <3> QED BY <1>2, <1>4, <1>7, <2>1, <3>3, <3>7, <3>8
            DEF InStepNow, IdleInStep, AckInStep, GetInStep, ValueInStep, Truthful, Accepted
  <2>3. CASE Replied
    <3>1. c[1] = "blank" /\ Len(toAwg') = 0
      BY <1>3, <2>3 DEF Replied, IsBlank
    <3>2. UNCHANGED <<wire, setting>>
      BY <3>1 DEF Execute
    <3>3. Replied' /\ Settled'
      BY <1>2, <1>4, <2>1, <2>3, <3>1, <3>2 DEF Replied, Settled
    <3> QED BY <1>2, <1>4, <1>7, <2>1, <3>2, <3>3
            DEF InStepNow, IdleInStep, AckInStep, GetInStep, ValueInStep, Truthful, Accepted
  <2> QED BY <2>1, <2>2, <2>3
<1>8. at # "get"
  BY <1>3 DEF InStepNow, GetInStep
<1> QED BY <1>5, <1>6, <1>7, <1>8 DEF TypeInv, TypeOK


LEMMA InitInStep == Init => StepInv
BY DEF Init, StepInv, InStepNow, IdleInStep, AckInStep, GetInStep, ValueInStep,
       Truthful, Accepted, Quiet

LEMMA NextInStep == TypeInv /\ StepInv /\ [Next]_vars => StepInv'
<1> SUFFICES ASSUME TypeInv, StepInv, [Next]_vars, alone' PROVE InStepNow'
  BY DEF StepInv
<1>1. CASE UNCHANGED vars
  <2>1. InStepNow
    BY <1>1 DEF vars, StepInv
  <2> QED BY <1>1, <2>1
          DEF vars, InStepNow, IdleInStep, AckInStep, GetInStep, ValueInStep, Truthful,
              Accepted, Quiet, SetWaits, GetWaits, Acknowledged, Replied, Settled, Target,
              SetOfTarget, GetOfTarget
<1>2. ASSUME NEW r \in Requests, Call(r) PROVE InStepNow'
  BY <1>2, CallInStep DEF Call, StepInv
<1>3. CASE set
  <2>1. ~ReadTimeout
    BY Zenon DEF ReadTimeout
  <2>2. alone
    BY <1>3, <2>1 DEF set, SendSet, AwaitAck, SendGet, ReadValue
  <2> QED BY <1>3, <2>1, <2>2, SendSetInStep, AwaitAckInStep, SendGetInStep, ReadValueInStep
          DEF set, StepInv
<1>4. ASSUME NEW c \in Typed, UserTypes(c) PROVE InStepNow'
  BY <1>4, Zenon DEF UserTypes
<1>5. CASE UserReads
  <2>1. InStepNow /\ at = "idle" /\ rx # <<>>
    BY <1>5 DEF UserReads, StepInv
  <2>2. FALSE
    BY <2>1 DEF InStepNow, IdleInStep, Quiet, TypeInv, TypeOK
  <2> QED BY <2>2
<1>6. CASE Execute
  <2>1. alone
    BY <1>6 DEF Execute, TypeInv, TypeOK
  <2> QED BY <1>6, <2>1, ExecuteInStep DEF StepInv
<1>7. CASE Arrive
  BY <1>7, ArriveInStep DEF Arrive, StepInv
<1> QED BY <1>1, <1>2, <1>3, <1>4, <1>5, <1>6, <1>7 DEF Next, Awg

LEMMA StepInvariant == Spec => [](TypeInv /\ StepInv)
BY InitType, NextType, InitInStep, NextInStep, PTL DEF Spec

-----------------------------------------------------------------------------
\* Alone on the serial line, set() leaves no reply behind when it returns or
\* tries again, whatever the count of retries and however slow the instrument.
THEOREM RepliesInStep == Spec => []InStep
<1>1. TypeInv /\ StepInv => InStep
  <2> SUFFICES ASSUME TypeInv, StepInv, alone, at \in {"idle", "send"} PROVE InStep
    BY DEF InStep
  <2>1. Quiet /\ \A i \in 1..Len(toAwg) : toAwg[i] = <<"blank">>
    BY DEF StepInv, InStepNow, IdleInStep, IsBlank
  <2>2. wire = <<>> /\ rx = <<>>
    BY <2>1, EmptySeq DEF Quiet, TypeInv, TypeOK
  <2> QED BY <2>1, <2>2 DEF InStep
<1> QED BY <1>1, StepInvariant, PTL

\* With a retry at all, a value that was not negative and that set() reports
\* as verified is what the instrument has, to half a unit of the precision.
THEOREM VerifiedHolds ==
  ASSUME Retry > 0
  PROVE  Spec => []VerifiedWithin
<1>1. TypeInv /\ StepInv => VerifiedWithin
  <2> SUFFICES ASSUME TypeInv, StepInv, alone, result = "ok", req.value >= 0
               PROVE  Within(setting[Target], req.value)
    BY DEF VerifiedWithin
  <2>1. req \in Requests /\ setting[Target] = limited /\ limited \in Limited(req.value)
    BY DEF StepInv, InStepNow, Truthful
  <2>2. req.value \in Int
    BY <2>1 DEF Requests
  <2>3. limited = Rounded(req.value)
    BY <2>1, <2>2 DEF Limited
  <2> QED BY <2>1, <2>2, <2>3, RoundedWithin
<1> QED BY <1>1, StepInvariant, PTL

\* A failure that set() reports has a reason: no such channel, a value that
\* the instrument does not take, or one that never compares equal.
THEOREM FailureHasReason == Spec => []FailedIsRefused
<1>1. StepInv => FailedIsRefused
  BY DEF StepInv, InStepNow, Truthful, FailedIsRefused
<1> QED BY <1>1, StepInvariant, PTL

=============================================================================
