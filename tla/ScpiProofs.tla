----------------------------- MODULE ScpiProofs -----------------------------
(***************************************************************************)
(* What the next read is for depends on the last line only, and so does    *)
(* what is set, for all lines and whatever happens on the serial line.     *)
(***************************************************************************)
EXTENDS ScpiSession, TLAPS, SequenceTheorems

Word == [word : DOMAIN Begins, words : Seq(DOMAIN Begins)]

\* Whether one of the first n commands of line l asks for the parameters.
Asks(l, n) == \E i \in 1..n : "BSWV?" \in Begins[l.commands[i].word]

\* The commands that are left are those after the first n.
Left(l, n) == /\ n \in 0..Len(l.commands)
              /\ Len(rest) = Len(l.commands) - n
              /\ \A i \in 1..Len(rest) : rest[i] = l.commands[n + i]

Begun == /\ line \in Lines /\ IsWrite(line)
         /\ rest \in Seq(Word)
         /\ \E n \in Nat : /\ Left(line, n)
                           /\ read_type = IF Asks(line, n) THEN "parameters" ELSE "none"

ReadInv == /\ scpiAt \in {"line", "params"} => Begun
           /\ scpiAt = "ready" => ReadTypeOfLine

LEMMA LineType ==
  ASSUME NEW l \in Lines
  PROVE  l.commands \in Seq(Word)
BY LineAssumption DEF Word

\* BSWV? is found wherever a word begins with it, although BSWV is in the
\* same table.
LEMMA FindsQuestion ==
  ASSUME NEW w \in DOMAIN Begins
  PROVE  get_id(w, commands) = "BSWV?" <=> "BSWV?" \in Begins[w]
<1> DEFINE M == Matches(w, commands)
<1>1. /\ DOMAIN commands = 1..3
      /\ commands[1] = "OUTP" /\ commands[2] = "BSWV?" /\ commands[3] = "BSWV"
  BY DEF commands
<1>2. /\ M \subseteq 1..3
      /\ 1 \in M <=> "OUTP" \in Begins[w]
      /\ 2 \in M <=> "BSWV?" \in Begins[w]
  BY <1>1 DEF Matches
<1>3. ~(1 \in M /\ 2 \in M)
  BY <1>2, WordAssumption
<1>4. CASE M = {}
  BY <1>2, <1>4 DEF get_id
<1>5. CASE M # {}
  <2> DEFINE k == CHOOSE i \in M : \A j \in M : i <= j
  <2>1. \E i \in M : \A j \in M : i <= j
    <3>1. CASE 1 \in M
      BY <1>2, <3>1
    <3>2. CASE 1 \notin M /\ 2 \in M
      BY <1>2, <3>2
    <3>3. CASE 1 \notin M /\ 2 \notin M
      BY <1>2, <1>5, <3>3
    <3> QED
      BY <3>1, <3>2, <3>3
  <2>2. k \in M /\ \A j \in M : k <= j
    BY <2>1
  <2>3. get_id(w, commands) = commands[k]
    BY <1>5 DEF get_id
  <2> HIDE DEF k, M
  <2>4. k = 2 <=> 2 \in M
    BY <1>2, <1>3, <2>2
  <2>5. commands[k] = "BSWV?" <=> k = 2
    BY <1>1, <1>2, <2>2
  <2> QED
    BY <1>2, <2>3, <2>4, <2>5
<1> QED
  BY <1>4, <1>5

LEMMA ReadInvInit == ScpiInit => ReadInv
BY DEF ScpiInit, ReadInv, ReadTypeOfLine

LEMMA WriteKeeps ==
  ASSUME NEW l \in Lines, Write(l)
  PROVE  ReadInv'
<1>1. CASE IsWrite(l)
  <2>1. /\ line' = l /\ rest' = l.commands /\ read_type' = "none"
        /\ scpiAt' \in {"line", "crashed"}
    BY <1>1 DEF Write, IsWrite
  <2>2. rest' \in Seq(Word)
    BY <2>1, LineType
  <2>3. Left(l, 0)'
    BY <2>1, <2>2 DEF Left
  <2>4. ~Asks(l, 0)
    BY DEF Asks
  <2>5. Begun'
    BY <1>1, <2>1, <2>2, <2>3, <2>4 DEF Begun, IsWrite
  <2> QED
    BY <2>1, <2>5 DEF ReadInv
<1>2. CASE ~IsWrite(l)
  BY <1>2 DEF Write, IsWrite, ReadInv, ReadTypeOfLine
<1> QED
  BY <1>1, <1>2

LEMMA LeftTail ==
  ASSUME Begun, rest # <<>>, UNCHANGED line, rest' = Tail(rest),
         NEW n \in Nat, Left(line, n)
  PROVE  /\ n + 1 \in 1..Len(line.commands)
         /\ Head(rest) = line.commands[n + 1] /\ line.commands[n + 1] \in Word
         /\ rest' \in Seq(Word) /\ Left(line, n + 1)'
<1>1. /\ line.commands \in Seq(Word) /\ rest \in Seq(Word)
      /\ Len(rest) > 0 /\ n + 1 \in 1..Len(line.commands)
      /\ Head(rest) = line.commands[n + 1]
      /\ line.commands[n + 1] \in Word
  BY LineType DEF Begun, Left
<1>2. /\ rest' \in Seq(Word) /\ Len(rest') = Len(rest) - 1
      /\ \A i \in 1..Len(rest') : rest'[i] = rest[i + 1]
  BY <1>1
<1>3. Len(rest) \in Nat /\ Len(line.commands) \in Nat
  BY <1>1
<1>4. \A i \in 1..Len(rest') : rest'[i] = line.commands[(n + 1) + i]
  <2> TAKE i \in 1..Len(rest')
  <2>1. i + 1 \in 1..Len(rest) /\ n + (i + 1) = (n + 1) + i
    BY <1>2, <1>3
  <2> QED
    BY <1>2, <2>1 DEF Left
<1>5. n + 1 \in 0..Len(line.commands) /\ Len(rest') = Len(line.commands) - (n + 1)
  BY <1>1, <1>2, <1>3 DEF Left
<1> QED
  BY <1>1, <1>2, <1>4, <1>5 DEF Left

LEMMA CommandKeeps ==
  ASSUME ReadInv, Command
  PROVE  ReadInv'
<1>1. CASE scpiAt' = "crashed"
  BY <1>1 DEF ReadInv
<1>2. CASE scpiAt' # "crashed"
  <2>1. Begun /\ rest # <<>> /\ line' = line /\ rest' = Tail(rest)
    BY DEF Command, ReadInv
  <2>2. PICK n \in Nat : /\ Left(line, n)
                         /\ read_type = IF Asks(line, n) THEN "parameters" ELSE "none"
    BY <2>1 DEF Begun
  <2>3. /\ n + 1 \in 1..Len(line.commands)
        /\ Head(rest) = line.commands[n + 1] /\ line.commands[n + 1] \in Word
        /\ rest' \in Seq(Word) /\ Left(line, n + 1)'
    BY <2>1, <2>2, LeftTail
  <2>5. Head(rest).word \in DOMAIN Begins
    BY <2>3 DEF Word
  <2>6. Asks(line, n + 1) <=> Asks(line, n) \/ "BSWV?" \in Begins[Head(rest).word]
    BY <2>2, <2>3 DEF Asks
  <2>7. /\ scpiAt' \in {"line", "params"}
        /\ read_type' = IF get_id(Head(rest).word, commands) = "BSWV?"
                        THEN "parameters" ELSE read_type
    BY <1>2 DEF Command
  <2>8. read_type' = IF Asks(line, n + 1) THEN "parameters" ELSE "none"
    BY <2>2, <2>5, <2>6, <2>7, FindsQuestion
  <2>9. Begun'
    <3>1. IsWrite(line)' /\ line' \in Lines
      BY <2>1 DEF Begun, IsWrite
    <3>2. Asks(line, n + 1)' <=> Asks(line, n + 1)
      BY <2>1 DEF Asks
    <3>3. n + 1 \in Nat
      OBVIOUS
    <3> QED
      BY <2>1, <2>3, <2>8, <3>1, <3>2, <3>3 DEF Begun
  <2> QED
    BY <2>7, <2>9 DEF ReadInv
<1> QED
  BY <1>1, <1>2

LEMMA LineDoneKeeps ==
  ASSUME ReadInv, LineDone
  PROVE  ReadInv'
<1>1. Begun /\ rest = <<>>
  BY DEF ReadInv, LineDone
<1>2. PICK n \in Nat : /\ Left(line, n)
                       /\ read_type = IF Asks(line, n) THEN "parameters" ELSE "none"
  BY <1>1 DEF Begun
<1>3. line.commands \in Seq(Word) /\ n = Len(line.commands)
  BY <1>1, <1>2, LineType DEF Begun, Left
<1>4. DOMAIN line.commands = 1..n
  BY <1>3
<1>5. get_id(line.initiator, initiators) # "IDN-SGLT-PRI?" /\ IsWrite(line)
  BY <1>1 DEF Begun, IsWrite
<1>6. Asks(line, n) <=> \E i \in DOMAIN line.commands : "BSWV?" \in Begins[line.commands[i].word]
  BY <1>4 DEF Asks
<1>7. ReadTypeOfLine'
  BY <1>2, <1>5, <1>6 DEF LineDone, ReadTypeOfLine, IsWrite
<1> QED
  BY <1>7 DEF LineDone, ReadInv

LEMMA ReadInvNext == ReadInv /\ [ScpiNext]_<<vars, scpiVars>> => ReadInv'
<1> SUFFICES ASSUME ReadInv, [ScpiNext]_<<vars, scpiVars>> PROVE ReadInv'
  OBVIOUS
<1>1. ASSUME UNCHANGED <<line, rest, read_type>>,
             \/ scpiAt' = scpiAt
             \/ scpiAt' = "crashed"
             \/ scpiAt' \in {"line", "params"} /\ scpiAt \in {"line", "params"}
      PROVE  ReadInv'
  BY <1>1 DEF ReadInv, Begun, Left, Asks, ReadTypeOfLine, IsWrite
<1>2. CASE \E l \in Lines : Write(l)
  BY <1>2, WriteKeeps
<1>3. CASE Command
  BY <1>3, CommandKeeps
<1>4. CASE LineDone
  BY <1>4, LineDoneKeeps
<1>5. CASE ParametersDone
  BY <1>1, <1>5 DEF ParametersDone
<1>6. CASE Parameter
  BY <1>1, <1>6 DEF Parameter, Unknown, Output, Wave, Number_value
<1>7. CASE Restart
  BY <1>7 DEF Restart, ReadInv, ReadTypeOfLine
<1>8. CASE UNCHANGED scpiVars
  BY <1>1, <1>8 DEF scpiVars
<1> QED
  BY <1>2, <1>3, <1>4, <1>5, <1>6, <1>7, <1>8 DEF ScpiNext, Scpi

\* What the next read is for is decided by the last line alone, however many
\* lines and commands there are.
THEOREM ReadAsLineSays == ScpiSpec => []ReadTypeOfLine
<1>1. ReadInv => ReadTypeOfLine
  BY DEF ReadInv, ReadTypeOfLine
<1> QED
  BY <1>1, ReadInvInit, ReadInvNext, PTL DEF ScpiSpec

-----------------------------------------------------------------------------
(* What a line sets *)

Code(k)  == fy_codes[NameAt(line, k)]
Place(k) == <<fy_channels(line.channel), Code(k)>>

(***************************************************************************)
(* The program has got to word p of command n of the line: between two     *)
(* commands, to the beginning of the next.                                 *)
(***************************************************************************)
Spot(n, p) ==
  /\ scpiAt = "params" =>
       /\ n \in 1..Len(line.commands) /\ Left(line, n)
       /\ get_id(line.commands[n].word, commands) \in {"OUTP", "BSWV"}
       /\ p \in 0..Len(line.commands[n].words)
       /\ Len(words) = Len(line.commands[n].words) - p
       /\ \A i \in 1..Len(words) : words[i] = line.commands[n].words[p + i]
  /\ scpiAt = "line" => n \in 1..Len(line.commands) + 1 /\ Left(line, n - 1) /\ p = 0

Past(n, p) == {k \in Named(line) : k[1] < n \/ (k[1] = n /\ k[2] <= p)}

\* The call of set() that is under way is for a parameter that has been
\* reached and the value it is given, the last one if the line is well-formed.
CallInv(n, p) ==
  at # "idle" =>
    /\ scpiAt = "params"
    /\ req.ch = line.channel /\ line.channel <= Channels
    /\ req.value \in Values /\ limited \in Limited(req.value)
    /\ \E k \in Past(n, p) :
         /\ req.param = Code(k)
         /\ GivesValue(line, k) => req.value = ValueAt(line, k)
         /\ WellFormed(line) => \A m \in Past(n, p) : Later(k, m)

\* What the instrument has at T, or will have when it has carried out what waits.
Ahead(T, V) == \/ at = "send" /\ Target = T /\ limited \in V
               \/ Sent(T, V)

\* Of the parameters that have been reached, each has or gets the last value
\* that the line gives it.
Applied(S) ==
  \A k \in S : /\ \A m \in S : Code(m) = Code(k) => Later(k, m)
               /\ Limited(ValueAt(line, k)) \subseteq InRange
               => Ahead(Place(k), Limited(ValueAt(line, k)))

Walk(n, p) == /\ n \in Nat /\ p \in Nat
              /\ Spot(n, p) /\ CallInv(n, p)
              /\ line.channel <= Channels /\ WellFormed(line) => Applied(Past(n, p))

SetInv ==
  /\ toAwg \in Seq(Commands) /\ value \in Values /\ words \in Seq(DOMAIN Begins)
  /\ at # "idle" => scpiAt = "params"
  /\ scpiAt \in {"line", "params"} => rw_channel = line.channel
  /\ line \in Lines \cup {NoLine}
  /\ scpiAt \in {"line", "params"} => \E n, p : Walk(n, p)

-----------------------------------------------------------------------------
(* The places where a parameter is named *)

LEMMA WordsType ==
  ASSUME NEW l \in Lines, NEW i \in 1..Len(l.commands)
  PROVE  /\ l.commands[i].words \in Seq(DOMAIN Begins)
         /\ Len(l.commands[i].words) \in Nat
         /\ DOMAIN l.commands[i].words = 1..Len(l.commands[i].words)
         /\ DOMAIN l.commands = 1..Len(l.commands) /\ Len(l.commands) \in Nat
         /\ l.channel \in Nat
<1>1. l.commands \in Seq(Word) /\ l.channel \in Nat
  BY LineAssumption DEF Word
<1>2. l.commands[i] \in Word
  BY <1>1, ElementOfSeq
<1>3. l.commands[i].words \in Seq(DOMAIN Begins)
  BY <1>2 DEF Word
<1>4. QED
  BY <1>1, <1>3, LenProperties

LEMMA NamedForm ==
  ASSUME NEW l \in Lines \cup {NoLine}, NEW k \in Named(l)
  PROVE  /\ l \in Lines
         /\ \E i \in 1..Len(l.commands) : \E j \in 1..Len(l.commands[i].words) :
              k = <<i, j>>
<1>1. PICK i \in DOMAIN l.commands : k \in {i} \X DOMAIN l.commands[i].words
  BY DEF Named
<1>2. l \in Lines
  <2>1. DOMAIN <<>> = {}
    BY EmptySeq
  <2>2. QED
    BY <1>1, <2>1 DEF NoLine
<1>3. l.commands \in Seq(Word)
  BY <1>2, LineType
<1>4. i \in 1..Len(l.commands)
  BY <1>1, <1>3, LenProperties
<1>5. DOMAIN l.commands[i].words = 1..Len(l.commands[i].words)
  BY <1>2, <1>4, WordsType
<1>6. QED
  BY <1>1, <1>2, <1>4, <1>5

LEMMA NamedMeans ==
  ASSUME NEW l \in Lines, NEW i \in 1..Len(l.commands), NEW j \in 1..Len(l.commands[i].words)
  PROVE  <<i, j>> \in Named(l) <=>
           /\ get_id(l.commands[i].word, commands) \in {"OUTP", "BSWV"}
           /\ get_id(l.commands[i].words[j], parameters) # "unknown"
<1>1. i \in DOMAIN l.commands /\ j \in DOMAIN l.commands[i].words
  BY WordsType
<1>2. <<i, j>> \in UNION {{m} \X DOMAIN l.commands[m].words : m \in DOMAIN l.commands}
  BY <1>1
<1>3. <<i, j>>[1] = i /\ <<i, j>>[2] = j
  OBVIOUS
<1>4. QED
  BY <1>2, <1>3 DEF Named

LEMMA CodeType ==
  ASSUME NEW k \in Named(line), line \in Lines
  PROVE  Code(k) \in Params /\ Place(k) \in Letters \X Params
<1>1. PICK i \in 1..Len(line.commands) : \E j \in 1..Len(line.commands[i].words) : k = <<i, j>>
  BY NamedForm
<1>2. PICK j \in 1..Len(line.commands[i].words) : k = <<i, j>>
  BY <1>1
<1>3. line.commands[i].words[j] \in DOMAIN Begins
  BY WordsType, ElementOfSeq
<1>4. k[1] = i /\ k[2] = j
  BY <1>2
<1>5. get_id(line.commands[i].words[j], parameters) # "unknown"
  BY <1>4 DEF Named
<1>6. Code(k) \in Params
  BY <1>3, <1>4, <1>5, CodeAssumption DEF Code, NameAt
<1>7. QED
  BY <1>6 DEF Place, fy_channels, Letters

-----------------------------------------------------------------------------
(* The commands that the instrument has not carried out *)

LEMMA QueueType ==
  ASSUME toAwg \in Seq(Commands)
  PROVE  Len(toAwg) \in Nat /\ \A i \in 1..Len(toAwg) : toAwg[i] \in Commands
  BY LenProperties, ElementOfSeq

LEMMA SentSet ==
  ASSUME toAwg \in Seq(Commands), NEW T, NEW V, NEW c \in Commands,
         toAwg' = Append(toAwg, c), c[1] = "set", Key(c) = T, c[4] \in V
  PROVE  Sent(T, V)'
<1>0. PICK n : n = Len(toAwg) + 1
  OBVIOUS
<1>1. n \in Nat /\ n # 0
  BY <1>0, QueueType
<1>2. Len(toAwg') = n /\ toAwg'[n] = c
  BY <1>0, AppendProperties
<1>3. n \in 1..Len(toAwg') /\ \A j \in n + 1..Len(toAwg') : FALSE
  BY <1>1, <1>2
<1>4. SetsAt(n, T)' /\ toAwg'[n][4] \in V
  BY <1>2 DEF SetsAt, Key
<1>5. QED
  BY <1>3, <1>4 DEF Sent

\* What is sent after it and sets nothing at T changes nothing.
LEMMA SentMore ==
  ASSUME toAwg \in Seq(Commands), NEW T, NEW V, Sent(T, V),
         toAwg' \in Seq(Commands), UNCHANGED setting,
         Len(toAwg') >= Len(toAwg), \A i \in 1..Len(toAwg) : toAwg'[i] = toAwg[i],
         \A i \in Len(toAwg) + 1..Len(toAwg') : ~SetsAt(i, T)'
  PROVE  Sent(T, V)'
<1>1. Len(toAwg) \in Nat /\ Len(toAwg') \in Nat
  BY LenProperties
<1>2. \A i \in 1..Len(toAwg) : SetsAt(i, T)' <=> SetsAt(i, T)
  BY DEF SetsAt, Key
<1>3. ASSUME NEW i \in 1..Len(toAwg), SetsAt(i, T), toAwg[i][4] \in V,
             \A j \in i + 1..Len(toAwg) : ~SetsAt(j, T)
      PROVE  Sent(T, V)'
  <2>1. i \in 1..Len(toAwg') /\ SetsAt(i, T)' /\ toAwg'[i][4] \in V
    BY <1>1, <1>2, <1>3
  <2>2. ASSUME NEW j \in i + 1..Len(toAwg') PROVE ~SetsAt(j, T)'
    <3>1. \/ j \in Len(toAwg) + 1..Len(toAwg')
          \/ j \in i + 1..Len(toAwg) /\ j \in 1..Len(toAwg)
      BY <1>1, <1>3, <2>2
    <3>2. QED
      BY <1>2, <1>3, <3>1
  <2>3. QED
    BY <2>1, <2>2 DEF Sent
<1>4. ASSUME \A i \in 1..Len(toAwg) : ~SetsAt(i, T), setting[T] \in V
      PROVE  Sent(T, V)'
  <2>1. ASSUME NEW i \in 1..Len(toAwg') PROVE ~SetsAt(i, T)'
    <3>1. i \in Len(toAwg) + 1..Len(toAwg') \/ i \in 1..Len(toAwg)
      BY <1>1, <2>1
    <3>2. QED
      BY <1>2, <1>4, <3>1
  <2>2. QED
    BY <1>4, <2>1 DEF Sent
<1>5. QED
  BY <1>3, <1>4 DEF Sent

LEMMA SentExecute ==
  ASSUME toAwg \in Seq(Commands), NEW T \in Letters \X Params, NEW V \in SUBSET InRange,
         Sent(T, V), Execute
  PROVE  Sent(T, V)'
<1>1. /\ Len(toAwg) \in Nat /\ toAwg # <<>> /\ toAwg' = Tail(toAwg)
  BY QueueType DEF Execute
<1>2. /\ Len(toAwg') = Len(toAwg) - 1 /\ 1 \in 1..Len(toAwg)
      /\ \A i \in 1..Len(toAwg') : toAwg'[i] = toAwg[i + 1]
      /\ Head(toAwg) = toAwg[1]
  BY <1>1, HeadTailProperties, EmptySeq
<1>3. \A i \in 1..Len(toAwg') : /\ SetsAt(i, T)' <=> SetsAt(i + 1, T)
                                /\ i + 1 \in 1..Len(toAwg)
  BY <1>1, <1>2 DEF SetsAt, Key
<1>4. setting'[T] = IF SetsAt(1, T) /\ toAwg[1][4] \in InRange THEN toAwg[1][4] ELSE setting[T]
  <2>1. CASE toAwg[1][1] = "set"
    <3>1. setting' = [k \in Letters \X Params |->
                        IF k = Key(toAwg[1]) /\ toAwg[1][4] \in InRange
                        THEN toAwg[1][4] ELSE setting[k]]
      BY <1>2, <2>1 DEF Execute
    <3>2. QED
      BY <2>1, <3>1 DEF SetsAt
  <2>2. CASE toAwg[1][1] # "set"
    BY <1>2, <2>2 DEF Execute, SetsAt
  <2>3. QED
    BY <2>1, <2>2
<1>5. ASSUME NEW i \in 1..Len(toAwg), SetsAt(i, T), toAwg[i][4] \in V,
             \A j \in i + 1..Len(toAwg) : ~SetsAt(j, T)
      PROVE  Sent(T, V)'
  <2>1. CASE i = 1
    <3>1. \A j \in 1..Len(toAwg') : ~SetsAt(j, T)'
      <4>1. ASSUME NEW j \in 1..Len(toAwg') PROVE j + 1 \in i + 1..Len(toAwg)
        BY <1>1, <1>2, <2>1
      <4>2. QED
        BY <1>3, <1>5, <4>1
    <3>2. setting'[T] \in V
      BY <1>4, <1>5, <2>1
    <3>3. QED
      BY <3>1, <3>2 DEF Sent
  <2>2. CASE i # 1
    <3>1. i - 1 \in 1..Len(toAwg') /\ (i - 1) + 1 = i
      BY <1>1, <1>2, <1>5, <2>2
    <3>2. SetsAt(i - 1, T)' /\ toAwg'[i - 1][4] \in V
      BY <1>2, <1>3, <1>5, <3>1
    <3>3. ASSUME NEW j \in (i - 1) + 1..Len(toAwg') PROVE ~SetsAt(j, T)'
      <4>1. j \in 1..Len(toAwg') /\ j + 1 \in i + 1..Len(toAwg)
        BY <1>1, <1>2, <1>5, <3>3
      <4>2. QED
        BY <1>3, <1>5, <4>1
    <3>4. QED
      BY <3>1, <3>2, <3>3 DEF Sent
  <2>3. QED
    BY <2>1, <2>2
<1>6. ASSUME \A i \in 1..Len(toAwg) : ~SetsAt(i, T), setting[T] \in V
      PROVE  Sent(T, V)'
  <2>1. setting'[T] \in V
    BY <1>2, <1>4, <1>6
  <2>2. \A i \in 1..Len(toAwg') : ~SetsAt(i, T)'
    BY <1>3, <1>6
  <2>3. QED
    BY <2>1, <2>2 DEF Sent
<1>7. QED
  BY <1>5, <1>6 DEF Sent

-----------------------------------------------------------------------------
(* What does not depend on the serial line *)

LEMMA SameLine ==
  ASSUME line' = line
  PROVE  /\ \A n, p : Past(n, p)' = Past(n, p)
         /\ \A k : Code(k)' = Code(k) /\ Place(k)' = Place(k)
         /\ \A k : ValueAt(line, k)' = ValueAt(line, k)
         /\ \A k : GivesValue(line, k)' <=> GivesValue(line, k)
         /\ Named(line)' = Named(line)
         /\ WellFormed(line)' <=> WellFormed(line)
         /\ IsWrite(line)' <=> IsWrite(line)
  BY DEF Past, Code, Place, NameAt, ValueAt, GivesValue, Named, WellFormed, IsWrite

LEMMA SameSpot ==
  ASSUME NEW n, NEW p, Spot(n, p), UNCHANGED <<scpiAt, line, rest, words>>
  PROVE  Spot(n, p)'
  BY DEF Spot, Left

LEMMA SameApplied ==
  ASSUME NEW S, Applied(S), at = "idle", UNCHANGED <<line, toAwg, setting>>
  PROVE  Applied(S)'
<1>1. \A T, V : Ahead(T, V) => Ahead(T, V)'
  BY DEF Ahead, Sent, SetsAt, Key
<1>2. QED
  BY <1>1, SameLine DEF Applied

\* The program walks on, and reaches nothing that is named.
LEMMA WalkOn ==
  ASSUME NEW n \in Nat, NEW p \in Nat, Walk(n, p), NEW m \in Nat, NEW q \in Nat,
         at = "idle", UNCHANGED <<line, at, toAwg, setting>>,
         Past(m, q) = Past(n, p), Spot(m, q)'
  PROVE  Walk(m, q)'
<1>1. CallInv(m, q)'
  BY DEF CallInv
<1>2. Past(m, q)' = Past(n, p)
  BY SameLine
<1>3. (line.channel <= Channels /\ WellFormed(line))' => Applied(Past(n, p))'
  <2>1. \A S : Applied(S) => Applied(S)'
    BY SameApplied
  <2>2. PICK S : S = Past(n, p)
    OBVIOUS
  <2>3. Past(n, p)' = S
    BY <2>2, SameLine
  <2>4. Applied(Past(n, p))' <=> Applied(S)'
    BY <2>3 DEF Applied
  <2>5. QED
    BY <2>1, <2>2, <2>4, SameLine DEF Walk
<1>4. QED
  BY <1>1, <1>2, <1>3, SameLine DEF Walk, Applied

\* A line that names nothing, or of which nothing has been carried out.
LEMMA WalkBegins ==
  ASSUME NEW n \in Nat, Past(n, 0) = {}, Spot(n, 0), at = "idle"
  PROVE  Walk(n, 0)
  BY DEF Walk, CallInv, Applied

LEMMA NothingYet == line \in Lines \cup {NoLine} => Past(1, 0) = {}
<1> SUFFICES ASSUME line \in Lines \cup {NoLine}, NEW k \in Past(1, 0) PROVE FALSE
  OBVIOUS
<1>1. k \in Named(line) /\ (k[1] < 1 \/ (k[1] = 1 /\ k[2] <= 0))
  BY DEF Past
<1>2. PICK i \in 1..Len(line.commands) : \E j \in 1..Len(line.commands[i].words) : k = <<i, j>>
  BY <1>1, NamedForm
<1>3. PICK j \in 1..Len(line.commands[i].words) : k = <<i, j>>
  BY <1>2
<1>4. line \in Lines
  BY <1>1, NamedForm
<1>5. QED
  BY <1>1, <1>3, <1>4, WordsType

LEMMA SetInit == ScpiInit => SetInv
<1>1. ScpiInit => /\ toAwg = <<>> /\ value = 0 /\ at = "idle" /\ line = NoLine
                  /\ scpiAt = "ready" /\ words = <<>>
  BY DEF ScpiInit, Init
<1>2. QED
  BY <1>1, EmptySeq, SineAssumption DEF SetInv

LEMMA SetRestart == SetInv /\ Restart => SetInv'
<1> SUFFICES ASSUME SetInv, Restart PROVE SetInv'
  OBVIOUS
<1>1. /\ toAwg' = toAwg /\ value' = 0 /\ at' = "idle" /\ line' = NoLine /\ scpiAt' = "ready"
      /\ words' = <<>>
  BY DEF Restart
<1>2. QED
  BY <1>1, EmptySeq, SineAssumption DEF SetInv

LEMMA SetWrite ==
  ASSUME SetInv, NEW l \in Lines, Write(l), UNCHANGED vars
  PROVE  SetInv'
<1>1. /\ scpiAt = "ready" /\ line' = l /\ at = "idle" /\ at' = "idle"
      /\ UNCHANGED <<toAwg, value, words>>
      /\ scpiAt' \in {"line", "ready", "crashed"}
      /\ scpiAt' = "line" => rw_channel' = l.channel /\ rest' = l.commands
  BY DEF SetInv, Write, vars
<1>2. ASSUME scpiAt' = "line" PROVE Walk(1, 0)'
  <2>1. l.commands \in Seq(Word) /\ Len(l.commands) \in Nat
    BY LineType, LenProperties
  <2>2. Left(l, 0)'
    BY <1>1, <1>2, <2>1 DEF Left
  <2>3. Spot(1, 0)'
    BY <1>1, <1>2, <2>1, <2>2 DEF Spot
  <2>4. Past(1, 0)' = {}
    <3>1. (line \in Lines \cup {NoLine} => Past(1, 0) = {})'
      BY NothingYet, PTL
    <3>2. QED
      BY <1>1, <3>1
  <2>5. QED
    BY <1>1, <2>3, <2>4 DEF Walk, CallInv, Applied
<1>3. QED
  BY <1>1, <1>2 DEF SetInv

LEMMA SetCommand ==
  ASSUME SetInv, ReadInv, Command, UNCHANGED vars
  PROVE  SetInv'
<1>0. /\ scpiAt = "line" /\ rest # <<>> /\ UNCHANGED <<line, rw_channel>>
      /\ at = "idle" /\ at' = "idle" /\ UNCHANGED <<toAwg, setting>>
      /\ rest' = Tail(rest) /\ Begun
      /\ scpiAt' \in {"line", "params", "crashed"}
  BY DEF SetInv, Command, vars, ReadInv
<1>1. toAwg' \in Seq(Commands) /\ value' \in Values
  BY <1>0 DEF SetInv, Command
<1>2. PICK n, p : Walk(n, p)
  BY <1>0 DEF SetInv
<1>3. line \in Lines /\ n \in Nat /\ n # 0 /\ Left(line, n - 1) /\ p = 0
  BY <1>0, <1>2, LineType, LenProperties DEF Walk, Spot, Begun
<1>4. /\ n \in 1..Len(line.commands) /\ Left(line, n)'
      /\ Head(rest) = line.commands[n] /\ line.commands[n] \in Word
  <2>1. n - 1 \in Nat /\ (n - 1) + 1 = n
    BY <1>3
  <2>2. QED
    BY <1>0, <1>3, <2>1, LeftTail
<1>5. Len(line.commands) \in Nat
  BY <1>3, LineType, LenProperties
<1>6. ASSUME scpiAt' = "params" PROVE Walk(n, 0)'
  <2>1. words' = line.commands[n].words /\ get_id(line.commands[n].word, commands) \in {"OUTP", "BSWV"}
    BY <1>0, <1>4, <1>6 DEF Command
  <2>2. Len(line.commands[n].words) \in Nat
    BY <1>3, <1>4, WordsType
  <2>3. Spot(n, 0)'
    BY <1>0, <1>4, <1>6, <2>1, <2>2 DEF Spot
  <2>4. QED
    BY <1>0, <1>2, <1>3, <2>3, WalkOn
<1>7. ASSUME scpiAt' = "line" PROVE Walk(n + 1, 0)'
  <2>1. get_id(line.commands[n].word, commands) \notin {"OUTP", "BSWV"}
    BY <1>0, <1>4, <1>7 DEF Command
  <2>2. (n + 1) - 1 = n
    BY <1>3
  <2>3. Spot(n + 1, 0)'
    BY <1>0, <1>4, <1>5, <1>7, <2>2 DEF Spot
  <2>4. ASSUME NEW k \in Named(line) PROVE k[1] # n /\ k[1] \in Nat /\ k[2] \in Nat \ {0}
    <3>1. PICK i \in 1..Len(line.commands) : \E j \in 1..Len(line.commands[i].words) : k = <<i, j>>
      BY NamedForm, <1>3
    <3>2. PICK j \in 1..Len(line.commands[i].words) : k = <<i, j>>
      BY <3>1
    <3>3. k[1] = i /\ k[2] = j /\ i \in Nat /\ j \in Nat \ {0}
      BY <1>3, <1>5, <3>2, WordsType
    <3>4. get_id(line.commands[i].word, commands) \in {"OUTP", "BSWV"}
      BY <1>3, <3>2, NamedMeans
    <3>5. QED
      BY <2>1, <3>3, <3>4
  <2>5. \A k \in Named(line) : (k[1] < n + 1 \/ (k[1] = n + 1 /\ k[2] <= 0))
                                 <=> (k[1] < n \/ (k[1] = n /\ k[2] <= 0))
    BY <1>3, <2>4
  <2>6. Past(n + 1, 0) = Past(n, 0)
    BY <2>5 DEF Past
  <2>7. QED
    BY <1>0, <1>2, <1>3, <2>3, <2>6, WalkOn
<1>8. words' \in Seq(DOMAIN Begins)
  BY <1>0, <1>4 DEF SetInv, Command, Word
<1>9. QED
  BY <1>0, <1>1, <1>6, <1>7, <1>8 DEF SetInv

LEMMA SetLineDone ==
  ASSUME SetInv, LineDone, UNCHANGED vars
  PROVE  SetInv'
  BY DEF SetInv, LineDone, vars

LEMMA SetParametersDone ==
  ASSUME SetInv, ReadInv, ParametersDone, UNCHANGED vars
  PROVE  SetInv'
<1>0. /\ scpiAt = "params" /\ scpiAt' = "line" /\ words = <<>>
      /\ UNCHANGED <<line, value, rest, words, rw_channel>>
      /\ at = "idle" /\ at' = "idle" /\ UNCHANGED <<toAwg, setting>> /\ line \in Lines
  BY DEF SetInv, ParametersDone, vars, ReadInv, Begun
<1>1. PICK n, p : Walk(n, p)
  BY <1>0 DEF SetInv
<1>2. /\ n \in 1..Len(line.commands) /\ Left(line, n) /\ n \in Nat
      /\ p = Len(line.commands[n].words) /\ Len(line.commands) \in Nat /\ p \in Nat
  <2>1. Len(<<>>) = 0 /\ n \in 1..Len(line.commands)
    BY <1>0, <1>1, EmptySeq DEF Walk, Spot
  <2>2. Len(line.commands[n].words) \in Nat /\ Len(line.commands) \in Nat
    BY <1>0, <2>1, WordsType
  <2>3. QED
    BY <1>0, <1>1, <2>1, <2>2 DEF Walk, Spot
<1>3. Spot(n + 1, 0)'
  <2>1. (n + 1) - 1 = n /\ n + 1 \in 1..Len(line.commands) + 1
    BY <1>2
  <2>2. Left(line, n)'
    BY <1>0, <1>2 DEF Left
  <2>3. QED
    BY <1>0, <2>1, <2>2 DEF Spot
<1>4. Past(n + 1, 0) = Past(n, p)
  <2>1. ASSUME NEW k \in Named(line)
        PROVE  (k[1] < n + 1 \/ (k[1] = n + 1 /\ k[2] <= 0))
                 <=> (k[1] < n \/ (k[1] = n /\ k[2] <= p))
    <3>1. PICK i \in 1..Len(line.commands) : \E j \in 1..Len(line.commands[i].words) : k = <<i, j>>
      BY NamedForm, <1>0
    <3>2. PICK j \in 1..Len(line.commands[i].words) : k = <<i, j>>
      BY <3>1
    <3>3. k[1] = i /\ k[2] = j /\ i \in Nat /\ j \in Nat \ {0} /\ j <= Len(line.commands[i].words)
      BY <1>0, <1>2, <3>2, WordsType
    <3>4. QED
      BY <1>2, <3>3
  <2>2. QED
    BY <2>1 DEF Past
<1>5. Walk(n + 1, 0)'
  BY <1>0, <1>1, <1>2, <1>3, <1>4, WalkOn
<1>6. QED
  BY <1>0, <1>5 DEF SetInv

(* The word that a turn of process_parameters looks at. *)
LEMMA AtWord ==
  ASSUME SetInv, ReadInv, Parameter, NEW n, NEW p, Walk(n, p)
  PROVE  /\ scpiAt = "params" /\ at = "idle" /\ line \in Lines /\ rw_channel = line.channel
         /\ n \in 1..Len(line.commands) /\ n \in Nat /\ p \in Nat
         /\ Len(line.commands[n].words) \in Nat
         /\ p + 1 \in 1..Len(line.commands[n].words)
         /\ Len(words) = Len(line.commands[n].words) - p
         /\ \A i \in 1..Len(words) : words[i] = line.commands[n].words[p + i]
         /\ words \in Seq(DOMAIN Begins)
         /\ Id = get_id(line.commands[n].words[p + 1], parameters)
         /\ NameAt(line, <<n, p + 1>>) = Id
         /\ Id # "unknown" <=> <<n, p + 1>> \in Named(line)
<1>1. /\ scpiAt = "params" /\ at = "idle" /\ words # <<>> /\ line \in Lines
      /\ rw_channel = line.channel
  BY DEF SetInv, ReadInv, Begun, Parameter
<1>2. /\ n \in 1..Len(line.commands) /\ n \in Nat /\ p \in Nat
      /\ p \in 0..Len(line.commands[n].words)
      /\ Len(words) = Len(line.commands[n].words) - p
      /\ \A i \in 1..Len(words) : words[i] = line.commands[n].words[p + i]
      /\ get_id(line.commands[n].word, commands) \in {"OUTP", "BSWV"}
  BY <1>1 DEF Walk, Spot
<1>3. /\ line.commands[n].words \in Seq(DOMAIN Begins)
      /\ Len(line.commands[n].words) \in Nat
  BY <1>1, <1>2, WordsType
<1>4. words \in Seq(DOMAIN Begins)
  BY DEF SetInv
<1>5. p + 1 \in 1..Len(line.commands[n].words) /\ 1 \in 1..Len(words)
  BY <1>1, <1>2, <1>3, <1>4, EmptySeq
<1>6. Id = get_id(line.commands[n].words[p + 1], parameters)
  BY <1>1, <1>2, <1>4, <1>5, HeadTailProperties DEF Id
<1>7. <<n, p + 1>>[1] = n /\ <<n, p + 1>>[2] = p + 1
  OBVIOUS
<1>8. NameAt(line, <<n, p + 1>>) = Id
  BY <1>6, <1>7 DEF NameAt
<1>9. Id # "unknown" <=> <<n, p + 1>> \in Named(line)
  BY <1>1, <1>2, <1>5, <1>6, NamedMeans
<1>10. QED
  BY <1>1, <1>2, <1>3, <1>4, <1>5, <1>6, <1>8, <1>9

(* It goes on by q words. *)
LEMMA SpotOn ==
  ASSUME SetInv, ReadInv, Parameter, NEW n, NEW p, Walk(n, p),
         scpiAt' = "params", NEW q \in 1..2,
         words' = SubSeq(words, q + 1, Len(words))
  PROVE  \E r \in Nat : /\ Spot(n, r)' /\ words' \in Seq(DOMAIN Begins)
                        /\ r \in {p + 1, p + 2} /\ r <= p + q
                        /\ r <= Len(line.commands[n].words)
                        /\ r = Len(line.commands[n].words) \/ r = p + q
<1> DEFINE L == Len(line.commands[n].words)
<1>1. /\ scpiAt = "params" /\ at = "idle" /\ line \in Lines
      /\ n \in 1..Len(line.commands) /\ p \in Nat /\ L \in Nat
      /\ p + 1 \in 1..L /\ Len(words) = L - p
      /\ \A i \in 1..Len(words) : words[i] = line.commands[n].words[p + i]
      /\ words \in Seq(DOMAIN Begins)
      /\ UNCHANGED <<line, rest>>
  BY AtWord DEF Parameter
<1>2. Left(line, n) /\ get_id(line.commands[n].word, commands) \in {"OUTP", "BSWV"}
  BY <1>1 DEF Walk, Spot
<1>3. /\ words' \in Seq(DOMAIN Begins)
      /\ Len(words') = IF q + 1 <= Len(words) THEN Len(words) - q ELSE 0
      /\ \A i \in 1..Len(words') : words'[i] = words[q + i]
  <2>1. Len(words) \in Nat /\ q + 1 \in Int
    BY <1>1
  <2>2. \A i \in q + 1..Len(words) : words[i] \in DOMAIN Begins
    BY <1>1, <2>1, ElementOfSeq
  <2>3. /\ SubSeq(words, q + 1, Len(words)) \in Seq(DOMAIN Begins)
        /\ Len(SubSeq(words, q + 1, Len(words)))
             = IF q + 1 <= Len(words) THEN Len(words) - (q + 1) + 1 ELSE 0
        /\ \A i \in 1..(Len(words) - (q + 1) + 1) :
             SubSeq(words, q + 1, Len(words))[i] = words[(q + 1) + i - 1]
    BY <2>1, <2>2, SubSeqProperties
  <2>4. QED
    BY <2>1, <2>3
<1>4. PICK r : r = IF p + q <= L THEN p + q ELSE L
  OBVIOUS
<1>5. r \in Nat /\ r \in {p + 1, p + 2} /\ r <= p + q /\ r <= L /\ (r = L \/ r = p + q)
  BY <1>1, <1>4
<1>6. Len(words') = L - r /\ \A i \in 1..Len(words') : words'[i] = line.commands[n].words[r + i]
  <2>1. Len(words') = L - r
    <3>1. L \in Nat /\ Len(words) = L - p /\ p \in Nat /\ p + 1 <= L
      BY <1>1
    <3> HIDE DEF L
    <3>2. CASE p + q <= L
      <4>1. r = p + q
        BY <1>4, <3>2
      <4>2. Len(words') = Len(words) - q
        BY <1>3, <3>1, <3>2
      <4>3. QED
        BY <3>1, <4>1, <4>2
    <3>3. CASE ~(p + q <= L)
      <4>1. r = L
        BY <1>4, <3>3
      <4>2. Len(words') = 0
        BY <1>3, <3>1, <3>3
      <4>3. QED
        BY <3>1, <4>1, <4>2
    <3>4. QED
      BY <3>2, <3>3
  <2>2. ASSUME NEW i \in 1..Len(words') PROVE words'[i] = line.commands[n].words[r + i]
    <3>1. r = p + q /\ q + i \in 1..Len(words) /\ r + i = p + (q + i)
      <4>1. L \in Nat /\ Len(words) = L - p /\ p \in Nat /\ p + 1 <= L
        BY <1>1
      <4> HIDE DEF L
      <4>2. i \in 1..L - r
        BY <2>1
      <4>3. r = p + q
        BY <1>5, <4>1, <4>2
      <4>4. QED
        BY <4>1, <4>2, <4>3
    <3>2. QED
      BY <1>1, <1>3, <2>2, <3>1
  <2>3. QED
    BY <2>1, <2>2
<1>7. Spot(n, r)'
  <2>1. Left(line, n)'
    BY <1>1, <1>2 DEF Left
  <2>2. r \in 0..L
    BY <1>1, <1>5
  <2>3. QED
    BY <1>1, <1>2, <1>6, <2>1, <2>2 DEF Spot
<1>8. QED
  BY <1>3, <1>5, <1>7

(* A call of set() begins, for the word after the first p. *)
LEMMA CallBegins ==
  ASSUME SetInv, ReadInv, Parameter, NEW n, NEW p, Walk(n, p),
         NEW v \in Values, Set(v), Id # "unknown",
         NEW r \in Nat, r \in {p + 1, p + 2}, Spot(n, r)', scpiAt' = "params",
         GivesValue(line, <<n, p + 1>>) => v = ValueAt(line, <<n, p + 1>>),
         WellFormed(line) /\ r = p + 2 => <<n, p + 2>> \notin Named(line)
  PROVE  Walk(n, r)'
<1> DEFINE d == <<n, p + 1>>
<1>1. /\ line \in Lines /\ rw_channel = line.channel /\ line' = line /\ at = "idle"
      /\ n \in Nat /\ p \in Nat /\ d \in Named(line) /\ Code(d) = fy_codes[Id]
  BY AtWord DEF Parameter, Code
<1>2. /\ req' = [ch |-> line.channel, param |-> Code(d), value |-> v]
      /\ UNCHANGED <<toAwg, setting>>
      /\ line.channel > Channels => at' = "idle"
      /\ ~(line.channel > Channels) => at' = "send" /\ limited' \in Limited(v)
  BY <1>1 DEF Set, Call
<1>3. d[1] = n /\ d[2] = p + 1
  OBVIOUS
<1>4. d \in Past(n, r)
  BY <1>1, <1>3 DEF Past
<1>5. \A k \in Named(line) : k[1] \in Nat /\ k[2] \in Nat /\ k = <<k[1], k[2]>>
  <2>1. ASSUME NEW k \in Named(line) PROVE k[1] \in Nat /\ k[2] \in Nat /\ k = <<k[1], k[2]>>
    <3>1. PICK i \in 1..Len(line.commands) : \E j \in 1..Len(line.commands[i].words) : k = <<i, j>>
      BY NamedForm, <1>1
    <3>2. PICK j \in 1..Len(line.commands[i].words) : k = <<i, j>>
      BY <3>1
    <3>3. QED
      BY <1>1, <3>2, WordsType
  <2>2. QED
    BY <2>1
<1>6. WellFormed(line) => Past(n, r) = Past(n, p) \cup {d}
  <2> SUFFICES ASSUME WellFormed(line) PROVE Past(n, r) = Past(n, p) \cup {d}
    OBVIOUS
  <2>1. ASSUME NEW k \in Past(n, r) PROVE k \in Past(n, p) \/ k = d
    <3>1. k \in Named(line) /\ (k[1] < n \/ (k[1] = n /\ k[2] <= r))
      BY DEF Past
    <3>2. CASE k[1] < n \/ (k[1] = n /\ k[2] <= p)
      BY <3>1, <3>2 DEF Past
    <3>3. CASE k[1] = n /\ k[2] > p
      <4>1. k[2] = p + 1 \/ (k[2] = p + 2 /\ r = p + 2)
        BY <1>1, <1>5, <3>1, <3>3
      <4>2. k[2] = p + 1
        BY <1>5, <3>1, <3>3, <4>1
      <4>3. QED
        BY <1>5, <3>1, <3>3, <4>2
    <3>4. QED
      BY <1>1, <1>5, <3>1, <3>2, <3>3
  <2>2. Past(n, p) \subseteq Past(n, r)
    BY <1>1, <1>5 DEF Past
  <2>3. QED
    BY <1>4, <2>1, <2>2
<1>7. WellFormed(line) => \A m \in Past(n, r) : Later(d, m)
  <2>1. \A m \in Past(n, p) : Later(d, m)
    BY <1>1, <1>3, <1>5 DEF Past, Later
  <2>2. Later(d, d)
    BY <1>1, <1>3 DEF Later
  <2>3. QED
    BY <1>6, <2>1, <2>2
<1>8. CallInv(n, r)'
  <2> SUFFICES ASSUME at' # "idle" PROVE CallInv(n, r)'
    BY DEF CallInv
  <2>1. ~(line.channel > Channels)
    BY <1>2
  <2>2. line.channel <= Channels
    <3>1. line.channel \in Nat /\ Channels \in Nat
      BY <1>1, LineAssumption, RetryAssumption
    <3>2. QED
      BY <2>1, <3>1
  <2>3. /\ req'.ch = line'.channel /\ req'.value \in Values /\ limited' \in Limited(req'.value)
        /\ req'.param = Code(d) /\ req'.value = v
    BY <1>1, <1>2, <2>1
  <2> HIDE DEF d
  <2>4. \E k \in Past(n, r) :
          /\ req'.param = Code(k)
          /\ GivesValue(line, k) => req'.value = ValueAt(line, k)
          /\ WellFormed(line) => \A m \in Past(n, r) : Later(k, m)
    BY <1>4, <1>7, <2>3 DEF d
  <2>5. QED
    BY <1>1, <2>2, <2>3, <2>4, SameLine DEF CallInv
<1>9. ASSUME line.channel <= Channels, WellFormed(line)
      PROVE  Applied(Past(n, r))'
  <2>1. at' = "send" /\ limited' \in Limited(v)
    <3>1. line.channel \in Nat /\ Channels \in Nat
      BY <1>1, LineAssumption, RetryAssumption
    <3>2. QED
      BY <1>2, <1>9, <3>1
  <2>2. Target' = Place(d) /\ v = ValueAt(line, d)
    BY <1>1, <1>2, <1>9 DEF Target, Place, WellFormed
  <2>3. Ahead(Place(d), Limited(ValueAt(line, d)))'
    <3>1. PICK T, V : T = Place(d) /\ V = Limited(ValueAt(line, d))
      OBVIOUS
    <3>2. Ahead(T, V)'
      BY <2>1, <2>2, <3>1 DEF Ahead
    <3>3. Place(d)' = T /\ Limited(ValueAt(line, d))' = V
      BY <1>1, <3>1, SameLine DEF Limited, Rounded
    <3>4. QED
      BY <3>2, <3>3 DEF Ahead, Sent, SetsAt, Key
  <2>4. \A T, V : Sent(T, V) => Sent(T, V)'
    BY <1>2 DEF Sent, SetsAt, Key
  <2>5. Applied(Past(n, p))
    BY <1>9 DEF Walk
  <2>6. ASSUME NEW k \in Past(n, r),
               \A m \in Past(n, r) : Code(m) = Code(k) => Later(k, m),
               Limited(ValueAt(line, k)) \subseteq InRange
        PROVE  Ahead(Place(k), Limited(ValueAt(line, k)))'
    <3>1. CASE k = d
      BY <2>3, <3>1
    <3>2. CASE k \in Past(n, p)
      <4>1. Sent(Place(k), Limited(ValueAt(line, k)))
        BY <1>1, <1>6, <1>9, <2>5, <2>6, <3>2 DEF Applied, Ahead
      <4>2. PICK T, V : T = Place(k) /\ V = Limited(ValueAt(line, k))
        OBVIOUS
      <4>3. Sent(T, V)'
        BY <2>4, <4>1, <4>2
      <4>4. Place(k)' = T /\ Limited(ValueAt(line, k))' = V
        BY <1>1, <4>2, SameLine DEF Limited, Rounded
      <4>5. QED
        BY <4>3, <4>4 DEF Ahead, Sent, SetsAt, Key
    <3>3. QED
      BY <1>6, <1>9, <3>1, <3>2
  <2>7. QED
    BY <1>1, <2>6, SameLine DEF Applied, Limited, Rounded
<1>10. QED
  BY <1>1, <1>8, <1>9, SameLine DEF Walk

LEMMA WellFormedAt ==
  ASSUME WellFormed(line), NEW n \in Nat, NEW p \in Nat, <<n, p + 1>> \in Named(line),
         NameAt(line, <<n, p + 1>>) \notin {"OFF", "ON"}
  PROVE  <<n, p + 2>> \notin Named(line)
<1> DEFINE k == <<n, p + 1>>
<1>1. k[1] = n /\ k[2] + 1 = p + 2
  OBVIOUS
<1> HIDE DEF k
<1>2. <<k[1], k[2] + 1>> \notin Named(line)
  BY DEF WellFormed, k
<1>3. QED
  BY <1>1, <1>2

\* The value that is given in the word after a name.
LEMMA GivenAt ==
  ASSUME NEW n \in Nat, NEW p \in Nat, GivesValue(line, <<n, p + 1>>),
         NameAt(line, <<n, p + 1>>) \notin {"OFF", "ON", "WVTP"}
  PROVE  /\ line.commands[n].words[p + 2] \in DOMAIN NumberOf
         /\ ValueAt(line, <<n, p + 1>>) = NumberOf[line.commands[n].words[p + 2]]
<1> DEFINE k == <<n, p + 1>>
<1>1. k[1] = n /\ k[2] + 1 = p + 2
  OBVIOUS
<1> HIDE DEF k
<1>2. line.commands[k[1]].words[k[2] + 1] \in DOMAIN NumberOf
  BY DEF GivesValue, k
<1>3. ValueAt(line, k) = NumberOf[line.commands[k[1]].words[k[2] + 1]]
  BY DEF ValueAt, k
<1>4. QED
  BY <1>1, <1>2, <1>3 DEF k

LEMMA SetParameter ==
  ASSUME SetInv, ReadInv, Parameter
  PROVE  SetInv'
<1>1. PICK n, p : Walk(n, p)
  BY DEF SetInv, Parameter
<1>2. /\ scpiAt = "params" /\ at = "idle" /\ line \in Lines /\ rw_channel = line.channel
      /\ n \in 1..Len(line.commands) /\ n \in Nat /\ p \in Nat
      /\ Len(line.commands[n].words) \in Nat
      /\ p + 1 \in 1..Len(line.commands[n].words)
      /\ Len(words) = Len(line.commands[n].words) - p
      /\ \A i \in 1..Len(words) : words[i] = line.commands[n].words[p + i]
      /\ words \in Seq(DOMAIN Begins)
      /\ NameAt(line, <<n, p + 1>>) = Id
      /\ Id # "unknown" <=> <<n, p + 1>> \in Named(line)
      /\ UNCHANGED <<line, rest, rw_channel>>
  BY <1>1, AtWord DEF Parameter
<1>3. words # <<>> /\ Tail(words) = SubSeq(words, 2, Len(words))
  BY <1>2, TailIsSubSeq DEF Parameter
<1>4. ASSUME scpiAt' = "params", value' \in Values, words' \in Seq(DOMAIN Begins),
             toAwg' = toAwg, \E r : Walk(n, r)'
      PROVE  SetInv'
  BY <1>2, <1>4 DEF SetInv
<1>5. CASE Unknown
  <2>1. /\ Id = "unknown" /\ words' = SubSeq(words, 1 + 1, Len(words)) /\ scpiAt' = "params"
        /\ UNCHANGED <<value, at, toAwg, setting>>
    BY <1>2, <1>3, <1>5 DEF Unknown, vars
  <2>2. PICK r \in Nat : Spot(n, r)' /\ words' \in Seq(DOMAIN Begins) /\ r \in {p + 1, p + 2} /\ r <= p + 1
    BY <1>1, <2>1, SpotOn
  <2>3. r = p + 1
    BY <1>2, <2>2
  <2>4. Past(n, p + 1) = Past(n, p)
    <3>1. ASSUME NEW k \in Named(line)
          PROVE  (k[1] < n \/ (k[1] = n /\ k[2] <= p + 1)) <=> (k[1] < n \/ (k[1] = n /\ k[2] <= p))
      <4>1. PICK i \in 1..Len(line.commands) : \E j \in 1..Len(line.commands[i].words) : k = <<i, j>>
        BY NamedForm, <1>2
      <4>2. PICK j \in 1..Len(line.commands[i].words) : k = <<i, j>>
        BY <4>1
      <4>3. k[1] = i /\ k[2] = j /\ i \in Nat /\ j \in Nat
        BY <1>2, <4>2, WordsType
      <4>4. ~(i = n /\ j = p + 1)
        BY <1>2, <2>1, <4>2
      <4>5. QED
        BY <1>2, <4>3, <4>4
    <3>2. QED
      BY <3>1 DEF Past
  <2>5. Walk(n, r)'
    BY <1>1, <1>2, <2>1, <2>2, <2>3, <2>4, WalkOn
  <2>6. QED
    BY <1>4, <2>1, <2>2, <2>5 DEF SetInv
<1>6. CASE Output
  <2>1. /\ Id \in {"OFF", "ON"} /\ Id # "unknown"
        /\ words' = SubSeq(words, 1 + 1, Len(words)) /\ scpiAt' = "params"
        /\ value' = (IF Id = "ON" THEN 1 ELSE 0) /\ Set(value') /\ toAwg' = toAwg
    BY <1>2, <1>3, <1>6 DEF Output, Set, Call
  <2>2. PICK r \in Nat : Spot(n, r)' /\ words' \in Seq(DOMAIN Begins) /\ r \in {p + 1, p + 2} /\ r <= p + 1
    BY <1>1, <2>1, SpotOn
  <2>3. PICK v \in Values : v = value'
    BY <2>1, SineAssumption
  <2>4. v = ValueAt(line, <<n, p + 1>>) /\ r # p + 2 /\ Set(v)
    BY <1>2, <2>1, <2>2, <2>3 DEF ValueAt
  <2>5. Walk(n, r)'
    BY <1>1, <2>1, <2>2, <2>4, CallBegins
  <2>6. QED
    BY <1>4, <2>1, <2>2, <2>3, <2>5
<1>7. CASE Wave
  <2>1. /\ Id = "WVTP" /\ Id # "unknown"
        /\ words' = SubSeq(words, 2 + 1, Len(words)) /\ scpiAt' = "params"
        /\ value' = Sine /\ Set(Sine) /\ toAwg' = toAwg /\ Sine \in Values
    BY <1>2, <1>7, SineAssumption DEF Wave, Set, Call
  <2>2. PICK r \in Nat : Spot(n, r)' /\ words' \in Seq(DOMAIN Begins) /\ r \in {p + 1, p + 2}
    BY <1>1, <2>1, SpotOn
  <2>3. /\ WellFormed(line) => <<n, p + 2>> \notin Named(line)
        /\ Sine = ValueAt(line, <<n, p + 1>>)
    BY <1>2, <2>1, WellFormedAt DEF ValueAt
  <2>4. Walk(n, r)'
    BY <1>1, <2>1, <2>2, <2>3, CallBegins
  <2>5. QED
    BY <1>4, <2>1, <2>2, <2>4
<1>8. CASE Number_value
  <2>1. /\ Id \notin {"OFF", "ON", "WVTP", "unknown"}
        /\ words' = SubSeq(words, 2 + 1, Len(words)) /\ toAwg' = toAwg
    BY <1>8 DEF Number_value, AfterValue, Set, Call, vars
  <2>2. CASE Len(words) = 1
    <3>1. scpiAt' = "crashed" /\ value' = value /\ at' = at
      BY <1>8, <2>2 DEF Number_value, vars
    <3>2. words' \in Seq(DOMAIN Begins)
      <4>1. \A i \in 3..Len(words) : words[i] \in DOMAIN Begins
        BY <2>2
      <4>2. QED
        BY <1>2, <2>1, <2>2, <4>1, SubSeqProperties
    <3>3. QED
      BY <1>2, <2>1, <3>1, <3>2 DEF SetInv
  <2>3. CASE Len(words) # 1
    <3>1. /\ scpiAt' = "params" /\ Set(value')
          /\ value' = IF words[2] \in DOMAIN NumberOf THEN NumberOf[words[2]] ELSE value
      BY <1>2, <1>8, <2>3 DEF Number_value
    <3>2. PICK r \in Nat : Spot(n, r)' /\ words' \in Seq(DOMAIN Begins) /\ r \in {p + 1, p + 2}
      BY <1>1, <2>1, <3>1, SpotOn
    <3>3. PICK v \in Values : v = value'
      BY <3>1, NumberAssumption DEF SetInv
    <3>4. 2 \in 1..Len(words) /\ words[2] = line.commands[n].words[p + 2]
      BY <1>2, <2>3
    <3>5. /\ WellFormed(line) => <<n, p + 2>> \notin Named(line)
          /\ GivesValue(line, <<n, p + 1>>) => v = ValueAt(line, <<n, p + 1>>)
      BY <1>2, <2>1, <3>1, <3>3, <3>4, WellFormedAt, GivenAt
    <3>6. Walk(n, r)'
      BY <1>1, <2>1, <3>1, <3>2, <3>3, <3>5, CallBegins
    <3>7. QED
      BY <1>4, <2>1, <3>1, <3>2, <3>3, <3>6
  <2>4. QED
    BY <2>2, <2>3
<1>9. QED
  BY <1>5, <1>6, <1>7, <1>8 DEF Parameter

-----------------------------------------------------------------------------
(* The serial line, while the program stays where it is *)

LEMMA CommandsType ==
  /\ <<"blank">> \in Commands
  /\ \A k \in Letters \X Params : <<"get", k[1], k[2]>> \in Commands
  /\ \A k \in Letters \X Params, v \in Values : \A x \in Limited(v) :
       <<"set", k[1], k[2], x>> \in Commands
<1>1. \A v \in Values : Limited(v) \subseteq Numbers
  BY DEF Numbers
<1>2. QED
  BY <1>1 DEF Commands, Readings

(* The call that is under way, and the parameter it is for. *)
LEMMA UnderWay ==
  ASSUME SetInv, ReadInv, at # "idle", NEW n, NEW p, Walk(n, p)
  PROVE  /\ line \in Lines /\ IsWrite(line) /\ line.channel <= Channels
         /\ req.value \in Values /\ limited \in Limited(req.value)
         /\ Target \in Letters \X Params
         /\ \E k \in Past(n, p) :
              /\ k \in Named(line) /\ Target = Place(k)
              /\ GivesValue(line, k) => req.value = ValueAt(line, k)
              /\ WellFormed(line) => \A m \in Past(n, p) : Later(k, m)
<1>1. /\ scpiAt = "params" /\ line \in Lines /\ IsWrite(line)
  BY DEF SetInv, ReadInv, Begun
<1>2. /\ req.ch = line.channel /\ line.channel <= Channels
      /\ req.value \in Values /\ limited \in Limited(req.value)
  BY DEF Walk, CallInv
<1>3. PICK k \in Past(n, p) :
        /\ req.param = Code(k)
        /\ GivesValue(line, k) => req.value = ValueAt(line, k)
        /\ WellFormed(line) => \A m \in Past(n, p) : Later(k, m)
  BY DEF Walk, CallInv
<1>4. k \in Named(line) /\ Target = Place(k)
  BY <1>2, <1>3 DEF Past, Target, Place
<1>5. Target \in Letters \X Params
  BY <1>1, <1>4, CodeType
<1>6. QED
  BY <1>1, <1>2, <1>3, <1>4, <1>5

LEMMA NamedPair ==
  ASSUME NEW k \in Named(line), line \in Lines
  PROVE  k[1] \in Nat /\ k[2] \in Nat /\ k = <<k[1], k[2]>>
<1>1. PICK i \in 1..Len(line.commands) : \E j \in 1..Len(line.commands[i].words) : k = <<i, j>>
  BY NamedForm
<1>2. PICK j \in 1..Len(line.commands[i].words) : k = <<i, j>>
  BY <1>1
<1>3. QED
  BY <1>2, WordsType

LEMMA SerialWalk ==
  ASSUME SetInv, ReadInv, UNCHANGED scpiVars,
         at' # "idle" => at # "idle" /\ UNCHANGED <<req, limited>>,
         \A T \in Letters \X Params, V \in SUBSET InRange :
           Ahead(T, V) /\ (at = "send" /\ Target = T => limited \in V) => Ahead(T, V)',
         NEW n, NEW p, Walk(n, p)
  PROVE  Walk(n, p)'
<1>1. UNCHANGED <<scpiAt, line, rest, words>>
  BY DEF scpiVars
<1>2. Spot(n, p)'
  BY <1>1, SameSpot DEF Walk
<1>3. CallInv(n, p)'
  BY <1>1, SameLine DEF Walk, CallInv
<1>4. ASSUME line.channel <= Channels, WellFormed(line)
      PROVE  Applied(Past(n, p))'
  <2>1. ASSUME NEW k \in Past(n, p),
               \A m \in Past(n, p) : Code(m) = Code(k) => Later(k, m),
               Limited(ValueAt(line, k)) \subseteq InRange
        PROVE  Ahead(Place(k), Limited(ValueAt(line, k)))'
    <3>1. k \in Named(line) /\ line \in Lines
      BY NamedForm DEF Past, SetInv
    <3>2. Ahead(Place(k), Limited(ValueAt(line, k)))
      BY <1>4, <2>1 DEF Walk, Applied
    <3>3. ASSUME at = "send", Target = Place(k) PROVE limited \in Limited(ValueAt(line, k))
      <4>1. PICK c \in Past(n, p) : /\ c \in Named(line) /\ Target = Place(c)
                                    /\ req.value = ValueAt(line, c)
                                    /\ \A m \in Past(n, p) : Later(c, m)
        BY <1>4, <3>3, UnderWay DEF WellFormed
      <4>2. Code(c) = Code(k)
        BY <3>3, <4>1 DEF Place
      <4>3. Later(k, c) /\ Later(c, k)
        BY <2>1, <4>1, <4>2
      <4>4. k[1] = c[1] /\ k[2] = c[2]
        BY <3>1, <4>1, <4>3, NamedPair DEF Later
      <4>5. k = c
        BY <3>1, <4>1, <4>4, NamedPair
      <4>6. QED
        BY <3>3, <4>1, <4>5, UnderWay
    <3>4. PICK T, V : T = Place(k) /\ V = Limited(ValueAt(line, k))
      OBVIOUS
    <3>5. T \in Letters \X Params /\ V \in SUBSET InRange
      BY <2>1, <3>1, <3>4, CodeType
    <3>6. Ahead(T, V)'
      BY <3>2, <3>3, <3>4, <3>5
    <3>7. Place(k)' = T /\ Limited(ValueAt(line, k))' = V
      BY <1>1, <3>4, SameLine DEF Limited, Rounded
    <3>8. QED
      BY <3>6, <3>7 DEF Ahead, Sent, SetsAt, Key
  <2>2. QED
    BY <1>1, <2>1, SameLine DEF Applied, Limited, Rounded
<1>5. QED
  BY <1>1, <1>2, <1>3, <1>4, SameLine DEF Walk

LEMMA SerialKeeps ==
  ASSUME SetInv, ReadInv, UNCHANGED scpiVars, toAwg' \in Seq(Commands),
         at' # "idle" => at # "idle" /\ UNCHANGED <<req, limited>>,
         \A T \in Letters \X Params, V \in SUBSET InRange :
           Ahead(T, V) /\ (at = "send" /\ Target = T => limited \in V) => Ahead(T, V)'
  PROVE  SetInv'
<1>1. UNCHANGED <<scpiAt, line, rest, words, value, rw_channel>>
  BY DEF scpiVars
<1>2. (\E n, p : Walk(n, p)) => (\E n, p : Walk(n, p)')
  BY SerialWalk
<1>3. QED
  BY <1>1, <1>2, SameLine DEF SetInv

LEMMA Appended ==
  ASSUME toAwg \in Seq(Commands), NEW c \in Commands, toAwg' = Append(toAwg, c)
  PROVE  /\ toAwg' \in Seq(Commands) /\ Len(toAwg') >= Len(toAwg)
         /\ \A i \in 1..Len(toAwg) : toAwg'[i] = toAwg[i]
         /\ \A i \in Len(toAwg) + 1..Len(toAwg') : toAwg'[i] = c
<1>1. Len(toAwg) \in Nat
  BY LenProperties
<1>2. /\ toAwg' \in Seq(Commands) /\ Len(toAwg') = Len(toAwg) + 1
      /\ toAwg'[Len(toAwg) + 1] = c
      /\ \A i \in 1..Len(toAwg) : toAwg'[i] = toAwg[i]
  BY AppendProperties
<1>3. \A i \in Len(toAwg) + 1..Len(toAwg') : i = Len(toAwg) + 1
  BY <1>1, <1>2
<1>4. QED
  BY <1>1, <1>2, <1>3

\* Of the serial line, only the value that is to be sent and what has been sent
\* matter.
LEMMA SameAhead ==
  ASSUME NEW T, NEW V, at # "send", Ahead(T, V), UNCHANGED <<toAwg, setting>>
  PROVE  Ahead(T, V)'
  BY DEF Ahead, Sent, SetsAt, Key

LEMMA SetSendSet ==
  ASSUME SetInv, ReadInv, SendSet, UNCHANGED scpiVars
  PROVE  SetInv'
<1>1. PICK n, p : Walk(n, p)
  BY DEF SetInv, SendSet
<1>2. /\ req.value \in Values /\ limited \in Limited(req.value)
      /\ Target \in Letters \X Params
  BY <1>1, UnderWay DEF SendSet
<1>3. PICK c : c = <<"set", Target[1], Target[2], limited>>
  OBVIOUS
<1>4. /\ c \in Commands /\ c[1] = "set" /\ Key(c) = Target /\ c[4] = limited
      /\ toAwg' = Append(toAwg, c) /\ toAwg \in Seq(Commands)
      /\ at = "send" /\ at' = "ack" /\ UNCHANGED <<req, limited, setting>>
  BY <1>2, <1>3, CommandsType DEF SendSet, SetInv, Key
<1>5. /\ toAwg' \in Seq(Commands) /\ Len(toAwg') >= Len(toAwg)
      /\ \A i \in 1..Len(toAwg) : toAwg'[i] = toAwg[i]
      /\ \A i \in Len(toAwg) + 1..Len(toAwg') : toAwg'[i] = c
  BY <1>4, Appended
<1>6. ASSUME NEW T \in Letters \X Params, NEW V \in SUBSET InRange,
             Ahead(T, V), at = "send" /\ Target = T => limited \in V
      PROVE  Ahead(T, V)'
  <2>1. CASE Target = T
    <3>1. Sent(T, V)'
      BY <1>4, <1>6, <2>1, SentSet
    <3>2. QED
      BY <3>1 DEF Ahead
  <2>2. CASE Target # T
    <3>1. Sent(T, V)
      BY <1>6, <2>2 DEF Ahead
    <3>2. \A i \in Len(toAwg) + 1..Len(toAwg') : ~SetsAt(i, T)'
      BY <1>4, <1>5, <2>2 DEF SetsAt, Key
    <3>3. Sent(T, V)'
      BY <1>4, <1>5, <3>1, <3>2, SentMore
    <3>4. QED
      BY <3>3 DEF Ahead
  <2>3. QED
    BY <2>1, <2>2
<1>7. QED
  BY <1>4, <1>5, <1>6, SerialKeeps

LEMMA SetAwait ==
  ASSUME SetInv, ReadInv, AwaitAck \/ ReadValue \/ ReadTimeout, UNCHANGED scpiVars
  PROVE  SetInv'
<1>1. /\ at # "idle" /\ at # "send" /\ UNCHANGED <<req, limited, toAwg, setting>>
  BY DEF AwaitAck, ReadValue, ReadTimeout
<1>2. QED
  BY <1>1, SameAhead, SerialKeeps DEF SetInv

LEMMA SetSendGet ==
  ASSUME SetInv, ReadInv, SendGet, UNCHANGED scpiVars
  PROVE  SetInv'
<1>1. PICK n, p : Walk(n, p)
  BY DEF SetInv, SendGet
<1>2. Target \in Letters \X Params /\ toAwg \in Seq(Commands)
  BY <1>1, UnderWay DEF SendGet, SetInv
<1>3. PICK c : c = <<"get", Target[1], Target[2]>>
  OBVIOUS
<1>4. PICK q : q = Append(toAwg, c)
  OBVIOUS
<1>5. /\ c \in Commands /\ <<"blank">> \in Commands /\ c[1] # "set"
      /\ toAwg' = Append(q, <<"blank">>) /\ <<"blank">>[1] # "set"
      /\ at = "get" /\ UNCHANGED <<req, limited, setting>>
  BY <1>2, <1>3, <1>4, CommandsType DEF SendGet
<1>6. Len(toAwg) \in Nat
  BY <1>2, LenProperties
<1>7. /\ q \in Seq(Commands) /\ Len(q) = Len(toAwg) + 1 /\ q[Len(toAwg) + 1] = c
      /\ \A i \in 1..Len(toAwg) : q[i] = toAwg[i]
  BY <1>2, <1>4, <1>5, AppendProperties
<1>8. /\ toAwg' \in Seq(Commands) /\ Len(toAwg') = Len(q) + 1
      /\ toAwg'[Len(q) + 1] = <<"blank">>
      /\ \A i \in 1..Len(q) : toAwg'[i] = q[i]
  BY <1>5, <1>7, AppendProperties
<1>9. \A i \in 1..Len(toAwg) : toAwg'[i] = toAwg[i]
  BY <1>6, <1>7, <1>8
<1>10. \A i \in Len(toAwg) + 1..Len(toAwg') : toAwg'[i] \in {c, <<"blank">>}
  <2>1. \A i \in Len(toAwg) + 1..Len(toAwg') : i = Len(toAwg) + 1 \/ i = Len(q) + 1
    BY <1>6, <1>7, <1>8
  <2>2. Len(toAwg) + 1 \in 1..Len(q)
    BY <1>6, <1>7
  <2>3. QED
    BY <1>7, <1>8, <2>1, <2>2
<1>11. ASSUME NEW T \in Letters \X Params, NEW V \in SUBSET InRange, Ahead(T, V)
       PROVE  Ahead(T, V)'
  <2>1. Sent(T, V)
    BY <1>5, <1>11 DEF Ahead
  <2>2. Len(toAwg') >= Len(toAwg)
    BY <1>6, <1>7, <1>8
  <2>3. \A i \in Len(toAwg) + 1..Len(toAwg') : ~SetsAt(i, T)'
    BY <1>5, <1>10 DEF SetsAt
  <2>4. Sent(T, V)'
    BY <1>2, <1>5, <1>8, <1>9, <2>1, <2>2, <2>3, SentMore
  <2>5. QED
    BY <2>4 DEF Ahead
<1>12. QED
  BY <1>5, <1>8, <1>11, SerialKeeps

\* Between two lines the user may send what he likes.
LEMMA SetTelnet ==
  ASSUME SetInv, Telnet, UNCHANGED scpiVars
  PROVE  SetInv'
<1>1. scpiAt = "ready" /\ at' = "idle" /\ UNCHANGED <<scpiAt, line, value, words>>
  BY DEF Telnet, UserReads, UserTypes, SetInv, scpiVars
<1>2. toAwg' \in Seq(Commands)
  <2>1. CASE UserReads
    BY <2>1 DEF UserReads, SetInv
  <2>2. CASE \E c \in Typed : UserTypes(c)
    <3>1. PICK c \in Typed : UserTypes(c)
      BY <2>2
    <3>2. c \in Commands /\ toAwg \in Seq(Commands) /\ toAwg' = Append(toAwg, c)
      BY <3>1, TypedAssumption DEF UserTypes, SetInv
    <3>3. QED
      BY <3>2, AppendProperties
  <2>3. QED
    BY <2>1, <2>2 DEF Telnet
<1>3. QED
  BY <1>1, <1>2 DEF SetInv

LEMMA SetAwg ==
  ASSUME SetInv, ReadInv, Awg, UNCHANGED scpiVars
  PROVE  SetInv'
<1>1. UNCHANGED <<at, req, limited>>
  BY DEF Awg, Execute, Arrive
<1>2. CASE Execute
  <2>1. toAwg \in Seq(Commands) /\ toAwg # <<>> /\ toAwg' = Tail(toAwg)
    BY <1>2 DEF SetInv, Execute
  <2>2. toAwg' \in Seq(Commands)
    BY <2>1, HeadTailProperties
  <2>3. ASSUME NEW T \in Letters \X Params, NEW V \in SUBSET InRange, Ahead(T, V)
        PROVE  Ahead(T, V)'
    <3>1. CASE Sent(T, V)
      <4>1. Sent(T, V)'
        BY <1>2, <2>1, <3>1, SentExecute
      <4>2. QED
        BY <4>1 DEF Ahead
    <3>2. CASE at = "send" /\ Target = T /\ limited \in V
      BY <1>1, <3>2 DEF Ahead, Target
    <3>3. QED
      BY <2>3, <3>1, <3>2 DEF Ahead
  <2>4. QED
    BY <1>1, <2>2, <2>3, SerialKeeps
<1>3. CASE Arrive
  <2>1. UNCHANGED <<toAwg, setting>> /\ toAwg' \in Seq(Commands)
    BY <1>3 DEF Arrive, SetInv
  <2>2. \A T, V : Ahead(T, V) => Ahead(T, V)'
    BY <1>1, <2>1 DEF Ahead, Sent, SetsAt, Key, Target
  <2>3. QED
    BY <1>1, <2>1, <2>2, SerialKeeps
<1>4. QED
  BY <1>2, <1>3 DEF Awg

LEMMA SetNext == SetInv /\ ReadInv /\ [ScpiNext]_<<vars, scpiVars>> => SetInv'
<1> SUFFICES ASSUME SetInv, ReadInv, [ScpiNext]_<<vars, scpiVars>> PROVE SetInv'
  OBVIOUS
<1>1. CASE UNCHANGED <<vars, scpiVars>>
  <2>1. UNCHANGED <<at, req, limited, toAwg, setting>> /\ UNCHANGED scpiVars
    BY <1>1 DEF vars
  <2>2. \A T, V : Ahead(T, V) => Ahead(T, V)'
    BY <2>1 DEF Ahead, Sent, SetsAt, Key, Target
  <2>3. QED
    BY <2>1, <2>2, SerialKeeps DEF SetInv
<1>2. CASE (\E l \in Lines : Write(l)) /\ UNCHANGED vars
  BY <1>2, SetWrite
<1>3. CASE Command /\ UNCHANGED vars
  BY <1>3, SetCommand
<1>4. CASE LineDone /\ UNCHANGED vars
  BY <1>4, SetLineDone
<1>5. CASE ParametersDone /\ UNCHANGED vars
  BY <1>5, SetParametersDone
<1>6. CASE Parameter
  BY <1>6, SetParameter
<1>7. CASE Restart
  BY <1>7, SetRestart
<1>8. CASE SendSet /\ UNCHANGED scpiVars
  BY <1>8, SetSendSet
<1>9. CASE (AwaitAck \/ ReadValue \/ ReadTimeout) /\ UNCHANGED scpiVars
  BY <1>9, SetAwait
<1>10. CASE SendGet /\ UNCHANGED scpiVars
  BY <1>10, SetSendGet
<1>11. CASE Telnet /\ UNCHANGED scpiVars
  BY <1>11, SetTelnet
<1>12. CASE Awg /\ UNCHANGED scpiVars
  BY <1>12, SetAwg
<1>13. QED
  BY <1>1, <1>2, <1>3, <1>4, <1>5, <1>6, <1>7, <1>8, <1>9, <1>10, <1>11, <1>12
     DEF ScpiNext, Scpi, set

LEMMA SetSafe == ScpiSpec => [](ReadInv /\ SetInv)
  BY ReadInvInit, ReadInvNext, SetInit, SetNext, PTL DEF ScpiSpec

-----------------------------------------------------------------------------
\* When no command of the line is left, all the places of its parameters have
\* been reached.
LEMMA AllPast ==
  ASSUME SetInv, ReadInv, scpiAt = "line", rest = <<>>, NEW n, NEW p, Walk(n, p)
  PROVE  Past(n, p) = Named(line)
<1>1. n = Len(line.commands) + 1 /\ line \in Lines
  <2>1. line \in Lines
    BY DEF ReadInv, Begun
  <2>2. Len(<<>>) = 0 /\ Len(line.commands) \in Nat
    BY <2>1, EmptySeq, LineType, LenProperties
  <2>3. QED
    BY <2>1, <2>2 DEF Walk, Spot, Left
<1>2. ASSUME NEW k \in Named(line) PROVE k[1] < n
  <2>1. PICK i \in 1..Len(line.commands) : \E j \in 1..Len(line.commands[i].words) : k = <<i, j>>
    BY <1>1, NamedForm
  <2>2. k[1] = i /\ Len(line.commands) \in Nat
    BY <1>1, <2>1, WordsType
  <2>3. QED
    BY <1>1, <2>2
<1>3. QED
  BY <1>2 DEF Past

\* When write() comes to the end of a well-formed line, each parameter it names
\* has, or is about to get, the last value the line gives it, for all lines,
\* any number of channels and retries, and all lines a telnet user may type
\* between two writes.
THEOREM WriteIsApplied == ScpiSpec => []WriteApplied
<1>1. SetInv /\ ReadInv => WriteApplied
  <2> SUFFICES ASSUME SetInv, ReadInv, scpiAt = "line", rest = <<>>,
                      line.channel <= Channels, WellFormed(line),
                      NEW k \in Named(line),
                      \A m \in Named(line) : Code(m) = Code(k) => Later(k, m),
                      Limited(ValueAt(line, k)) \subseteq InRange
               PROVE  Sent(Place(k), Limited(ValueAt(line, k)))
    BY Zenon DEF WriteApplied, Code, Place
  <2>1. PICK n, p : Walk(n, p)
    BY DEF SetInv
  <2>2. Past(n, p) = Named(line)
    BY <2>1, AllPast
  <2>3. Ahead(Place(k), Limited(ValueAt(line, k)))
    BY <2>1, <2>2 DEF Walk, Applied
  <2>4. at = "idle"
    BY DEF SetInv
  <2>5. QED
    BY <2>3, <2>4 DEF Ahead
<1>2. QED
  BY <1>1, SetSafe, PTL

\* While a line is carried out, only set() sends a set to the instrument.
LEMMA OnlySendSetSets ==
  ASSUME SetInv, ReadInv, [ScpiNext]_<<vars, scpiVars>>, scpiAt # "ready",
         NEW i \in DOMAIN toAwg', i > Len(toAwg), toAwg'[i][1] = "set"
  PROVE  /\ SendSet /\ toAwg'[i] = <<"set", Target[1], Target[2], limited>>
         /\ UNCHANGED scpiVars
<1>1. toAwg \in Seq(Commands) /\ toAwg' \in Seq(Commands)
  BY SetNext DEF SetInv
<1>2. /\ Len(toAwg) \in Nat /\ Len(toAwg') \in Nat
      /\ i \in 1..Len(toAwg') /\ toAwg'[i] \in Commands
  BY <1>1, LenProperties, ElementOfSeq
<1>3. CASE toAwg' = toAwg
  BY <1>2, <1>3
<1>4. ASSUME NEW c, toAwg' = Append(toAwg, c) PROVE toAwg'[i] = c
  <2>1. Len(toAwg') = Len(toAwg) + 1
    BY <1>1, <1>4
  <2>2. i = Len(toAwg) + 1
    BY <1>2, <2>1
  <2>3. QED
    BY <1>1, <1>4, <2>2
<1>5. CASE SendSet /\ UNCHANGED scpiVars
  BY <1>4, <1>5 DEF SendSet
<1>6. CASE SendGet
  <2>1. PICK c : c = <<"get", Target[1], Target[2]>>
    OBVIOUS
  <2>2. PICK q : q = Append(toAwg, c)
    OBVIOUS
  <2>3. c[1] # "set" /\ <<"blank">>[1] # "set" /\ toAwg' = Append(q, <<"blank">>)
    BY <1>6, <2>1, <2>2 DEF SendGet
  <2>4. toAwg'[i] = c \/ toAwg'[i] = <<"blank">>
    <3>1. \E n, p : Walk(n, p)
      BY <1>6 DEF SetInv, SendGet
    <3>2. Target \in Letters \X Params
      BY <1>6, <3>1, UnderWay DEF SendGet
    <3>3. c \in Commands /\ <<"blank">> \in Commands
      BY <2>1, <3>2, CommandsType
    <3>4. q \in Seq(Commands) /\ Len(q) = Len(toAwg) + 1 /\ q[Len(toAwg) + 1] = c
      BY <1>1, <2>2, <3>3, AppendProperties
    <3>5. /\ Len(toAwg') = Len(q) + 1 /\ toAwg'[Len(q) + 1] = <<"blank">>
          /\ \A j \in 1..Len(q) : toAwg'[j] = q[j]
      BY <2>3, <3>3, <3>4, AppendProperties
    <3>6. i = Len(toAwg) + 1 \/ i = Len(q) + 1
      BY <1>2, <3>4, <3>5
    <3>7. Len(toAwg) + 1 \in 1..Len(q)
      BY <1>2, <3>4
    <3>8. QED
      BY <3>4, <3>5, <3>6, <3>7
  <2>5. QED
    BY <2>3, <2>4
<1>7. ~Telnet
  BY DEF Telnet
<1>8. CASE Execute
  <2>1. toAwg # <<>> /\ toAwg' = Tail(toAwg)
    BY <1>8 DEF Execute
  <2>2. Len(toAwg') = Len(toAwg) - 1
    BY <1>1, <2>1, HeadTailProperties
  <2>3. QED
    BY <1>2, <2>2
<1>9. CASE \/ UNCHANGED vars \/ Parameter \/ Restart
           \/ AwaitAck \/ ReadValue \/ ReadTimeout \/ Arrive
  <2>1. toAwg' = toAwg
    BY <1>9 DEF vars, Parameter, Unknown, Output, Wave, Number_value, Set, Call, Restart,
                AwaitAck, ReadValue, ReadTimeout, Arrive
  <2>2. QED
    BY <1>3, <2>1
<1>10. QED
  BY <1>5, <1>6, <1>7, <1>8, <1>9 DEF ScpiNext, Scpi, set, Awg

\* While a line is carried out nothing is set but the parameters it names, on the
\* channel it names, to the values it gives them, for all lines; where it gives
\* none, the value is left open.
THEOREM OnlyNamedIsSet == ScpiSpec => OnlyNamed
<1>1. SetInv /\ ReadInv /\ [ScpiNext]_<<vars, scpiVars>> =>
        [\A i \in DOMAIN toAwg' : i > Len(toAwg) /\ toAwg'[i][1] = "set" /\ scpiAt # "ready" =>
           LET c == toAwg'[i] IN
           /\ IsWrite(line) /\ line.channel <= Channels
           /\ c[2] = fy_channels(line.channel)
           /\ \E k \in Named(line) :
                /\ fy_codes[NameAt(line, k)] = c[3]
                /\ GivesValue(line, k) => c[4] \in Limited(ValueAt(line, k))]_<<vars, scpiVars>>
  <2> SUFFICES ASSUME SetInv, ReadInv, [ScpiNext]_<<vars, scpiVars>>,
                      NEW i \in DOMAIN toAwg', i > Len(toAwg), toAwg'[i][1] = "set",
                      scpiAt # "ready"
               PROVE  /\ IsWrite(line) /\ line.channel <= Channels
                      /\ toAwg'[i][2] = fy_channels(line.channel)
                      /\ \E k \in Named(line) :
                           /\ fy_codes[NameAt(line, k)] = toAwg'[i][3]
                           /\ GivesValue(line, k) => toAwg'[i][4] \in Limited(ValueAt(line, k))
    OBVIOUS
  <2>1. SendSet /\ toAwg'[i] = <<"set", Target[1], Target[2], limited>>
    BY OnlySendSetSets
  <2>2. PICK n, p : Walk(n, p)
    BY <2>1 DEF SendSet, SetInv
  <2>3. /\ IsWrite(line) /\ line.channel <= Channels /\ limited \in Limited(req.value)
        /\ \E k \in Past(n, p) : /\ k \in Named(line) /\ Target = Place(k)
                                 /\ GivesValue(line, k) => req.value = ValueAt(line, k)
    BY <2>1, <2>2, UnderWay DEF SendSet
  <2>4. PICK k \in Named(line) : /\ Target = Place(k)
                                 /\ GivesValue(line, k) => req.value = ValueAt(line, k)
    BY <2>3
  <2>5. /\ toAwg'[i][2] = fy_channels(line.channel)
        /\ toAwg'[i][3] = fy_codes[NameAt(line, k)] /\ toAwg'[i][4] = limited
    BY <2>1, <2>4 DEF Place, Code
  <2>6. QED
    BY <2>3, <2>4, <2>5
<1>2. QED
  BY <1>1, SetSafe, PTL DEF ScpiSpec, OnlyNamed
=============================================================================
