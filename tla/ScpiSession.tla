---------------------------- MODULE ScpiSession ----------------------------
(***************************************************************************)
(* VXI_Server::write (src/vxi_server.cpp): a write request holds one line  *)
(* of SCPI, which is taken apart and carried out by calls of AWG_FY::set.  *)
(*                                                                         *)
(* A line is an initiator, a channel and commands separated by semicolons; *)
(* a command is a word and the words after it, which commas separate.      *)
(* Begins gives for a word the entries of the tables it begins with, and   *)
(* NumberOf the number that sscanf makes of it, if it makes any.           *)
(***************************************************************************)
EXTENDS AwgFy

CONSTANTS Lines,       \* the lines a scope may write
          Begins,      \* the table entries each word begins with
          NumberOf,    \* the number of each word that has one
          Sine         \* siglent::Sine and fy::Sine

ASSUME SineAssumption == {Sine, 0, 1} \subseteq Values
ASSUME NumberAssumption == \A w \in DOMAIN NumberOf : NumberOf[w] \in Values
ASSUME LineAssumption ==
  Lines \subseteq [initiator : DOMAIN Begins, channel : Nat,
                  commands : Seq([word : DOMAIN Begins, words : Seq(DOMAIN Begins)])]
\* "begins with": a word that begins with BSWV? does not begin with OUTP.
ASSUME WordAssumption == \A w \in DOMAIN Begins : ~({"BSWV?", "OUTP"} \subseteq Begins[w])

VARIABLES scpiAt,      \* "ready", "line" or "params"; "crashed" when it has
          line,        \* the line being carried out, or the last one
          rest,        \* its commands that are left
          words,       \* the words of the command that are left
          value,       \* the local variable of process_parameters
          rw_channel,
          read_type

scpiVars == <<scpiAt, line, rest, words, value, rw_channel, read_type>>

\* src/scpi.h: the tables, in the order in which they are searched.
initiators == <<"IDN-SGLT-PRI?", "C">>
commands   == <<"OUTP", "BSWV?", "BSWV">>
parameters == <<"OFF", "ON", "WVTP", "FRQ", "AMP", "OFST", "PHSE">>

\* The letter by which the instrument knows each parameter.
fy_codes == [OFF |-> "N", ON |-> "N", WVTP |-> "W", FRQ |-> "F",
             AMP |-> "A", OFST |-> "O", PHSE |-> "P"]

Matches(w, list) == {i \in DOMAIN list : list[i] \in Begins[w]}

\* Mutant: the last entry that matches is taken, not the first.
get_last_id(w, list) ==
  IF Matches(w, list) = {} THEN "unknown"
  ELSE list[CHOOSE i \in Matches(w, list) : \A j \in Matches(w, list) : i >= j]

\* The first entry of the list that the word begins with.
get_id(w, list) ==
  IF Matches(w, list) = {} THEN "unknown"
  ELSE list[CHOOSE i \in Matches(w, list) : \A j \in Matches(w, list) : i <= j]

\* The instrument has the parameters that the words may name.
ASSUME CodeAssumption ==
  \A w \in DOMAIN Begins : get_id(w, parameters) # "unknown" =>
                             fy_codes[get_id(w, parameters)] \in Params

NoLine == [initiator |-> "none", channel |-> 0, commands |-> <<>>]

ScpiInit == /\ Init
            /\ scpiAt = "ready"
            /\ line = NoLine
            /\ rest = <<>> /\ words = <<>>
            /\ value = 0
            /\ rw_channel = 0
            /\ read_type = "none"

-----------------------------------------------------------------------------
\* write() and the first part of parse_scpi.  A line that is empty, or only
\* colons, has no initiator, and a null pointer is compared.
Write(l) ==
  /\ scpiAt = "ready" /\ Outstanding <= Depth + 1
  /\ line' = l
  /\ LET id == get_id(l.initiator, initiators) IN
     /\ scpiAt' = IF l.initiator = "none" THEN "crashed"
                  ELSE IF id = "C" THEN "line" ELSE "ready"
     /\ rw_channel' = IF id = "C" THEN l.channel ELSE 0
     /\ rest' = IF id = "C" THEN l.commands ELSE <<>>
     /\ read_type' = IF id = "IDN-SGLT-PRI?" THEN "identification" ELSE "none"
  /\ UNCHANGED <<words, value>>

\* The next command of the line.  A command line of blanks has no command
\* word, and a null pointer is compared.
Command ==
  /\ scpiAt = "line"
  /\ rest # <<>>
  /\ rest' = Tail(rest)
  /\ LET c  == Head(rest)
         id == get_id(c.word, commands)
     IN \/ /\ c.word = "none"
           /\ scpiAt' = "crashed"
           /\ UNCHANGED <<words, value, read_type>>
        \/ /\ c.word # "none" /\ id \in {"OUTP", "BSWV"}
           /\ scpiAt' = "params"
           /\ words' = c.words
           /\ value' \in Values
           /\ UNCHANGED read_type
        \/ /\ c.word # "none" /\ id \notin {"OUTP", "BSWV"}
           /\ read_type' = IF id = "BSWV?" THEN "parameters" ELSE read_type
           /\ UNCHANGED <<scpiAt, words, value>>
  /\ UNCHANGED <<line, rw_channel>>

LineDone ==
  /\ scpiAt = "line"
  /\ rest = <<>>
  /\ scpiAt' = "ready"
  /\ UNCHANGED <<line, rest, words, value, rw_channel, read_type>>

Id == get_id(Head(words), parameters)

\* Mutant: every parameter is set on the main channel.
SetMain(v) == Call([ch |-> 1, param |-> fy_codes[Id], value |-> v])

Set(v) == Call([ch |-> rw_channel, param |-> fy_codes[Id], value |-> v])

Unknown ==
  /\ Id = "unknown"
  /\ words' = Tail(words)
  /\ UNCHANGED <<scpiAt, value, vars>>

Output ==
  /\ Id \in {"OFF", "ON"}
  /\ words' = Tail(words)
  /\ value' = IF Id = "ON" THEN 1 ELSE 0
  /\ Set(value')
  /\ UNCHANGED scpiAt

\* The word after WVTP is taken and not looked at.
Wave ==
  /\ Id = "WVTP"
  /\ words' = SubSeq(words, 3, Len(words))
  /\ value' = Sine
  /\ Set(Sine)
  /\ UNCHANGED scpiAt

\* Mutant: one word too many is taken after a name.
AfterNextName == SubSeq(words, 4, Len(words))

AfterValue == SubSeq(words, 3, Len(words))

\* A word that is not a number leaves value as it was; without a word a null
\* pointer is read.
Number_value ==
  /\ Id \in {"FRQ", "AMP", "OFST", "PHSE"}
  /\ words' = AfterValue
  /\ IF Len(words) = 1
     THEN scpiAt' = "crashed" /\ UNCHANGED <<value, vars>>
     ELSE /\ value' = IF words[2] \in DOMAIN NumberOf THEN NumberOf[words[2]] ELSE value
          /\ Set(value')
          /\ UNCHANGED scpiAt

\* One turn of the loop of process_parameters, once the set() of the turn
\* before has returned.
Parameter ==
  /\ scpiAt = "params" /\ at = "idle"
  /\ words # <<>>
  /\ Unknown \/ Output \/ Wave \/ Number_value
  /\ UNCHANGED <<line, rest, rw_channel, read_type>>

ParametersDone ==
  /\ scpiAt = "params" /\ at = "idle"
  /\ words = <<>>
  /\ scpiAt' = "line"
  /\ UNCHANGED <<line, rest, words, value, rw_channel, read_type>>

\* The processor restarts: the program and its buffers are as at first, and
\* the instrument and the line to it go on.
Restart ==
  /\ scpiAt = "crashed"
  /\ scpiAt' = "ready"
  /\ line' = NoLine
  /\ rest' = <<>> /\ words' = <<>>
  /\ value' = 0
  /\ rw_channel' = 0
  /\ read_type' = "none"
  /\ rx' = <<>>
  /\ at' = "idle" /\ result' = "none"
  /\ UNCHANGED <<req, limited, retries, toAwg, wire, setting, alone>>

Scpi == \/ (Command \/ LineDone \/ ParametersDone) /\ UNCHANGED vars
        \/ Parameter
        \/ Restart

\* The telnet user is served between two writes.
Telnet == /\ scpiAt = "ready"
          /\ UserReads \/ \E c \in Typed : UserTypes(c)

ScpiNext == \/ (\E l \in Lines : Write(l)) /\ UNCHANGED vars
            \/ Scpi
            \/ (set \/ Awg \/ Telnet) /\ UNCHANGED scpiVars

ScpiSpec == ScpiInit /\ [][ScpiNext]_<<vars, scpiVars>>

-----------------------------------------------------------------------------
IsWrite(l) == get_id(l.initiator, initiators) = "C"

\* The places of a line where a parameter of the tables is named.
Named(l) ==
  {k \in UNION {{i} \X DOMAIN l.commands[i].words : i \in DOMAIN l.commands} :
     /\ get_id(l.commands[k[1]].word, commands) \in {"OUTP", "BSWV"}
     /\ get_id(l.commands[k[1]].words[k[2]], parameters) # "unknown"}

NameAt(l, k) == get_id(l.commands[k[1]].words[k[2]], parameters)

\* Whether the line says to which value the parameter is to be set.
GivesValue(l, k) ==
  \/ NameAt(l, k) \in {"OFF", "ON", "WVTP"}
  \/ /\ k[2] < Len(l.commands[k[1]].words)
     /\ l.commands[k[1]].words[k[2] + 1] \in DOMAIN NumberOf

ValueAt(l, k) == CASE NameAt(l, k) = "OFF" -> 0
                   [] NameAt(l, k) = "ON" -> 1
                   [] NameAt(l, k) = "WVTP" -> Sine
                   [] OTHER -> NumberOf[l.commands[k[1]].words[k[2] + 1]]

\* Every command has its word, every parameter its value, and no word that is
\* taken for the value of a parameter names one itself.
WellFormed(l) ==
  /\ \A i \in DOMAIN l.commands : l.commands[i].word # "none"
  /\ \A k \in Named(l) :
       /\ GivesValue(l, k)
       /\ NameAt(l, k) \in {"OFF", "ON"} \/ <<k[1], k[2] + 1>> \notin Named(l)

Later(k, m) == k[1] > m[1] \/ (k[1] = m[1] /\ k[2] >= m[2])

\* What the instrument has at T, or will have when it has carried out the
\* commands that wait: the last set for T among them decides.
SetsAt(i, T) == toAwg[i][1] = "set" /\ Key(toAwg[i]) = T

Sent(T, V) ==
  \/ \E i \in 1..Len(toAwg) : /\ SetsAt(i, T) /\ toAwg[i][4] \in V
                              /\ \A j \in i + 1..Len(toAwg) : ~SetsAt(j, T)
  \/ (\A i \in 1..Len(toAwg) : ~SetsAt(i, T)) /\ setting[T] \in V

\* When write() comes to the end of a well-formed line, each parameter it
\* names has, or is about to get, the last value the line gives it, as far as
\* the precision can hold it and if the instrument takes it.  So it is
\* whatever the telnet user typed before the line, sets of the same parameter
\* and queries whose replies set() then takes for its own, and although the
\* results of set() are not looked at (src/vxi_server.cpp:440).  What the user
\* sets after the line is not the line's business.
WriteApplied ==
  scpiAt = "line" /\ rest = <<>> /\ line.channel <= Channels /\ WellFormed(line)
  => LET N == Named(line)
         code(k) == fy_codes[NameAt(line, k)]
     IN \A k \in N :
          /\ \A m \in N : code(m) = code(k) => Later(k, m)
          /\ Limited(ValueAt(line, k)) \subseteq InRange
          => Sent(<<fy_channels(line.channel), code(k)>>, Limited(ValueAt(line, k)))

\* While a line is carried out, nothing is set but the parameters it names, on
\* the channel it names, to the values it gives them: also by a line with
\* unknown words, with a channel that does not exist, or that ends the
\* program.  Of the value of a name that no number follows it says nothing:
\* there the code sets whatever value holds (src/vxi_server.cpp:433).
OnlyNamed ==
  [][\A i \in DOMAIN toAwg' :
       i > Len(toAwg) /\ toAwg'[i][1] = "set" /\ scpiAt # "ready" =>
         LET c == toAwg'[i] IN
         /\ IsWrite(line) /\ line.channel <= Channels
         /\ c[2] = fy_channels(line.channel)
         /\ \E k \in Named(line) :
              /\ fy_codes[NameAt(line, k)] = c[3]
              /\ GivesValue(line, k) => c[4] \in Limited(ValueAt(line, k))]_<<vars, scpiVars>>

\* What the next read is for is decided by the last line alone: the identity
\* after an identity request, the parameters when one of its commands asks
\* for them, nothing otherwise.  (VXI_Server::read answers with the identity in
\* any case, src/vxi_server.cpp:191-197: no response depends on it yet.)
ReadTypeOfLine ==
  scpiAt = "ready" /\ line # NoLine =>
    read_type = CASE get_id(line.initiator, initiators) = "IDN-SGLT-PRI?" -> "identification"
                  [] IsWrite(line) /\ \E i \in DOMAIN line.commands :
                       "BSWV?" \in Begins[line.commands[i].word] -> "parameters"
                  [] OTHER -> "none"
=============================================================================
