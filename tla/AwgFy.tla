------------------------------- MODULE AwgFy -------------------------------
(***************************************************************************)
(* AWG_FY (src/awg_fy.cpp): sets a parameter of the instrument over a      *)
(* serial line, reads it back, and tries again while the two differ.       *)
(*                                                                         *)
(* A command is one line, and so is a reply; a reply that holds a number   *)
(* is two tokens, its first byte and the rest, because the program may     *)
(* empty its receive buffer between the two.  Faults says what else the    *)
(* instrument and the telnet user may do:                                  *)
(*   user    lines typed in pass-through mode are sent to the instrument,  *)
(*           queries and settings alike                                    *)
(*   blank   the instrument acknowledges an empty line                     *)
(*   stall   a reply stops in the middle for longer than the read waits    *)
(*                                                                         *)
(* Values are in ticks, of which STEP make one unit of the precision that  *)
(* the translation table has for a parameter (src/awg_fy6900.cpp); the     *)
(* precision is the same for what is sent and for what is read.            *)
(***************************************************************************)
EXTENDS Integers, Sequences

CONSTANTS Channels,    \* AWG_Server::channels()
          Retry,       \* AWG_Server::m_retry_count, 2 in setup()
          Params,      \* the parameters of one channel
          STEP,        \* ticks of a unit of set_precision
          Values,      \* the values a parameter may be given
          Huge,        \* what the conversion makes of a negative number when
                       \* it does not make 0: it is sent as "ovf"
          InRange,     \* the values the instrument takes
          Inexact,     \* the values whose digits read back as another double
          NoValue,     \* -1.23, what get() returns when it reads no number
          Typed,       \* the lines a user types in pass-through mode
          Depth,       \* bound: what may be outstanding on the serial line
                       \* when the user types, and one less than when a
                       \* call begins
          Faults

ASSUME RetryAssumption == Retry \in Nat /\ Channels \in Nat
ASSUME ValueAssumption == /\ STEP \in Nat \ {0} /\ Values \subseteq Int
                          /\ InRange \subseteq Int /\ InRange # {}
                          /\ Huge \in Int \ (Values \cup InRange)
                          /\ NoValue \in Int \ (Values \cup InRange \cup {Huge})
ASSUME FaultAssumption == Faults \subseteq {"user", "blank", "stall"}

VARIABLES at,          \* where set() is; "idle" outside it
          req,         \* its arguments
          limited,     \* its value once limited to set_precision
          retries,     \* its local retries
          result,      \* what it returned last
          toAwg,       \* command lines the instrument has not carried out
          wire,        \* reply tokens on their way
          rx,          \* AWGSerial's receive buffer
          setting,     \* the parameters of each channel as the instrument has them
          alone        \* none of the Faults has happened

vars == <<at, req, limited, retries, result, toAwg, wire, rx, setting, alone>>

\* Mutant: the value is cut and not rounded.
Cut(v) == STEP * (v \div STEP)

Rounded(v) == STEP * ((2 * v + STEP) \div (2 * STEP))

\* (uint64_t)(value * p10 + 0.5) / p10.  A fraction between -1 and 0 becomes
\* 0; that of a number of -1 or less is undefined.
Limited(v) == IF 2 * v + STEP >= 0 THEN {Rounded(v)}
              ELSE IF 2 * v + STEP > -2 * STEP THEN {0} ELSE {0, Huge}

\* The numbers that may be sent, and those that a reply may seem to hold.
Numbers  == UNION {Limited(v) : v \in Values}
Readings == Numbers \cup InRange

Requests == [ch : 0..Channels + 1, param : Params, value : Values]
NoRequest == [ch |-> 0, param |-> CHOOSE p \in Params : TRUE, value |-> NoValue]
Newline == [part |-> "newline", value |-> NoValue]
First(v) == [part |-> "first", value |-> v]
Rest(v)  == [part |-> "rest", value |-> v]
Tokens == {Newline} \cup [part : {"first", "rest"}, value : InRange]

\* The letters of the channels; channel 0 is taken for the main channel.
Letters == {"M", "F"}
fy_channels(ch) == IF ch = 2 THEN "F" ELSE "M"

Commands == {<<"blank">>} \cup ({"get"} \X Letters \X Params)
                         \cup ({"set"} \X Letters \X Params \X Readings)

ASSUME TypedAssumption == Typed \subseteq Commands

Init == /\ at = "idle"
        /\ req = NoRequest /\ limited = NoValue
        /\ retries = Retry
        /\ result = "none"
        /\ toAwg = <<>> /\ wire = <<>> /\ rx = <<>>
        /\ setting \in {[k \in Letters \X Params |-> v] : v \in InRange}
        /\ alone = TRUE

Outstanding == Len(toAwg) + Len(wire) + Len(rx)

-----------------------------------------------------------------------------
(* The driver *)

Target == <<fy_channels(req.ch), req.param>>

\* set() begins: a channel that does not exist ends it, and the value is
\* limited to what the precision can hold.
Call(r) ==
  /\ at = "idle"
  /\ req' = r
  /\ IF r.ch > Channels
     THEN at' = "idle" /\ result' = "failed" /\ limited' = NoValue
     ELSE at' = "send" /\ result' = "none" /\ limited' \in Limited(r.value)
  /\ retries' = Retry
  /\ UNCHANGED <<toAwg, wire, rx, setting, alone>>

SendSet ==
  /\ at = "send"
  /\ toAwg' = Append(toAwg, <<"set", Target[1], Target[2], limited>>)
  /\ at' = "ack"
  /\ UNCHANGED <<req, limited, retries, result, wire, rx, setting, alone>>

Return(ok) == at' = "idle" /\ result' = IF ok THEN "ok" ELSE "failed"

\* Mutant: the reply to the set is waited for but not read.
DrainNothing == rx

\* wait_for_serial(true): as soon as something is there, everything that is
\* there is discarded.
Drain == <<>>

AwaitAck ==
  /\ at = "ack"
  /\ rx # <<>>
  /\ rx' = Drain
  /\ IF Retry > 0 THEN at' = "get" /\ UNCHANGED result ELSE Return(TRUE)
  /\ UNCHANGED <<req, limited, retries, toAwg, wire, setting, alone>>

\* get() ends its command twice, so the instrument also gets an empty line.
SendGet ==
  /\ at = "get"
  /\ toAwg' = Append(Append(toAwg, <<"get", Target[1], Target[2]>>), <<"blank">>)
  /\ at' = "value"
  /\ UNCHANGED <<req, limited, retries, result, wire, rx, setting, alone>>

EndsLine(t) == t.part # "first"

\* The numbers sscanf may make of a line: of a line that has lost its first
\* byte it makes another number or none.
Parsed(line) == CASE line[1] = Newline -> {NoValue}
                  [] line = <<First(line[1].value), Rest(line[1].value)>> -> {line[1].value}
                  [] OTHER -> Readings \cup {NoValue}

\* set() divides by a power of ten and get() multiplies by its reciprocal, so
\* that one number may become two doubles: 3.3 V is 33000 / 1e4 and is read
\* back as 33000 * (1 / 1e4), which is larger.
Same(v) == v = limited /\ v \notin Inexact

\* Mutant: a call that keeps failing is tried again for ever.
AgainForEver == at' = "send" /\ UNCHANGED <<retries, result>>

\* Mutant: one retry more than the count allows.
AgainOnceMore == IF retries >= 0
                 THEN at' = "send" /\ retries' = retries - 1 /\ UNCHANGED result
                 ELSE Return(FALSE) /\ retries' = retries - 1

\* The value that was read back differs: try again, or give up.
Again == IF retries > 0
         THEN at' = "send" /\ retries' = retries - 1 /\ UNCHANGED result
         ELSE Return(FALSE) /\ retries' = retries - 1

Verify(v) == \/ Same(v) /\ Return(TRUE) /\ UNCHANGED retries
             \/ ~Same(v) /\ Again

\* readBytesUntil and sscanf, with a whole line in the buffer.
ReadValue ==
  /\ at = "value"
  /\ \E n \in 1..Len(rx) :
       /\ EndsLine(rx[n]) /\ \A i \in 1..n - 1 : ~EndsLine(rx[i])
       /\ rx' = SubSeq(rx, n + 1, Len(rx))
       /\ \E v \in Parsed(SubSeq(rx, 1, n)) : Verify(v)
  /\ UNCHANGED <<req, limited, toAwg, wire, setting, alone>>

\* readBytesUntil gives up after a second, with a part of a line.
ReadTimeout ==
  /\ "stall" \in Faults
  /\ at = "value"
  /\ rx # <<>> /\ \A i \in 1..Len(rx) : ~EndsLine(rx[i])
  /\ rx' = <<>>
  /\ \E v \in Parsed(rx) : Verify(v)
  /\ alone' = FALSE
  /\ UNCHANGED <<req, limited, toAwg, wire, setting>>

set == SendSet \/ AwaitAck \/ SendGet \/ ReadValue \/ ReadTimeout

-----------------------------------------------------------------------------
(* The telnet server, which runs only outside set() *)

\* A line that is not PASSTHROUGH goes to the instrument as it was typed,
\* whatever it says; one that the instrument does not know is a blank to it.
UserTypes(c) ==
  /\ "user" \in Faults
  /\ at = "idle" /\ Outstanding <= Depth
  /\ toAwg' = Append(toAwg, c)
  /\ alone' = FALSE
  /\ UNCHANGED <<at, req, limited, retries, result, wire, rx, setting>>

\* What has arrived is copied to the session, in the 50 ms after a line and
\* once in every loop().
UserReads ==
  /\ "user" \in Faults
  /\ at = "idle"
  /\ rx # <<>>
  /\ rx' = <<>>
  /\ UNCHANGED <<at, req, limited, retries, result, toAwg, wire, setting, alone>>

-----------------------------------------------------------------------------
(* The instrument: external to the repository *)

\* The parameter that a command is about.
Key(c) == <<c[2], c[3]>>

\* A set outside the instrument's range is acknowledged and ignored.
Execute ==
  /\ toAwg # <<>>
  /\ toAwg' = Tail(toAwg)
  /\ LET c == Head(toAwg) IN
     \/ /\ c[1] = "set"
        /\ setting' = [k \in Letters \X Params |->
                          IF k = Key(c) /\ c[4] \in InRange THEN c[4] ELSE setting[k]]
        /\ wire' = Append(wire, Newline)
        /\ UNCHANGED alone
     \/ /\ c[1] = "get"
        /\ wire' = Append(Append(wire, First(setting[Key(c)])), Rest(setting[Key(c)]))
        /\ UNCHANGED <<setting, alone>>
     \/ /\ c[1] = "blank"
        /\ \/ UNCHANGED <<wire, alone>>
           \/ "blank" \in Faults /\ wire' = Append(wire, Newline) /\ alone' = FALSE
        /\ UNCHANGED setting
  /\ UNCHANGED <<at, req, limited, retries, result, rx>>

Arrive ==
  /\ wire # <<>>
  /\ rx' = Append(rx, Head(wire))
  /\ wire' = Tail(wire)
  /\ UNCHANGED <<at, req, limited, retries, result, toAwg, setting, alone>>

Awg == Execute \/ Arrive

Next == \/ Outstanding <= Depth + 1 /\ \E r \in Requests : Call(r)
        \/ set
        \/ \E c \in Typed : UserTypes(c)
        \/ UserReads
        \/ Awg

Spec == Init /\ [][Next]_vars

\* The program is never descheduled inside set(), and the instrument goes on
\* answering.
FairSpec == Spec /\ WF_vars(set) /\ WF_vars(Awg)

-----------------------------------------------------------------------------
\* Every variable has its type, and the retries never go further than one
\* below zero.
TypeOK ==
  /\ at \in {"idle", "send", "ack", "get", "value"}
  /\ req \in Requests \cup {NoRequest}
  /\ limited \in Numbers \cup {NoValue}
  /\ retries \in -1..Retry
  /\ result \in {"none", "ok", "failed"}
  /\ toAwg \in Seq(Commands)
  /\ wire \in Seq(Tokens)
  /\ rx \in Seq(Tokens)
  /\ setting \in [Letters \X Params -> InRange]
  /\ alone \in BOOLEAN

\* While nobody else has used the serial line, set() leaves nothing behind: no
\* reply is under way, and none is unread, when it returns or tries again
\* (src/awg_fy.cpp:148, 192), so that the next command meets its own reply.
InStep == alone /\ at \in {"idle", "send"} =>
            /\ wire = <<>> /\ rx = <<>>
            /\ \A i \in 1..Len(toAwg) : toAwg[i] = <<"blank">>

Within(v, w) == 2 * v - 2 * w \in -STEP..STEP

\* What set() reports as verified is what the instrument has, within half a
\* unit of the precision of what was asked, if that was not negative
\* (src/awg_fy.cpp:73, 152).
VerifiedWithin ==
  alone /\ result = "ok" /\ req.value >= 0 => Within(setting[Target], req.value)

\* What set() reports as failed is a channel or a value the instrument does
\* not have, or a value that never compares equal.
FailedIsRefused ==
  alone /\ result = "failed" => \/ req.ch > Channels
                                \/ limited \notin InRange
                                \/ limited \in Inexact

\* set() returns, also when replies are cut in two or belong to the telnet
\* user's lines: the instrument answers and the retries run out.
SetReturns == at # "idle" ~> at = "idle"

-----------------------------------------------------------------------------
\* src/awg_server.h:122: set() is "True if the value was successfully set".
TakenIsVerified ==
  result = "failed" /\ req.ch \in 0..Channels => setting[Target] # limited
=============================================================================
