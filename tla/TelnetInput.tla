---------------------------- MODULE TelnetInput ----------------------------
(***************************************************************************)
(* How Telnet_Server (src/telnet_server.cpp) makes lines of the bytes of a *)
(* session, and what it does with them: the word PASSTHROUGH, in any case  *)
(* and between blanks, turns the pass-through on and off, and while it is  *)
(* on every other line is sent to the instrument.                          *)
(*                                                                         *)
(* The word is one letter here, "p" or "P".  Besides lines a telnet client *)
(* sends negotiations: the byte IAC, a command and an option, both "opt"   *)
(* (a byte that is none of the others).                                    *)
(* Faults: split   a negotiation may be read when only a part has arrived  *)
(*         reset   the connection may be reset                             *)
(***************************************************************************)
EXTENDS Naturals, Sequences, FiniteSets

CONSTANTS LIMIT,         \* length of line_buffer, 256 in the code
          Lines,         \* the lines users type, as sequences of bytes
          MaxItems,      \* bound: lines and negotiations of a session
          Faults

Bytes == {"p", "P", "x", " ", "opt", "CR", "NL", "IAC"}

ASSUME LimitAssumption == LIMIT \in Nat \ {0}
ASSUME LineAssumption == Lines \subseteq Seq({"p", "P", "x", " "})
ASSUME FaultAssumption == Faults \subseteq {"split", "reset"}

VARIABLES conn,           \* the session: "none", "open", or "closed" by the user
          pipe,           \* its bytes that are not read, oldest first
          here,           \* how many of them have arrived
          client,         \* whether the server has accepted it
          line_buffer,
          pass_through,
          toAwg,          \* the lines of the session sent to the instrument
          typed,          \* the lines of the session, as typed
          taken,          \* the lines of the session, as onTelnetInput got them
          split,          \* whether a negotiation of the session was split
          begun,          \* pass_through when the session was opened
          items           \* lines and negotiations of the session

serverVars  == <<client, line_buffer, pass_through, toAwg, taken>>
sessionVars == <<typed, begun, items>>
vars == <<conn, pipe, here, split, serverVars, sessionVars>>

Init == /\ conn = "none" /\ pipe = <<>> /\ here = 0
        /\ client = FALSE /\ line_buffer = <<>> /\ pass_through = FALSE
        /\ toAwg = <<>> /\ typed = <<>> /\ taken = <<>>
        /\ split = FALSE /\ begun = FALSE
        /\ items = 0

-----------------------------------------------------------------------------
(* The user and the network: external to the repository *)

\* The server looks at a session only when the one before is over, so the
\* next one may as well begin then.
Connect ==
  /\ conn = "none" /\ ~client
  /\ conn' = "open"
  /\ begun' = pass_through
  /\ typed' = <<>> /\ taken' = <<>> /\ toAwg' = <<>>
  /\ split' = FALSE /\ items' = 0
  /\ UNCHANGED <<pipe, here, client, line_buffer, pass_through>>

Item == /\ conn = "open"
        /\ items < MaxItems
        /\ items' = items + 1
        /\ UNCHANGED <<conn, here, split, serverVars, begun>>

TypeLine ==
  /\ Item
  /\ \E l \in Lines, eol \in {<<"NL">>, <<"CR", "NL">>} :
       /\ pipe' = pipe \o l \o eol
       /\ typed' = Append(typed, l)

Negotiate ==
  /\ Item
  /\ pipe' = pipe \o <<"IAC", "opt", "opt">>
  /\ UNCHANGED typed

Arrive ==
  /\ here < Len(pipe)
  /\ here' = here + 1
  /\ UNCHANGED <<conn, pipe, split, serverVars, sessionVars>>

\* The user leaves, perhaps in the middle of a line.
HangUp ==
  /\ conn = "open"
  /\ conn' = "closed"
  /\ \E l \in Lines \cup {<<>>} : pipe' = pipe \o l
  /\ UNCHANGED <<here, split, serverVars, sessionVars>>

Reset ==
  /\ "reset" \in Faults
  /\ conn # "none"
  /\ conn' = "none" /\ pipe' = <<>> /\ here' = 0
  /\ UNCHANGED <<split, serverVars, sessionVars>>

-----------------------------------------------------------------------------
(* The server *)

\* Mutant: what is left of the last session's line stays in the buffer.
LineKept == line_buffer

LineOfNewSession == <<>>

\* The first part of loop(): a connection that has sent something is
\* accepted, and one that is over and read to its end is given up.
Accept ==
  /\ ~client
  /\ conn # "none" /\ here > 0
  /\ client' = TRUE
  /\ line_buffer' = LineOfNewSession
  /\ UNCHANGED <<conn, pipe, here, split, pass_through, toAwg, taken, sessionVars>>

GiveUp ==
  /\ \/ conn = "none" /\ client
     \/ conn = "closed" /\ pipe = <<>>
  /\ conn' = "none"
  /\ client' = FALSE
  /\ UNCHANGED <<pipe, here, split, line_buffer, pass_through, toAwg, taken, sessionVars>>

Take(n) == /\ pipe' = SubSeq(pipe, n + 1, Len(pipe))
           /\ here' = here - n

\* Next byte of the session, if the server is in the middle of reading it.
Reads(B) == client /\ here > 0 /\ pipe[1] \in B

ReadCr ==
  /\ Reads({"CR"})
  /\ Take(1)
  /\ UNCHANGED <<conn, split, serverVars, sessionVars>>

\* Mutant: a line that is too long for the buffer is begun anew.
BufferedAnew(c) == IF Len(line_buffer) < LIMIT THEN Append(line_buffer, c) ELSE <<c>>

Buffered(c) == IF Len(line_buffer) < LIMIT THEN Append(line_buffer, c) ELSE line_buffer

ReadChar ==
  /\ Reads(Bytes \ {"CR", "NL", "IAC"})
  /\ line_buffer' = Buffered(pipe[1])
  /\ Take(1)
  /\ UNCHANGED <<conn, split, client, pass_through, toAwg, taken, sessionVars>>

\* The filter of negotiations: IAC is read before it is known whether the
\* other two bytes are there.
ReadIac ==
  /\ Reads({"IAC"})
  /\ \/ here >= 3 /\ Take(3) /\ UNCHANGED split
     \/ here < 3 /\ "split" \in Faults /\ Take(1) /\ split' = TRUE
  /\ UNCHANGED <<conn, serverVars, sessionVars>>

\* Mutant: the line is compared as it was typed.
IsToggleAsTyped(l) == l = <<"P">>

\* trim() and toUpperCase(): one letter with blanks around it only.
IsToggle(l) == \E m \in DOMAIN l : /\ l[m] \in {"p", "P"}
                                  /\ \A i \in DOMAIN l \ {m} : l[i] = " "

ReadNewline ==
  /\ Reads({"NL"})
  /\ taken' = Append(taken, line_buffer)
  /\ IF IsToggle(line_buffer)
     THEN pass_through' = ~pass_through /\ UNCHANGED toAwg
     ELSE /\ toAwg' = IF pass_through THEN Append(toAwg, line_buffer) ELSE toAwg
          /\ UNCHANGED pass_through
  /\ line_buffer' = <<>>
  /\ Take(1)
  /\ UNCHANGED <<conn, split, client, sessionVars>>

loop == Accept \/ GiveUp \/ ReadCr \/ ReadChar \/ ReadIac \/ ReadNewline

User == Connect \/ TypeLine \/ Negotiate \/ HangUp

Next == User \/ Arrive \/ Reset \/ loop

Spec == Init /\ [][Next]_vars

-----------------------------------------------------------------------------
Cut(l) == SubSeq(l, 1, IF Len(l) < LIMIT THEN Len(l) ELSE LIMIT)

\* While no negotiation has been split, onTelnetInput gets the lines of the
\* session as they were typed, each cut at the size of the buffer: nothing of
\* a session before, of a negotiation or of a line end gets into them.
LinesAsTyped ==
  ~split => /\ Len(taken) <= Len(typed)
            /\ \A k \in DOMAIN taken : taken[k] = Cut(typed[k])

\* How many of the first n bytes of a line are not of a negotiation.
Typable(l, n) == Cardinality({i \in 1..n : l[i] # "opt"})

\* A negotiation that was split adds its command and option to a line, and
\* does nothing worse: no line is lost or joined to another, its other bytes
\* are those that were typed, in order, and none is missing unless the buffer
\* is full.
OnlyOptionsAdded ==
  /\ Len(taken) <= Len(typed)
  /\ \A k \in DOMAIN taken :
       LET l == taken[k] IN
       /\ Typable(l, Len(l)) <= Len(typed[k])
       /\ \A i \in DOMAIN l : l[i] # "opt" => l[i] = typed[k][Typable(l, i)]
       /\ Len(l) < LIMIT => Typable(l, Len(l)) = Len(typed[k])

\* While no negotiation has been split, the instrument gets exactly the lines
\* typed while the pass-through was on, counting from the state in which the
\* session before has left it (pass_through is static).
TheWord(l) == /\ Cardinality({i \in DOMAIN l : l[i] \in {"p", "P"}}) = 1
              /\ \A i \in DOMAIN l : l[i] \in {"p", "P", " "}
Toggles(k) == Cardinality({j \in 1..k : TheWord(Cut(typed[j]))})
PassedOn == {k \in DOMAIN taken : /\ ~TheWord(Cut(typed[k]))
                                  /\ begun = (Toggles(k) % 2 = 0)}

AwgGetsLines ==
  ~split => /\ Len(toAwg) = Cardinality(PassedOn)
            /\ \A k \in PassedOn :
                 toAwg[Cardinality({j \in PassedOn : j <= k})] = Cut(typed[k])

-----------------------------------------------------------------------------
\* src/telnet_server.cpp:41-44: when negotiations are taken for user input "the
\* first real command can be corrupted", and one that has not arrived whole is
\* left to "let the next loop finish it": no byte of one gets into a line.
NegotiationsFiltered ==
  \A k \in DOMAIN taken : \A i \in DOMAIN taken[k] : taken[k][i] # "opt"
=============================================================================
