---------------------------- MODULE TelnetProofs ----------------------------
(***************************************************************************)
(* The lines of a telnet session, for every size of the line buffer, all   *)
(* lines, any number of sessions and however their bytes trickle in.       *)
(***************************************************************************)
EXTENDS TelnetInput, TLAPS, FiniteSetTheorems, SequenceTheorems

Typed == {"p", "P", "x", " "}      \* the bytes of a line
Kept  == Typed \cup {"opt"}        \* those that get into the line buffer

TypeInv == /\ conn \in {"none", "open", "closed"}
           /\ pipe \in Seq(Bytes) /\ here \in 0..Len(pipe)
           /\ client \in BOOLEAN /\ pass_through \in BOOLEAN
           /\ begun \in BOOLEAN /\ split \in BOOLEAN
           /\ line_buffer \in Seq(Kept) /\ Len(line_buffer) <= LIMIT
           /\ typed \in Seq(Seq(Typed)) /\ taken \in Seq(Seq(Kept))
           /\ toAwg \in Seq(Seq(Kept))
           /\ conn = "none" => pipe = <<>>

(***************************************************************************)
(* Where the server is in what was typed: before it reads byte i of the    *)
(* pipe it is in line ln[i] and has read col[i] bytes of that.  Only a     *)
(* user who has left may have left bytes of a line that has no end.        *)
(***************************************************************************)
Moves(b, k, c, k2, c2) ==
  /\ b = "NL" => /\ k <= Len(typed) /\ c = Len(typed[k])
                 /\ k2 = k + 1 /\ c2 = 0
  /\ b \in Typed => /\ k2 = k /\ c2 = c + 1
                    /\ \/ k <= Len(typed) /\ c < Len(typed[k]) /\ b = typed[k][c + 1]
                       \/ k > Len(typed) /\ conn = "closed"
  /\ b \in {"CR", "IAC", "opt"} => k2 = k /\ c2 = c

Step(i, ln, col) == Moves(pipe[i], ln[i], col[i], ln[i + 1], col[i + 1])

Tracks(ln, col) ==
  /\ ln \in [1..Len(pipe) + 1 -> Nat \ {0}] /\ col \in [1..Len(pipe) + 1 -> Nat]
  /\ \A i \in 1..Len(pipe) : Step(i, ln, col)
  /\ \A i \in 1..Len(pipe) + 1 :
       /\ ln[i] <= Len(typed) + 1
       /\ conn = "open" /\ ln[i] > Len(typed) => col[i] = 0
  /\ conn = "open" => ln[Len(pipe) + 1] = Len(typed) + 1

\* What the line buffer holds when c bytes of line k have been read: those
\* bytes, as far as there was room, and the remains of split negotiations.
Holds(l, k, c) ==
  /\ Typable(l, Len(l)) <= c
  /\ \A i \in 1..Len(l) : l[i] # "opt" => /\ Typable(l, i) \in 1..c
                                         /\ l[i] = typed[k][Typable(l, i)]
  /\ Len(l) < LIMIT => Typable(l, Len(l)) = c

Exact(l, k, c) == /\ Len(l) = IF c < LIMIT THEN c ELSE LIMIT
                  /\ \A i \in 1..Len(l) : l[i] = typed[k][i]

Buffer(k, c) == k <= Len(typed) \/ c = 0 =>
                  Holds(line_buffer, k, c) /\ (~split => Exact(line_buffer, k, c))

Following == \E ln, col :
  /\ Tracks(ln, col)
  /\ ln[1] = Len(taken) + 1
  /\ client => Buffer(ln[1], col[1])
  /\ ~client /\ conn # "none" => taken = <<>> /\ col[1] = 0

\* Negotiations are whole but for the one that has been split, so that no
\* command or option comes without its IAC before.
WholeInv ==
  /\ \A i \in 1..Len(pipe) : pipe[i] = "IAC" =>
       i + 2 <= Len(pipe) /\ pipe[i + 1] = "opt" /\ pipe[i + 2] = "opt"
  /\ ~split => \A i \in 1..Len(pipe) : pipe[i] = "opt" =>
                 \E j \in {i - 2, i - 1} : j >= 1 /\ pipe[j] = "IAC"

TakenInv ==
  /\ Len(taken) <= Len(typed)
  /\ \A k \in 1..Len(taken) : /\ Holds(taken[k], k, Len(typed[k]))
                              /\ ~split => Exact(taken[k], k, Len(typed[k]))

LineInv == TypeInv /\ Following /\ WholeInv /\ TakenInv

-----------------------------------------------------------------------------
(* Counting the bytes of a line that are not of a negotiation. *)
LEMMA TypableType ==
  ASSUME NEW l, NEW n \in Nat
  PROVE  /\ Typable(l, n) \in Nat
         /\ IsFiniteSet({i \in 1..n : l[i] # "opt"})
<1>1. IsFiniteSet(1..n)
  BY FS_Interval
<1>2. IsFiniteSet({i \in 1..n : l[i] # "opt"})
  BY <1>1, FS_Subset
<1>3. QED
  BY <1>2, FS_CardinalityType DEF Typable

LEMMA TypableEmpty == Typable(<<>>, 0) = 0
<1>1. {i \in 1..0 : <<>>[i] # "opt"} = {}
  OBVIOUS
<1>2. QED
  BY <1>1, FS_EmptySet DEF Typable

LEMMA TypableAppend ==
  ASSUME NEW l \in Seq(Kept), NEW c \in Kept
  PROVE  /\ \A i \in 1..Len(l) : Typable(Append(l, c), i) = Typable(l, i)
         /\ Typable(Append(l, c), Len(l) + 1)
              = IF c = "opt" THEN Typable(l, Len(l)) ELSE Typable(l, Len(l)) + 1
<1> DEFINE m == Append(l, c)
           S == {i \in 1..Len(l) : l[i] # "opt"}
           T == {i \in 1..Len(l) + 1 : m[i] # "opt"}
<1>0. /\ Len(l) \in Nat
      /\ \A i \in 1..Len(l) : m[i] = l[i]
      /\ m[Len(l) + 1] = c
  BY AppendProperties, LenProperties
<1>1. \A i \in 1..Len(l) : Typable(m, i) = Typable(l, i)
  <2> SUFFICES ASSUME NEW i \in 1..Len(l)
               PROVE  {j \in 1..i : m[j] # "opt"} = {j \in 1..i : l[j] # "opt"}
    BY DEF Typable
  <2> HIDE DEF m
  <2>1. QED
    BY <1>0
<1>2. CASE c = "opt"
  <2>1. T = S
    <3> HIDE DEF m
    <3>1. QED
      BY <1>0, <1>2
  <2>2. QED
    BY <1>1, <1>2, <2>1 DEF Typable
<1>3. CASE c # "opt"
  <2>1. T = S \cup {Len(l) + 1} /\ Len(l) + 1 \notin S
    <3> HIDE DEF m
    <3>1. QED
      BY <1>0, <1>3
  <2>2. IsFiniteSet(S)
    BY <1>0, TypableType
  <2>3. Cardinality(T) = Cardinality(S) + 1
    BY <2>1, <2>2, FS_AddElement
  <2>4. QED
    BY <1>1, <1>3, <2>3 DEF Typable
<1>4. QED
  BY <1>2, <1>3

(* What the line buffer is worth when one more byte is read into it. *)
LEMMA BufferedTypes ==
  ASSUME TypeInv, NEW c \in Kept
  PROVE  Buffered(c) \in Seq(Kept) /\ Len(Buffered(c)) <= LIMIT
<1>1. CASE Len(line_buffer) < LIMIT
  <2>1. /\ Append(line_buffer, c) \in Seq(Kept)
        /\ Len(Append(line_buffer, c)) = Len(line_buffer) + 1
    BY AppendProperties DEF TypeInv
  <2>2. Len(line_buffer) \in Nat
    BY LenProperties DEF TypeInv
  <2>3. QED
    BY <1>1, <2>1, <2>2, LimitAssumption DEF Buffered
<1>2. CASE ~(Len(line_buffer) < LIMIT)
  BY <1>2 DEF Buffered, TypeInv
<1>3. QED
  BY <1>1, <1>2

LEMMA HoldsByte ==
  ASSUME TypeInv, NEW b \in Kept, NEW k, NEW c \in Nat, Holds(line_buffer, k, c),
         b # "opt" => b = typed[k][c + 1]
  PROVE  Holds(Buffered(b), k, IF b = "opt" THEN c ELSE c + 1)
<1> DEFINE l == line_buffer
           d == IF b = "opt" THEN c ELSE c + 1
<1>0. /\ l \in Seq(Kept) /\ Len(l) \in Nat
      /\ \A i \in 0..Len(l) : Typable(l, i) \in Nat
      /\ d \in Nat /\ c <= d
  <2>1. l \in Seq(Kept) /\ Len(l) \in Nat
    BY LenProperties DEF TypeInv
  <2>2. ASSUME NEW i \in 0..Len(l) PROVE Typable(l, i) \in Nat
    <3>1. i \in Nat
      BY <2>1
    <3>2. QED
      BY <3>1, TypableType
  <2>3. QED
    BY <2>1, <2>2
<1>1. CASE Len(l) < LIMIT
  <2> DEFINE m == Append(l, b)
  <2>1. /\ Len(m) = Len(l) + 1
        /\ \A i \in 1..Len(l) : m[i] = l[i] /\ Typable(m, i) = Typable(l, i)
        /\ m[Len(l) + 1] = b
        /\ Typable(m, Len(l) + 1)
              = IF b = "opt" THEN Typable(l, Len(l)) ELSE Typable(l, Len(l)) + 1
    BY <1>0, AppendProperties, TypableAppend
  <2>2. Typable(l, Len(l)) = c
    BY <1>1 DEF Holds
  <2>3. Typable(m, Len(m)) = d
    BY <2>1, <2>2
  <2>4. \A i \in 1..Len(m) : m[i] # "opt" => /\ Typable(m, i) \in 1..d
                                            /\ m[i] = typed[k][Typable(m, i)]
    <3> SUFFICES ASSUME NEW i \in 1..Len(m), m[i] # "opt"
                 PROVE  Typable(m, i) \in 1..d /\ m[i] = typed[k][Typable(m, i)]
      OBVIOUS
    <3> HIDE DEF m
    <3>1. CASE i = Len(l) + 1
      BY <1>0, <2>1, <2>2, <3>1
    <3>2. CASE i \in 1..Len(l)
      BY <1>0, <2>1, <3>2 DEF Holds
    <3>3. QED
      BY <1>0, <2>1, <3>1, <3>2
  <2>5. Buffered(b) = m
    BY <1>1 DEF Buffered
  <2> HIDE DEF m
  <2>6. QED
    BY <1>0, <2>3, <2>4, <2>5 DEF Holds
<1>2. CASE ~(Len(l) < LIMIT)
  <2>1. Buffered(b) = l
    BY <1>2 DEF Buffered
  <2> HIDE DEF d
  <2>2. Holds(l, k, d)
    BY <1>0, <1>2 DEF Holds
  <2>3. QED
    BY <2>1, <2>2 DEF d
<1>3. QED
  BY <1>1, <1>2

LEMMA ExactByte ==
  ASSUME TypeInv, NEW b \in Typed, NEW k, NEW c \in Nat, Exact(line_buffer, k, c),
         b = typed[k][c + 1]
  PROVE  Exact(Buffered(b), k, c + 1)
<1>0. line_buffer \in Seq(Kept) /\ Len(line_buffer) \in Nat /\ b \in Kept
  BY LenProperties DEF TypeInv, Kept
<1>1. CASE Len(line_buffer) < LIMIT
  <2> DEFINE m == Append(line_buffer, b)
  <2>1. /\ Len(m) = Len(line_buffer) + 1
        /\ \A i \in 1..Len(line_buffer) : m[i] = line_buffer[i]
        /\ m[Len(line_buffer) + 1] = b
    BY <1>0, AppendProperties
  <2>2. Buffered(b) = m
    BY <1>1 DEF Buffered
  <2> HIDE DEF m
  <2>3. QED
    BY <1>0, <1>1, <2>1, <2>2, LimitAssumption DEF Exact
<1>2. CASE ~(Len(line_buffer) < LIMIT)
  BY <1>0, <1>2, LimitAssumption DEF Exact, Buffered
<1>3. QED
  BY <1>1, <1>2

LEMMA EmptyBuffer ==
  ASSUME NEW k PROVE Holds(<<>>, k, 0) /\ Exact(<<>>, k, 0)
<1>1. Len(<<>>) = 0
  BY EmptySeq
<1>2. QED
  BY <1>1, TypableEmpty, LimitAssumption DEF Holds, Exact

-----------------------------------------------------------------------------
(* The invariant holds at first, and every action keeps it. *)
LEMMA LineInit == Init => LineInv
<1> SUFFICES ASSUME Init PROVE LineInv
  OBVIOUS
<1>0. /\ Len(<<>>) = 0 /\ <<>> \in Seq(Bytes) /\ <<>> \in Seq(Kept)
      /\ <<>> \in Seq(Seq(Typed)) /\ <<>> \in Seq(Seq(Kept))
  BY EmptySeq
<1>1. TypeInv
  <2>1. here \in 0..Len(pipe) /\ Len(line_buffer) <= LIMIT
    BY <1>0, LimitAssumption DEF Init
  <2>2. QED
    BY <1>0, <2>1, Zenon DEF Init, TypeInv
<1>2. WholeInv /\ TakenInv
  BY <1>0 DEF Init, WholeInv, TakenInv
<1>3. Following
  <2> DEFINE ln == [i \in 1..Len(pipe) + 1 |-> 1]
             col == [i \in 1..Len(pipe) + 1 |-> 0]
  <2>1. Tracks(ln, col)
    BY <1>0 DEF Init, Tracks
  <2>2. ln[1] = Len(taken) + 1 /\ col[1] = 0
    BY <1>0 DEF Init
  <2> HIDE DEF ln, col
  <2>3. QED
    BY <2>1, <2>2 DEF Init, Following
<1>4. QED
  BY <1>1, <1>2, <1>3 DEF LineInv

(* A session begins: nothing is typed, nothing is to be read. *)
LEMMA LineConnect == LineInv /\ Connect => LineInv'
<1> SUFFICES ASSUME LineInv, Connect PROVE LineInv'
  OBVIOUS
<1>0. Len(<<>>) = 0 /\ (\A S : <<>> \in Seq(S)) /\ pipe = <<>>
  BY EmptySeq DEF LineInv, TypeInv, Connect
<1>1. TypeInv'
  BY <1>0, EmptySeq DEF LineInv, TypeInv, Connect
<1>2. WholeInv' /\ TakenInv'
  BY <1>0 DEF Connect, WholeInv, TakenInv
<1>3. Following'
  <2> DEFINE ln == [i \in 1..1 |-> 1]
             col == [i \in 1..1 |-> 0]
  <2>1. Tracks(ln, col)'
    BY <1>0 DEF Connect, Tracks
  <2>2. (ln[1] = Len(taken) + 1)' /\ col[1] = 0
    BY <1>0 DEF Connect
  <2> HIDE DEF ln, col
  <2>3. QED
    BY <2>1, <2>2 DEF Connect, Following
<1>4. QED
  BY <1>1, <1>2, <1>3 DEF LineInv

(* What no line of the session depends on. *)
LEMMA SameLines ==
  ASSUME TakenInv, UNCHANGED <<typed, taken, split>>
  PROVE  TakenInv'
  BY DEF TakenInv, Holds, Exact

LEMMA SameBuffer ==
  ASSUME NEW k, NEW c, Buffer(k, c), UNCHANGED <<typed, line_buffer, split>>
  PROVE  Buffer(k, c)'
  BY DEF Buffer, Holds, Exact

LEMMA SameTracks ==
  ASSUME NEW ln, NEW col, Tracks(ln, col), UNCHANGED <<typed, pipe, conn>>
  PROVE  Tracks(ln, col)'
  BY DEF Tracks, Step, Moves

LEMMA LineArrive == LineInv /\ Arrive => LineInv'
<1> SUFFICES ASSUME LineInv, Arrive PROVE LineInv'
  OBVIOUS
<1> USE DEF Arrive, serverVars, sessionVars
<1>1. TypeInv'
  <2>1. Len(pipe) \in Nat
    BY LenProperties DEF LineInv, TypeInv
  <2>2. QED
    BY <2>1 DEF LineInv, TypeInv
<1>2. WholeInv'
  BY DEF LineInv, WholeInv
<1>3. TakenInv'
  BY SameLines DEF LineInv
<1>4. Following'
  <2>1. PICK ln, col : /\ Tracks(ln, col) /\ ln[1] = Len(taken) + 1
                       /\ client => Buffer(ln[1], col[1])
                       /\ ~client /\ conn # "none" => taken = <<>> /\ col[1] = 0
    BY DEF LineInv, Following
  <2>2. Tracks(ln, col)' /\ (client => Buffer(ln[1], col[1]))'
    BY <2>1, SameTracks, SameBuffer
  <2>3. QED
    BY <2>1, <2>2 DEF Following
<1>5. QED
  BY <1>1, <1>2, <1>3, <1>4 DEF LineInv

LEMMA LineAccept == LineInv /\ Accept => LineInv'
<1> SUFFICES ASSUME LineInv, Accept PROVE LineInv'
  OBVIOUS
<1> USE DEF Accept, LineOfNewSession, sessionVars
<1>1. TypeInv'
  <2>1. Len(<<>>) = 0 /\ <<>> \in Seq(Kept)
    BY EmptySeq
  <2>2. QED
    BY <2>1, LimitAssumption DEF LineInv, TypeInv
<1>2. WholeInv'
  BY DEF LineInv, WholeInv
<1>3. TakenInv'
  BY SameLines DEF LineInv
<1>4. Following'
  <2>1. PICK ln, col : /\ Tracks(ln, col) /\ ln[1] = Len(taken) + 1
                       /\ ~client /\ conn # "none" => taken = <<>> /\ col[1] = 0
    BY DEF LineInv, Following
  <2>2. Tracks(ln, col)'
    BY <2>1, SameTracks
  <2>3. Buffer(ln[1], 0)'
    BY EmptyBuffer DEF Buffer, Holds, Exact
  <2>4. QED
    BY <2>1, <2>2, <2>3 DEF Following
<1>5. QED
  BY <1>1, <1>2, <1>3, <1>4 DEF LineInv

(* A session ends, and nothing of it is left to be read. *)
LEMMA TracksEnded ==
  ASSUME NEW ln, NEW col, TypeInv, Tracks(ln, col), conn' = "none", pipe' = <<>>,
         UNCHANGED typed
  PROVE  \E ln2, col2 : Tracks(ln2, col2)' /\ ln2[1] = ln[1] /\ col2[1] = col[1]
<1> DEFINE ln2 == [i \in 1..1 |-> ln[1]]
           col2 == [i \in 1..1 |-> col[1]]
<1>0. Len(<<>>) = 0 /\ Len(pipe) \in Nat /\ Len(typed) \in Nat
  BY EmptySeq, LenProperties DEF TypeInv
<1>1. Tracks(ln2, col2)'
  BY <1>0 DEF Tracks
<1>2. QED
  BY <1>1

LEMMA LineEnds == LineInv /\ (GiveUp \/ Reset) => LineInv'
<1> SUFFICES ASSUME LineInv, GiveUp \/ Reset PROVE LineInv'
  OBVIOUS
<1>0. /\ conn' = "none" /\ pipe' = <<>>
      /\ UNCHANGED <<typed, taken, split, line_buffer, pass_through, begun, toAwg>>
      /\ client' \in {client, FALSE}
      /\ here' \in {here, 0}
  BY DEF LineInv, TypeInv, GiveUp, Reset, serverVars, sessionVars
<1>1. TypeInv'
  <2>1. Len(<<>>) = 0 /\ <<>> \in Seq(Bytes) /\ (GiveUp => here' = here /\ pipe = <<>>)
         /\ (Reset => here' = 0)
    BY EmptySeq DEF GiveUp, Reset, LineInv, TypeInv
  <2>2. here' \in 0..Len(pipe')
    BY <1>0, <2>1 DEF LineInv, TypeInv, GiveUp, Reset
  <2>3. /\ conn' \in {"none", "open", "closed"} /\ client' \in BOOLEAN
        /\ pipe' \in Seq(Bytes) /\ pass_through' \in BOOLEAN
        /\ begun' \in BOOLEAN /\ split' \in BOOLEAN
    BY <1>0, <2>1 DEF LineInv, TypeInv
  <2>4. /\ line_buffer' = line_buffer /\ typed' = typed /\ taken' = taken
        /\ toAwg' = toAwg
    BY <1>0
  <2>5. QED
    BY <1>0, <2>2, <2>3, <2>4, Zenon DEF LineInv, TypeInv
<1>2. WholeInv'
  BY <1>0, EmptySeq DEF WholeInv
<1>3. TakenInv'
  BY <1>0, SameLines DEF LineInv
<1>4. Following'
  <2>1. PICK ln, col : /\ Tracks(ln, col) /\ ln[1] = Len(taken) + 1
                       /\ client => Buffer(ln[1], col[1])
    BY DEF LineInv, Following
  <2>2. PICK ln2, col2 : Tracks(ln2, col2)' /\ ln2[1] = ln[1] /\ col2[1] = col[1]
    BY <1>0, <2>1, TracksEnded DEF LineInv
  <2>3. client' => Buffer(ln2[1], col2[1])'
    BY <1>0, <2>1, <2>2, SameBuffer DEF LineInv, TypeInv
  <2>4. QED
    BY <1>0, <2>1, <2>2, <2>3 DEF Following
<1>5. QED
  BY <1>1, <1>2, <1>3, <1>4 DEF LineInv

-----------------------------------------------------------------------------
(* The server reads the first n bytes. *)
LEMMA RestOfPipe ==
  ASSUME NEW n \in 1..Len(pipe), pipe \in Seq(Bytes), Take(n)
  PROVE  /\ pipe' \in Seq(Bytes) /\ Len(pipe') = Len(pipe) - n
         /\ \A i \in 1..Len(pipe') : pipe'[i] = pipe[i + n]
<1>0. Len(pipe) \in Nat /\ \A i \in 1..Len(pipe) : pipe[i] \in Bytes
  BY LenProperties, ElementOfSeq
<1>1. /\ SubSeq(pipe, n + 1, Len(pipe)) \in Seq(Bytes)
      /\ Len(SubSeq(pipe, n + 1, Len(pipe))) = Len(pipe) - n
      /\ \A i \in 1..(Len(pipe) - n) : SubSeq(pipe, n + 1, Len(pipe))[i] = pipe[i + n]
  BY <1>0, SubSeqProperties
<1>2. QED
  BY <1>1 DEF Take

LEMMA TracksRead ==
  ASSUME TypeInv, NEW ln, NEW col, Tracks(ln, col), NEW n \in 1..Len(pipe), Take(n),
         UNCHANGED <<conn, typed>>
  PROVE  \E ln2, col2 : /\ Tracks(ln2, col2)'
                        /\ ln2[1] = ln[n + 1] /\ col2[1] = col[n + 1]
<1>0. Len(pipe) \in Nat
  BY LenProperties DEF TypeInv
<1>1. Len(pipe') = Len(pipe) - n /\ \A i \in 1..Len(pipe') : pipe'[i] = pipe[i + n]
  BY RestOfPipe DEF TypeInv
<1>a. PICK ln2 : ln2 = [i \in 1..Len(pipe) - n + 1 |-> ln[i + n]]
  OBVIOUS
<1>b. PICK col2 : col2 = [i \in 1..Len(pipe) - n + 1 |-> col[i + n]]
  OBVIOUS
<1>2. /\ \A i \in 1..Len(pipe') + 1 : ln2[i] = ln[i + n] /\ col2[i] = col[i + n]
      /\ \A i \in 1..Len(pipe') + 1 : i + n \in 1..Len(pipe) + 1
      /\ \A i \in 1..Len(pipe') : i + n \in 1..Len(pipe) /\ (i + 1) + n = (i + n) + 1
  BY <1>0, <1>1, <1>a, <1>b
<1>3. ln2 \in [1..Len(pipe') + 1 -> Nat \ {0}] /\ col2 \in [1..Len(pipe') + 1 -> Nat]
  BY <1>0, <1>1, <1>a, <1>b DEF Tracks
<1>4. ln2[1] = ln[n + 1] /\ col2[1] = col[n + 1]
  BY <1>0, <1>a, <1>b
<1>5. \A i \in 1..Len(pipe') : Step(i, ln2, col2)'
  <2> SUFFICES ASSUME NEW i \in 1..Len(pipe') PROVE Step(i, ln2, col2)'
    OBVIOUS
  <2>1. Step(i + n, ln, col)
    BY <1>2 DEF Tracks
  <2>2. /\ ln2[i] = ln[i + n] /\ col2[i] = col[i + n]
        /\ ln2[i + 1] = ln[(i + n) + 1] /\ col2[i + 1] = col[(i + n) + 1]
        /\ pipe'[i] = pipe[i + n]
    <3>1. i \in 1..Len(pipe') + 1 /\ i + 1 \in 1..Len(pipe') + 1
      BY <1>0, <1>1
    <3>2. /\ ln2[i] = ln[i + n] /\ col2[i] = col[i + n]
          /\ ln2[i + 1] = ln[(i + 1) + n] /\ col2[i + 1] = col[(i + 1) + n]
      BY <1>2, <3>1
    <3>3. (i + 1) + n = (i + n) + 1
      BY <1>2
    <3>4. QED
      BY <1>1, <3>2, <3>3
  <2>3. typed' = typed /\ conn' = conn
    OBVIOUS
  <2>4. QED
    BY <2>1, <2>2, <2>3 DEF Step, Moves
<1>6. \A i \in 1..Len(pipe') + 1 :
        /\ ln2[i] <= Len(typed') + 1
        /\ conn' = "open" /\ ln2[i] > Len(typed') => col2[i] = 0
  BY <1>0, <1>1, <1>2 DEF Tracks
<1>7. conn' = "open" => ln2[Len(pipe') + 1] = Len(typed') + 1
  BY <1>0, <1>1, <1>2 DEF Tracks
<1>8. Tracks(ln2, col2)'
  BY <1>3, <1>5, <1>6, <1>7 DEF Tracks
<1>9. QED
  BY <1>4, <1>8

LEMMA WholeRead ==
  ASSUME TypeInv, WholeInv, NEW n \in 1..Len(pipe), Take(n),
         split' = split \/ split',
         split' \/ (n = 1 /\ pipe[1] # "IAC") \/ (n = 3 /\ pipe[1] = "IAC")
  PROVE  WholeInv'
<1>0. Len(pipe) \in Nat
  BY LenProperties DEF TypeInv
<1>1. Len(pipe') = Len(pipe) - n /\ \A i \in 1..Len(pipe') : pipe'[i] = pipe[i + n]
  BY RestOfPipe DEF TypeInv
<1>2. \A i \in 1..Len(pipe') : pipe'[i] = "IAC" =>
        i + 2 <= Len(pipe') /\ pipe'[i + 1] = "opt" /\ pipe'[i + 2] = "opt"
  <2> SUFFICES ASSUME NEW i \in 1..Len(pipe'), pipe'[i] = "IAC"
               PROVE  i + 2 <= Len(pipe') /\ pipe'[i + 1] = "opt" /\ pipe'[i + 2] = "opt"
    OBVIOUS
  <2>1. pipe[i + n] = "IAC" /\ i + n \in 1..Len(pipe)
    BY <1>0, <1>1
  <2>2. (i + n) + 2 <= Len(pipe) /\ pipe[(i + n) + 1] = "opt" /\ pipe[(i + n) + 2] = "opt"
    BY <2>1 DEF WholeInv
  <2>3. i + 1 \in 1..Len(pipe') /\ i + 2 \in 1..Len(pipe')
    BY <1>0, <1>1, <2>2
  <2>4. pipe'[i + 1] = pipe[(i + 1) + n] /\ pipe'[i + 2] = pipe[(i + 2) + n]
    BY <1>1, <2>3
  <2>5. (i + 1) + n = (i + n) + 1 /\ (i + 2) + n = (i + n) + 2
    BY <1>0
  <2>6. QED
    BY <2>2, <2>3, <2>4, <2>5
<1>3. ASSUME ~split', NEW i \in 1..Len(pipe'), pipe'[i] = "opt"
      PROVE  \E j \in {i - 2, i - 1} : j >= 1 /\ pipe'[j] = "IAC"
  <2>1. pipe[i + n] = "opt" /\ i + n \in 1..Len(pipe) /\ ~split
    BY <1>0, <1>1, <1>3
  <2>2. PICK j \in {(i + n) - 2, (i + n) - 1} : j >= 1 /\ pipe[j] = "IAC"
    BY <2>1 DEF WholeInv
  <2>3. ASSUME n = 3, pipe[1] = "IAC" PROVE pipe[2] = "opt" /\ pipe[3] = "opt"
    <3>1. 1 \in 1..Len(pipe)
      BY <1>0
    <3>2. QED
      BY <2>3, <3>1 DEF WholeInv
  <2>4. j - n >= 1 /\ j - n \in {i - 2, i - 1}
    BY <1>0, <1>3, <2>2, <2>3
  <2>5. pipe'[j - n] = "IAC"
    BY <1>0, <1>1, <2>2, <2>4
  <2>6. QED
    BY <2>4, <2>5
<1>4. QED
  BY <1>2, <1>3 DEF WholeInv

LEMMA TypeRead ==
  ASSUME TypeInv, NEW n \in 1..here, Take(n), UNCHANGED <<conn, client, begun, typed>>,
         split' \in BOOLEAN, pass_through' \in BOOLEAN,
         line_buffer' \in Seq(Kept), Len(line_buffer') <= LIMIT,
         taken' \in Seq(Seq(Kept)), toAwg' \in Seq(Seq(Kept))
  PROVE  TypeInv'
<1>0. Len(pipe) \in Nat
  BY LenProperties DEF TypeInv
<1>1. n \in 1..Len(pipe)
  BY <1>0 DEF TypeInv
<1>2. pipe' \in Seq(Bytes) /\ Len(pipe') = Len(pipe) - n
  BY <1>1, RestOfPipe DEF TypeInv
<1>3. here' \in 0..Len(pipe')
  BY <1>0, <1>1, <1>2 DEF Take, TypeInv
<1>4. conn' # "none"
  <2>1. pipe # <<>>
    BY <1>1, EmptySeq
  <2>2. QED
    BY <2>1 DEF TypeInv
<1>5. /\ conn' \in {"none", "open", "closed"} /\ client' \in BOOLEAN
      /\ begun' \in BOOLEAN /\ typed' \in Seq(Seq(Typed))
  BY DEF TypeInv
<1>6. QED
  BY <1>2, <1>3, <1>4, <1>5, Zenon DEF TypeInv

(* What the server is about to read. *)
LEMMA FirstByte ==
  ASSUME TypeInv, NEW B, Reads(B)
  PROVE  /\ 1 \in 1..Len(pipe) /\ 1 \in 1..here /\ here <= Len(pipe)
         /\ pipe[1] \in B \cap Bytes /\ client
<1>1. Len(pipe) \in Nat /\ \A i \in 1..Len(pipe) : pipe[i] \in Bytes
  BY LenProperties, ElementOfSeq DEF TypeInv
<1>2. QED
  BY <1>1 DEF Reads, TypeInv

(* What Following says while the server reads. *)
LEMMA WhereItReads ==
  ASSUME LineInv, client, 1 \in 1..Len(pipe)
  PROVE  \E ln, col : /\ Tracks(ln, col) /\ ln[1] = Len(taken) + 1
                      /\ Buffer(ln[1], col[1]) /\ Step(1, ln, col)
                      /\ col[1] \in Nat /\ Len(pipe) \in Nat
<1>1. Len(pipe) \in Nat
  BY LenProperties DEF LineInv, TypeInv
<1>2. PICK ln, col : /\ Tracks(ln, col) /\ ln[1] = Len(taken) + 1
                     /\ Buffer(ln[1], col[1])
  BY DEF LineInv, Following
<1>3. Step(1, ln, col) /\ col[1] \in Nat
  BY <1>1, <1>2 DEF Tracks
<1>4. QED
  BY <1>1, <1>2, <1>3

(* A line end's first byte is passed over. *)
LEMMA LineReadCr == LineInv /\ ReadCr => LineInv'
<1> SUFFICES ASSUME LineInv, ReadCr PROVE LineInv'
  OBVIOUS
<1>0. /\ 1 \in 1..Len(pipe) /\ 1 \in 1..here /\ here <= Len(pipe)
      /\ pipe[1] = "CR" /\ client /\ Take(1)
      /\ UNCHANGED <<conn, split, client, line_buffer, pass_through, toAwg, taken,
                     typed, begun>>
  BY FirstByte DEF LineInv, ReadCr, serverVars, sessionVars
<1>1. TypeInv'
  BY <1>0, TypeRead DEF LineInv, TypeInv
<1>2. WholeInv'
  BY <1>0, WholeRead DEF LineInv
<1>3. TakenInv'
  BY <1>0, SameLines DEF LineInv
<1>4. Following'
  <2>1. PICK ln, col : /\ Tracks(ln, col) /\ ln[1] = Len(taken) + 1
                       /\ Buffer(ln[1], col[1]) /\ Step(1, ln, col)
    BY <1>0, WhereItReads
  <2>2. PICK ln2, col2 : /\ Tracks(ln2, col2)'
                         /\ ln2[1] = ln[1 + 1] /\ col2[1] = col[1 + 1]
    BY <1>0, <2>1, TracksRead DEF LineInv
  <2>3. ln2[1] = ln[1] /\ col2[1] = col[1]
    BY <1>0, <2>1, <2>2 DEF Step, Moves
  <2>4. Buffer(ln2[1], col2[1])'
    BY <1>0, <2>1, <2>3, SameBuffer
  <2>5. QED
    BY <1>0, <2>1, <2>2, <2>3, <2>4 DEF Following
<1>5. QED
  BY <1>1, <1>2, <1>3, <1>4 DEF LineInv

(* A negotiation is passed over, or its first byte alone. *)
LEMMA LineReadIac == LineInv /\ ReadIac => LineInv'
<1> SUFFICES ASSUME LineInv, ReadIac PROVE LineInv'
  OBVIOUS
<1>0. /\ 1 \in 1..Len(pipe) /\ here <= Len(pipe) /\ Len(pipe) \in Nat
      /\ pipe[1] = "IAC" /\ client
      /\ UNCHANGED <<conn, client, line_buffer, pass_through, toAwg, taken, typed, begun>>
  BY FirstByte, LenProperties DEF LineInv, TypeInv, ReadIac, serverVars, sessionVars
<1>1. PICK n \in {1, 3} : /\ n <= here /\ Take(n)
                          /\ \/ n = 3 /\ split' = split
                             \/ n = 1 /\ split' = TRUE
  BY <1>0, FirstByte DEF LineInv, ReadIac
<1>2. n \in 1..here /\ n \in 1..Len(pipe)
  BY <1>0, <1>1 DEF LineInv, TypeInv
<1>3. TypeInv'
  BY <1>0, <1>1, <1>2, TypeRead DEF LineInv, TypeInv
<1>4. WholeInv'
  BY <1>0, <1>1, <1>2, WholeRead DEF LineInv
<1>5. TakenInv'
  BY <1>0, <1>1 DEF LineInv, TakenInv, Holds, Exact
<1>6. Following'
  <2>1. PICK ln, col : /\ Tracks(ln, col) /\ ln[1] = Len(taken) + 1
                       /\ Buffer(ln[1], col[1]) /\ Step(1, ln, col)
    BY <1>0, WhereItReads
  <2>2. PICK ln2, col2 : /\ Tracks(ln2, col2)'
                         /\ ln2[1] = ln[n + 1] /\ col2[1] = col[n + 1]
    BY <1>0, <1>1, <1>2, <2>1, TracksRead DEF LineInv
  <2>3. ln[1 + 1] = ln[1] /\ col[1 + 1] = col[1]
    BY <1>0, <2>1 DEF Step, Moves
  <2>4. ASSUME n = 1 PROVE ln2[1] = ln[1] /\ col2[1] = col[1]
    BY <2>2, <2>3, <2>4
  <2>5. ASSUME n = 3 PROVE ln2[1] = ln[1] /\ col2[1] = col[1]
    <3>1. /\ pipe[1 + 1] = "opt" /\ pipe[1 + 2] = "opt"
      BY <1>0 DEF LineInv, WholeInv
    <3>2. 2 \in 1..Len(pipe) /\ 3 \in 1..Len(pipe)
      BY <1>0, <1>2, <2>5
    <3>3. Step(2, ln, col) /\ Step(3, ln, col)
      BY <2>1, <3>2 DEF Tracks
    <3>4. /\ ln[2 + 1] = ln[2] /\ col[2 + 1] = col[2]
          /\ ln[3 + 1] = ln[3] /\ col[3 + 1] = col[3]
      BY <3>1, <3>3 DEF Step, Moves
    <3>5. 1 + 1 = 2 /\ 2 + 1 = 3
      OBVIOUS
    <3>6. QED
      BY <2>2, <2>3, <2>5, <3>4, <3>5
  <2>6. ln2[1] = ln[1] /\ col2[1] = col[1]
    BY <1>1, <2>2, <2>3, <2>4, <2>5
  <2>7. Buffer(ln2[1], col2[1])'
    BY <1>0, <1>1, <2>1, <2>6 DEF Buffer, Holds, Exact
  <2>8. QED
    BY <1>0, <2>1, <2>2, <2>6, <2>7 DEF Following
<1>7. QED
  BY <1>3, <1>4, <1>5, <1>6 DEF LineInv

(* A byte of a line is the next of those typed; a command or an option is  *)
(* only read when its negotiation has been split.                          *)
LEMMA LineReadChar == LineInv /\ ReadChar => LineInv'
<1> SUFFICES ASSUME LineInv, ReadChar PROVE LineInv'
  OBVIOUS
<1> DEFINE b == pipe[1]
<1>0. /\ 1 \in 1..Len(pipe) /\ 1 \in 1..here /\ here <= Len(pipe) /\ Len(pipe) \in Nat
      /\ b \in Kept /\ client /\ Take(1)
      /\ line_buffer' = Buffered(b)
      /\ UNCHANGED <<conn, split, client, pass_through, toAwg, taken, typed, begun>>
  BY FirstByte, LenProperties
     DEF LineInv, TypeInv, ReadChar, sessionVars, Bytes, Kept, Typed
<1>1. b = "opt" => split
  BY <1>0 DEF LineInv, WholeInv
<1>2. TypeInv'
  BY <1>0, TypeRead, BufferedTypes DEF LineInv, TypeInv
<1>3. WholeInv'
  <2>1. b # "IAC"
    BY <1>0 DEF Kept, Typed
  <2>2. QED
    BY <1>0, <2>1, WholeRead DEF LineInv
<1>4. TakenInv'
  BY <1>0, SameLines DEF LineInv
<1>5. Following'
  <2>1. PICK ln, col : /\ Tracks(ln, col) /\ ln[1] = Len(taken) + 1
                       /\ Buffer(ln[1], col[1]) /\ Step(1, ln, col) /\ col[1] \in Nat
    BY <1>0, WhereItReads
  <2>2. PICK ln2, col2 : /\ Tracks(ln2, col2)'
                         /\ ln2[1] = ln[1 + 1] /\ col2[1] = col[1 + 1]
    BY <1>0, <2>1, TracksRead DEF LineInv
  <2>3. /\ ln2[1] = ln[1]
        /\ col2[1] = IF b = "opt" THEN col[1] ELSE col[1] + 1
    BY <1>0, <2>1, <2>2 DEF Step, Moves, Kept, Typed
  <2>4. ASSUME ln2[1] <= Len(typed) \/ col2[1] = 0
        PROVE  Holds(line_buffer', ln2[1], col2[1]) /\ (~split => Exact(line_buffer', ln2[1], col2[1]))
    <3>1. Holds(line_buffer, ln[1], col[1]) /\ (~split => Exact(line_buffer, ln[1], col[1]))
      BY <2>1, <2>3, <2>4 DEF Buffer
    <3>2. ASSUME b # "opt" PROVE b \in Typed /\ b = typed[ln[1]][col[1] + 1]
      <4>1. b \in Typed
        BY <1>0, <3>2 DEF Kept
      <4>2. ln[1] <= Len(typed)
        BY <2>1, <2>3, <2>4, <3>2
      <4>3. ~(ln[1] > Len(typed))
        <5>1. ln[1] \in Nat /\ Len(typed) \in Nat
          BY <1>0, <2>1, LenProperties DEF LineInv, TypeInv
        <5>2. QED
          BY <4>2, <5>1
      <4>4. QED
        BY <2>1, <4>1, <4>3 DEF Step, Moves
    <3>3. Holds(Buffered(b), ln[1], IF b = "opt" THEN col[1] ELSE col[1] + 1)
      BY <1>0, <2>1, <3>1, <3>2, HoldsByte DEF LineInv
    <3>4. ~split => Exact(Buffered(b), ln[1], col[1] + 1)
      BY <1>1, <2>1, <3>1, <3>2, ExactByte DEF LineInv
    <3>5. QED
      BY <1>0, <1>1, <2>3, <3>3, <3>4
  <2>5. Buffer(ln2[1], col2[1])'
    BY <1>0, <2>4 DEF Buffer, Holds, Exact
  <2>6. QED
    BY <1>0, <2>1, <2>2, <2>3, <2>5 DEF Following
<1>6. QED
  BY <1>2, <1>3, <1>4, <1>5 DEF LineInv

(* The line that ends is the first that was not taken, read to its end. *)
LEMMA LineReadNewline == LineInv /\ ReadNewline => LineInv'
<1> SUFFICES ASSUME LineInv, ReadNewline PROVE LineInv'
  OBVIOUS
<1>0. /\ 1 \in 1..Len(pipe) /\ 1 \in 1..here /\ here <= Len(pipe) /\ Len(pipe) \in Nat
      /\ pipe[1] = "NL" /\ client /\ Take(1)
      /\ taken' = Append(taken, line_buffer) /\ line_buffer' = <<>>
      /\ toAwg' \in {toAwg, Append(toAwg, line_buffer)}
      /\ pass_through' \in {pass_through, ~pass_through}
      /\ UNCHANGED <<conn, split, client, typed, begun>>
  BY FirstByte, LenProperties DEF LineInv, TypeInv, ReadNewline, sessionVars
<1>1. /\ Len(taken) \in Nat /\ Len(typed) \in Nat
      /\ taken' \in Seq(Seq(Kept)) /\ Len(taken') = Len(taken) + 1
      /\ \A k \in 1..Len(taken) : taken'[k] = taken[k]
      /\ taken'[Len(taken) + 1] = line_buffer
  BY <1>0, LenProperties, AppendProperties DEF LineInv, TypeInv
<1>2. TypeInv'
  <2>1. toAwg' \in Seq(Seq(Kept))
    <3>1. Append(toAwg, line_buffer) \in Seq(Seq(Kept))
      BY AppendProperties DEF LineInv, TypeInv
    <3>2. QED
      BY <1>0, <3>1 DEF LineInv, TypeInv
  <2>2. line_buffer' \in Seq(Kept) /\ Len(line_buffer') <= LIMIT
    BY <1>0, EmptySeq, LimitAssumption
  <2>3. QED
    BY <1>0, <1>1, <2>1, <2>2, TypeRead DEF LineInv, TypeInv
<1>3. WholeInv'
  BY <1>0, WholeRead DEF LineInv
<1>4. PICK ln, col : /\ Tracks(ln, col) /\ ln[1] = Len(taken) + 1
                     /\ Buffer(ln[1], col[1]) /\ Step(1, ln, col)
  BY <1>0, WhereItReads
<1>5. /\ ln[1] <= Len(typed) /\ col[1] = Len(typed[ln[1]])
      /\ ln[1 + 1] = ln[1] + 1 /\ col[1 + 1] = 0
  BY <1>0, <1>4 DEF Step, Moves
<1>6. TakenInv'
  <2>1. /\ Holds(line_buffer, Len(taken) + 1, Len(typed[Len(taken) + 1]))
        /\ ~split => Exact(line_buffer, Len(taken) + 1, Len(typed[Len(taken) + 1]))
    BY <1>4, <1>5 DEF Buffer
  <2>2. ASSUME NEW k \in 1..Len(taken) + 1
        PROVE  /\ Holds(taken'[k], k, Len(typed[k]))
               /\ ~split => Exact(taken'[k], k, Len(typed[k]))
    <3>1. CASE k = Len(taken) + 1
      BY <1>1, <2>1, <3>1
    <3>2. CASE k \in 1..Len(taken)
      BY <1>1, <3>2 DEF LineInv, TakenInv
    <3>3. QED
      BY <1>1, <3>1, <3>2
  <2>3. QED
    BY <1>0, <1>1, <1>4, <1>5, <2>2 DEF TakenInv, Holds, Exact
<1>7. Following'
  <2>1. PICK ln2, col2 : /\ Tracks(ln2, col2)'
                         /\ ln2[1] = ln[1 + 1] /\ col2[1] = col[1 + 1]
    BY <1>0, <1>4, TracksRead DEF LineInv
  <2>2. Buffer(ln2[1], 0)'
    BY <1>0, EmptyBuffer DEF Buffer, Holds, Exact
  <2>3. QED
    BY <1>0, <1>1, <1>4, <1>5, <2>1, <2>2 DEF Following
<1>8. QED
  BY <1>2, <1>3, <1>6, <1>7 DEF LineInv

-----------------------------------------------------------------------------
(* The user sends s, which leads on from the end of what is typed. *)
LEMMA MorePipe ==
  ASSUME pipe \in Seq(Bytes), NEW s \in Seq(Bytes), pipe' = pipe \o s
  PROVE  /\ pipe' \in Seq(Bytes) /\ Len(pipe') = Len(pipe) + Len(s)
         /\ Len(pipe) \in Nat /\ Len(s) \in Nat
         /\ \A i \in 1..Len(pipe) : pipe'[i] = pipe[i]
         /\ \A i \in 1..Len(s) : pipe'[Len(pipe) + i] = s[i]
<1>1. /\ pipe \o s \in Seq(Bytes) /\ Len(pipe \o s) = Len(pipe) + Len(s)
      /\ Len(pipe) \in Nat /\ Len(s) \in Nat
      /\ \A i \in 1..(Len(pipe) + Len(s)) :
           (pipe \o s)[i] = IF i <= Len(pipe) THEN pipe[i] ELSE s[i - Len(pipe)]
  BY ConcatProperties, LenProperties
<1>2. QED
  BY <1>1

LEMMA MovesMore ==
  ASSUME NEW b, NEW k \in Nat \ {0}, NEW c, NEW k2, NEW c2, Moves(b, k, c, k2, c2),
         conn = "open", Len(typed) \in Nat,
         Len(typed') \in Nat, Len(typed) <= Len(typed'),
         \A i \in 1..Len(typed) : typed'[i] = typed[i]
  PROVE  Moves(b, k, c, k2, c2)'
<1>1. ASSUME k <= Len(typed)
      PROVE  k <= Len(typed') /\ typed'[k] = typed[k]
  BY <1>1
<1>2. QED
  BY <1>1 DEF Moves

\* By what is typed, f and g are the positions in the lines before each byte
\* of s.
LeadsOn(s, f, g) ==
  /\ pipe' = pipe \o s
  /\ Len(typed) <= Len(typed') /\ \A k \in 1..Len(typed) : typed'[k] = typed[k]
  /\ f \in [1..Len(s) + 1 -> Nat \ {0}] /\ g \in [1..Len(s) + 1 -> Nat]
  /\ f[1] = Len(typed) + 1 /\ g[1] = 0
  /\ \A i \in 1..Len(s) : Moves(s[i], f[i], g[i], f[i + 1], g[i + 1])'
  /\ \A i \in 1..Len(s) + 1 : /\ f[i] <= Len(typed') + 1
                              /\ conn' = "open" /\ f[i] > Len(typed') => g[i] = 0
  /\ conn' = "open" => f[Len(s) + 1] = Len(typed') + 1

LEMMA TracksMore ==
  ASSUME TypeInv, conn = "open", NEW ln, NEW col, Tracks(ln, col),
         Len(typed') \in Nat, NEW s \in Seq(Bytes), NEW f, NEW g, LeadsOn(s, f, g)
  PROVE  \E ln2, col2 : /\ Tracks(ln2, col2)' /\ ln2[1] = ln[1] /\ col2[1] = col[1]
<1> DEFINE P == Len(pipe)
<1>0. /\ P \in Nat /\ Len(s) \in Nat /\ Len(typed) \in Nat /\ Len(pipe') = P + Len(s)
      /\ \A i \in 1..P : pipe'[i] = pipe[i]
      /\ \A i \in 1..Len(s) : pipe'[P + i] = s[i]
  BY MorePipe, LenProperties DEF TypeInv, LeadsOn
<1>a. PICK ln2 : ln2 = [i \in 1..P + Len(s) + 1 |-> IF i <= P THEN ln[i] ELSE f[i - P]]
  OBVIOUS
<1>b. PICK col2 : col2 = [i \in 1..P + Len(s) + 1 |-> IF i <= P THEN col[i] ELSE g[i - P]]
  OBVIOUS
<1>c. /\ \A k \in 1..Len(typed) : typed'[k] = typed[k]
      /\ Len(typed) <= Len(typed')
      /\ f \in [1..Len(s) + 1 -> Nat \ {0}] /\ g \in [1..Len(s) + 1 -> Nat]
      /\ f[1] = Len(typed) + 1 /\ g[1] = 0
      /\ \A i \in 1..Len(s) + 1 : /\ f[i] <= Len(typed') + 1
                                  /\ conn' = "open" /\ f[i] > Len(typed') => g[i] = 0
      /\ conn' = "open" => f[Len(s) + 1] = Len(typed') + 1
  BY DEF LeadsOn
<1>1. ln[P + 1] = Len(typed) + 1 /\ col[P + 1] = 0
  BY <1>0 DEF Tracks
<1>2. /\ \A i \in 1..P + 1 : ln2[i] = ln[i] /\ col2[i] = col[i]
      /\ \A i \in 1..Len(s) + 1 : ln2[P + i] = f[i] /\ col2[P + i] = g[i]
  BY <1>0, <1>1, <1>a, <1>b, <1>c
<1>3. ln2 \in [1..Len(pipe') + 1 -> Nat \ {0}] /\ col2 \in [1..Len(pipe') + 1 -> Nat]
  <2>1. ASSUME NEW i \in 1..P + Len(s) + 1
        PROVE  /\ (IF i <= P THEN ln[i] ELSE f[i - P]) \in Nat \ {0}
               /\ (IF i <= P THEN col[i] ELSE g[i - P]) \in Nat
    <3>1. ASSUME i <= P PROVE ln[i] \in Nat \ {0} /\ col[i] \in Nat
      <4>1. i \in 1..P + 1
        BY <1>0, <2>1, <3>1
      <4>2. QED
        BY <4>1 DEF Tracks
    <3>2. ASSUME ~(i <= P) PROVE f[i - P] \in Nat \ {0} /\ g[i - P] \in Nat
      <4>1. i - P \in 1..Len(s) + 1
        BY <1>0, <2>1, <3>2
      <4>2. QED
        BY <1>c, <4>1
    <3>3. QED
      BY <3>1, <3>2
  <2>2. QED
    BY <1>0, <1>a, <1>b, <2>1
<1>4. ASSUME NEW i \in 1..Len(pipe') PROVE Step(i, ln2, col2)'
  <2>1. CASE i \in 1..P
    <3>1. Step(i, ln, col) /\ pipe'[i] = pipe[i]
      BY <1>0, <2>1 DEF Tracks
    <3>2. i \in 1..P + 1 /\ i + 1 \in 1..P + 1
      BY <1>0, <2>1
    <3>3. /\ ln2[i] = ln[i] /\ col2[i] = col[i]
          /\ ln2[i + 1] = ln[i + 1] /\ col2[i + 1] = col[i + 1]
      BY <1>2, <3>2
    <3>4. ln[i] \in Nat \ {0}
      BY <3>2 DEF Tracks
    <3>5. Moves(pipe[i], ln[i], col[i], ln[i + 1], col[i + 1])'
      BY <1>0, <1>c, <3>1, <3>4, MovesMore DEF Step
    <3>6. QED
      BY <3>1, <3>3, <3>5 DEF Step
  <2>2. CASE i \in P + 1..P + Len(s)
    <3>0. i - P \in 1..Len(s) /\ i = P + (i - P)
      BY <1>0, <2>2
    <3>1. PICK j \in 1..Len(s) : i = P + j
      BY <3>0
    <3>2. j \in 1..Len(s) + 1 /\ j + 1 \in 1..Len(s) + 1 /\ i + 1 = P + (j + 1)
      BY <1>0, <3>1
    <3>3. /\ ln2[i] = f[j] /\ col2[i] = g[j]
          /\ ln2[i + 1] = f[j + 1] /\ col2[i + 1] = g[j + 1]
          /\ pipe'[i] = s[j]
      BY <1>0, <1>2, <3>1, <3>2
    <3>4. Moves(s[j], f[j], g[j], f[j + 1], g[j + 1])'
      BY DEF LeadsOn
    <3>5. QED
      BY <3>3, <3>4 DEF Step
  <2>3. QED
    BY <1>0, <2>1, <2>2
<1>5. ASSUME NEW i \in 1..Len(pipe') + 1
      PROVE  /\ ln2[i] <= Len(typed') + 1
             /\ conn' = "open" /\ ln2[i] > Len(typed') => col2[i] = 0
  <2>1. CASE i \in 1..P + 1
    <3>1. /\ ln[i] \in Nat /\ ln[i] <= Len(typed) + 1
          /\ ln[i] > Len(typed) => col[i] = 0
      BY <1>0, <2>1 DEF Tracks
    <3>2. QED
      BY <1>0, <1>2, <1>c, <2>1, <3>1
  <2>2. CASE i \in P + 1..P + Len(s) + 1
    <3>1. i - P \in 1..Len(s) + 1 /\ i = P + (i - P)
      BY <1>0, <2>2
    <3>2. PICK j \in 1..Len(s) + 1 : i = P + j
      BY <3>1
    <3>3. QED
      BY <1>2, <1>c, <3>2
  <2>3. QED
    BY <1>0, <2>1, <2>2
<1>6. conn' = "open" => ln2[Len(pipe') + 1] = Len(typed') + 1
  <2>1. Len(pipe') + 1 = P + (Len(s) + 1) /\ Len(s) + 1 \in 1..Len(s) + 1
    BY <1>0
  <2>2. QED
    BY <1>2, <1>c, <2>1
<1>7. Tracks(ln2, col2)'
  BY <1>3, <1>4, <1>5, <1>6 DEF Tracks
<1>8. ln2[1] = ln[1] /\ col2[1] = col[1]
  BY <1>0, <1>2
<1>9. QED
  BY <1>7, <1>8

LEMMA LineMore ==
  ASSUME LineInv, conn = "open", conn' \in {"open", "closed"},
         UNCHANGED <<here, split, serverVars, begun>>, typed' \in Seq(Seq(Typed)),
         NEW s \in Seq(Bytes), NEW f, NEW g, LeadsOn(s, f, g),
         \A i \in 1..Len(s) : s[i] = "IAC" =>
           i + 2 <= Len(s) /\ s[i + 1] = "opt" /\ s[i + 2] = "opt",
         \A i \in 1..Len(s) : s[i] = "opt" =>
           \E j \in {i - 2, i - 1} : j >= 1 /\ s[j] = "IAC"
  PROVE  LineInv'
<1> USE DEF serverVars
<1>0. /\ Len(typed) \in Nat /\ Len(typed') \in Nat /\ Len(taken) \in Nat
      /\ pipe' \in Seq(Bytes) /\ Len(pipe') = Len(pipe) + Len(s)
      /\ Len(pipe) \in Nat /\ Len(s) \in Nat
      /\ \A i \in 1..Len(pipe) : pipe'[i] = pipe[i]
      /\ \A i \in 1..Len(s) : pipe'[Len(pipe) + i] = s[i]
  BY MorePipe, LenProperties DEF LineInv, TypeInv, LeadsOn
<1>a. Len(typed) <= Len(typed') /\ \A k \in 1..Len(typed) : typed'[k] = typed[k]
  BY DEF LeadsOn
<1>1. TypeInv'
  <2>1. here' \in 0..Len(pipe')
    BY <1>0 DEF LineInv, TypeInv
  <2>2. conn' \in {"none", "open", "closed"} /\ conn' # "none"
    OBVIOUS
  <2>3. QED
    BY <1>0, <2>1, <2>2 DEF LineInv, TypeInv
<1>2. WholeInv'
  <2>1. ASSUME NEW i \in 1..Len(pipe'), pipe'[i] = "IAC"
        PROVE  i + 2 <= Len(pipe') /\ pipe'[i + 1] = "opt" /\ pipe'[i + 2] = "opt"
    <3>1. CASE i <= Len(pipe)
      <4>1. i + 2 <= Len(pipe) /\ pipe[i + 1] = "opt" /\ pipe[i + 2] = "opt"
        <5>1. i \in 1..Len(pipe) /\ pipe[i] = "IAC"
          BY <1>0, <2>1, <3>1
        <5>2. QED
          BY <5>1 DEF LineInv, WholeInv
      <4>2. i + 1 \in 1..Len(pipe) /\ i + 2 \in 1..Len(pipe)
        BY <1>0, <4>1
      <4>3. QED
        BY <1>0, <4>1, <4>2
    <3>2. CASE ~(i <= Len(pipe))
      <4>1. i - Len(pipe) \in 1..Len(s) /\ i = Len(pipe) + (i - Len(pipe))
        BY <1>0, <3>2
      <4>2. PICK j \in 1..Len(s) : i = Len(pipe) + j
        BY <4>1
      <4>3. s[j] = "IAC"
        BY <1>0, <2>1, <4>2
      <4>4. j + 2 <= Len(s) /\ s[j + 1] = "opt" /\ s[j + 2] = "opt"
        BY <4>3
      <4>5. /\ j + 1 \in 1..Len(s) /\ j + 2 \in 1..Len(s)
            /\ i + 1 = Len(pipe) + (j + 1) /\ i + 2 = Len(pipe) + (j + 2)
        BY <1>0, <4>2, <4>4
      <4>6. pipe'[i + 1] = s[j + 1] /\ pipe'[i + 2] = s[j + 2]
        BY <1>0, <4>5
      <4>7. i + 2 <= Len(pipe')
        BY <1>0, <4>5
      <4>8. QED
        BY <4>4, <4>6, <4>7
    <3>3. QED
      BY <3>1, <3>2
  <2>2. ASSUME ~split, NEW i \in 1..Len(pipe'), pipe'[i] = "opt"
        PROVE  \E j \in {i - 2, i - 1} : j >= 1 /\ pipe'[j] = "IAC"
    <3>1. CASE i <= Len(pipe)
      <4>1. i \in 1..Len(pipe) /\ pipe[i] = "opt"
        BY <1>0, <2>2, <3>1
      <4>2. PICK j \in {i - 2, i - 1} : j >= 1 /\ pipe[j] = "IAC"
        BY <2>2, <4>1 DEF LineInv, WholeInv
      <4>3. j \in 1..Len(pipe)
        BY <1>0, <4>1, <4>2
      <4>4. QED
        BY <1>0, <4>2, <4>3
    <3>2. CASE ~(i <= Len(pipe))
      <4>1. i - Len(pipe) \in 1..Len(s) /\ i = Len(pipe) + (i - Len(pipe))
        BY <1>0, <3>2
      <4>2. PICK j \in 1..Len(s) : i = Len(pipe) + j
        BY <4>1
      <4>3. s[j] = "opt"
        BY <1>0, <2>2, <4>2
      <4>4. PICK m \in {j - 2, j - 1} : m >= 1 /\ s[m] = "IAC"
        BY <4>3
      <4>5. m \in 1..Len(s) /\ Len(pipe) + m \in {i - 2, i - 1} /\ Len(pipe) + m >= 1
        <5>1. m = j - 2 \/ m = j - 1
          BY <4>4
        <5>2. m \in Int /\ m >= 1 /\ m <= j - 1 /\ j \in Int /\ j <= Len(s)
          BY <1>0, <4>4, <5>1
        <5>3. Len(pipe) + m \in {i - 2, i - 1}
          BY <1>0, <4>2, <5>1
        <5>4. QED
          BY <1>0, <5>2, <5>3
      <4>6. pipe'[Len(pipe) + m] = "IAC"
        BY <1>0, <4>4, <4>5
      <4>7. QED
        BY <4>5, <4>6
    <3>3. QED
      BY <3>1, <3>2
  <2>3. QED
    BY <2>1, <2>2 DEF WholeInv
<1>3. TakenInv'
  <2>1. Len(taken) <= Len(typed) /\ \A k \in 1..Len(taken) : typed'[k] = typed[k]
    BY <1>0, <1>a DEF LineInv, TakenInv
  <2>2. \A k \in 1..Len(taken) : /\ Holds(taken[k], k, Len(typed[k]))
                                 /\ ~split => Exact(taken[k], k, Len(typed[k]))
    BY DEF LineInv, TakenInv
  <2>3. ASSUME NEW k \in 1..Len(taken)
        PROVE  /\ Holds(taken[k], k, Len(typed[k]))'
               /\ ~split => Exact(taken[k], k, Len(typed[k]))'
    BY <2>1, <2>2, <2>3 DEF Holds, Exact
  <2>4. Len(taken') <= Len(typed') /\ taken' = taken /\ split' = split
    BY <1>0, <1>a, <2>1
  <2>5. QED
    BY <2>3, <2>4 DEF TakenInv
<1>4. Following'
  <2>1. PICK ln, col : /\ Tracks(ln, col) /\ ln[1] = Len(taken) + 1
                       /\ client => Buffer(ln[1], col[1])
                       /\ ~client /\ conn # "none" => taken = <<>> /\ col[1] = 0
    BY DEF LineInv, Following
  <2>2. PICK ln2, col2 : /\ Tracks(ln2, col2)' /\ ln2[1] = ln[1] /\ col2[1] = col[1]
    <3>1. TypeInv /\ Tracks(ln, col)
      BY <2>1 DEF LineInv
    <3>2. QED
      BY <1>0, <3>1, TracksMore
  <2>3. /\ ln[1] \in Nat \ {0} /\ col[1] \in Nat
        /\ ln[1] > Len(typed) => col[1] = 0
    <3>1. 1 \in 1..Len(pipe) + 1
      BY <1>0
    <3>2. QED
      BY <2>1, <3>1 DEF Tracks
  <2>4. client => Buffer(ln[1], col[1])'
    <3>1. CASE ln[1] <= Len(typed)
      <4>1. typed'[ln[1]] = typed[ln[1]]
        BY <1>0, <1>a, <2>3, <3>1
      <4>2. QED
        BY <2>1, <3>1, <4>1 DEF Buffer, Holds, Exact
    <3>2. CASE ~(ln[1] <= Len(typed))
      <4>1. col[1] = 0
        BY <1>0, <2>3, <3>2
      <4>2. \A k : \A l : (Holds(l, k, 0) => Holds(l, k, 0)') /\ (Exact(l, k, 0) => Exact(l, k, 0)')
        BY LimitAssumption DEF Holds, Exact
      <4>3. QED
        BY <2>1, <4>1, <4>2 DEF Buffer
    <3>3. QED
      BY <3>1, <3>2
  <2>5. QED
    BY <2>1, <2>2, <2>4 DEF Following
<1>5. QED
  BY <1>1, <1>2, <1>3, <1>4 DEF LineInv

LEMMA LinesType ==
  ASSUME NEW l \in Lines \cup {<<>>}
  PROVE  /\ l \in Seq(Typed) /\ l \in Seq(Bytes) /\ Len(l) \in Nat
         /\ \A i \in 1..Len(l) : l[i] \in Typed
<1>1. l \in Seq(Typed)
  BY LineAssumption, EmptySeq DEF Typed
<1>2. Typed \subseteq Bytes
  BY DEF Typed, Bytes
<1>3. l \in Seq(Bytes)
  BY <1>1, <1>2, SeqMonotonic
<1>4. QED
  BY <1>1, <1>3, LenProperties, ElementOfSeq

LEMMA LineNegotiate == LineInv /\ Negotiate => LineInv'
<1> SUFFICES ASSUME LineInv, Negotiate PROVE LineInv'
  OBVIOUS
<1> DEFINE s == <<"IAC", "opt", "opt">>
<1>0. /\ s \in Seq(Bytes) /\ Len(s) = 3
      /\ s[1] = "IAC" /\ s[2] = "opt" /\ s[3] = "opt"
  BY DEF Bytes
<1>1. /\ conn = "open" /\ conn' = "open" /\ pipe' = pipe \o s /\ typed' = typed
      /\ UNCHANGED <<here, split, serverVars, begun>>
      /\ typed \in Seq(Seq(Typed)) /\ Len(typed) \in Nat
  BY LenProperties DEF Negotiate, Item, LineInv, TypeInv
<1> HIDE DEF s
<1>a. PICK f : f = [i \in 1..Len(s) + 1 |-> Len(typed) + 1]
  OBVIOUS
<1>b. PICK g : g = [i \in 1..Len(s) + 1 |-> 0]
  OBVIOUS
<1>2. ASSUME NEW i \in 1..Len(s)
      PROVE  Moves(s[i], f[i], g[i], f[i + 1], g[i + 1])'
  <2>1. s[i] \in {"IAC", "opt"}
    BY <1>0
  <2>2. f[i] = f[i + 1] /\ g[i] = g[i + 1]
    BY <1>0, <1>a, <1>b
  <2>3. QED
    BY <2>1, <2>2 DEF Moves, Typed
<1>3. LeadsOn(s, f, g)
  BY <1>0, <1>1, <1>2, <1>a, <1>b DEF LeadsOn
<1>4. \A i \in 1..Len(s) : s[i] = "IAC" =>
        i + 2 <= Len(s) /\ s[i + 1] = "opt" /\ s[i + 2] = "opt"
  BY <1>0
<1>5. ASSUME NEW i \in 1..Len(s), s[i] = "opt"
      PROVE  \E j \in {i - 2, i - 1} : j >= 1 /\ s[j] = "IAC"
  <2>1. i = 2 \/ i = 3
    BY <1>0, <1>5
  <2>2. 1 \in {i - 2, i - 1}
    BY <2>1
  <2>3. QED
    BY <1>0, <2>2
<1>6. QED
  BY <1>0, <1>1, <1>3, <1>4, <1>5, LineMore

LEMMA LineHangUp == LineInv /\ HangUp => LineInv'
<1> SUFFICES ASSUME LineInv, HangUp PROVE LineInv'
  OBVIOUS
<1>1. /\ conn = "open" /\ conn' = "closed" /\ typed' = typed
      /\ UNCHANGED <<here, split, serverVars, begun>>
      /\ typed \in Seq(Seq(Typed)) /\ Len(typed) \in Nat
  BY LenProperties DEF HangUp, sessionVars, LineInv, TypeInv
<1>2. PICK s \in Lines \cup {<<>>} : pipe' = pipe \o s
  BY DEF HangUp
<1>3. s \in Seq(Bytes) /\ Len(s) \in Nat /\ \A i \in 1..Len(s) : s[i] \in Typed
  BY LinesType
<1>a. PICK f : f = [i \in 1..Len(s) + 1 |-> Len(typed) + 1]
  OBVIOUS
<1>b. PICK g : g = [i \in 1..Len(s) + 1 |-> i - 1]
  OBVIOUS
<1>4. ASSUME NEW i \in 1..Len(s)
      PROVE  Moves(s[i], f[i], g[i], f[i + 1], g[i + 1])'
  <2>1. /\ f[i] = Len(typed) + 1 /\ f[i + 1] = Len(typed) + 1
        /\ g[i] = i - 1 /\ g[i + 1] = i
    BY <1>3, <1>a, <1>b
  <2>2. s[i] \in Typed /\ s[i] # "NL" /\ s[i] \notin {"CR", "IAC", "opt"}
    BY <1>3 DEF Typed
  <2>3. QED
    BY <1>1, <2>1, <2>2 DEF Moves
<1>5. LeadsOn(s, f, g)
  <2>1. /\ f \in [1..Len(s) + 1 -> Nat \ {0}] /\ g \in [1..Len(s) + 1 -> Nat]
        /\ f[1] = Len(typed) + 1 /\ g[1] = 0
        /\ \A i \in 1..Len(s) + 1 : f[i] = Len(typed) + 1
    BY <1>1, <1>3, <1>a, <1>b
  <2>2. QED
    BY <1>1, <1>2, <1>4, <2>1 DEF LeadsOn
<1>6. \A i \in 1..Len(s) : s[i] # "IAC" /\ s[i] # "opt"
  BY <1>3 DEF Typed
<1>7. QED
  BY <1>1, <1>3, <1>5, <1>6, LineMore

LEMMA LineTypeLine == LineInv /\ TypeLine => LineInv'
<1> SUFFICES ASSUME LineInv, TypeLine PROVE LineInv'
  OBVIOUS
<1>1. /\ conn = "open" /\ conn' = "open"
      /\ UNCHANGED <<here, split, serverVars, begun>>
      /\ typed \in Seq(Seq(Typed)) /\ Len(typed) \in Nat
  BY LenProperties DEF TypeLine, Item, LineInv, TypeInv
<1>2. PICK l \in Lines, eol \in {<<"NL">>, <<"CR", "NL">>} :
        pipe' = pipe \o l \o eol /\ typed' = Append(typed, l)
  BY DEF TypeLine
<1>3. /\ l \in Seq(Typed) /\ l \in Seq(Bytes) /\ Len(l) \in Nat
      /\ \A i \in 1..Len(l) : l[i] \in Typed
  BY LinesType
<1>4. /\ typed' \in Seq(Seq(Typed)) /\ Len(typed') = Len(typed) + 1
      /\ \A k \in 1..Len(typed) : typed'[k] = typed[k]
      /\ typed'[Len(typed) + 1] = l
  BY <1>1, <1>2, <1>3, AppendProperties
<1>5. /\ eol \in Seq(Bytes) /\ Len(eol) \in 1..2 /\ eol[Len(eol)] = "NL"
      /\ \A i \in 1..Len(eol) : i # Len(eol) => eol[i] = "CR"
  <2>1. CASE eol = <<"NL">>
    BY <2>1 DEF Bytes
  <2>2. CASE eol = <<"CR", "NL">>
    BY <2>2 DEF Bytes
  <2>3. QED
    BY <2>1, <2>2
<1>c. PICK s : s = l \o eol
  OBVIOUS
<1>6. /\ s \in Seq(Bytes) /\ Len(s) = Len(l) + Len(eol)
      /\ \A i \in 1..Len(s) : s[i] = IF i <= Len(l) THEN l[i] ELSE eol[i - Len(l)]
  BY <1>3, <1>5, <1>c, ConcatProperties
<1>7. pipe' = pipe \o s
  <2>1. pipe \in Seq(Bytes)
    BY DEF LineInv, TypeInv
  <2>2. (pipe \o l) \o eol = pipe \o (l \o eol)
    <3>1. \A r, t, u \in Seq(Bytes) : (r \o t) \o u = r \o (t \o u)
      BY ConcatAssociative
    <3>2. l \in Seq(Bytes) /\ eol \in Seq(Bytes)
      BY <1>3, <1>5
    <3>3. QED
      BY <2>1, <3>1, <3>2
  <2>3. QED
    BY <1>2, <1>c, <2>2
<1>a. PICK f : f = [i \in 1..Len(s) + 1 |->
                      IF i <= Len(s) THEN Len(typed) + 1 ELSE Len(typed) + 2]
  OBVIOUS
<1>b. PICK g : g = [i \in 1..Len(s) + 1 |->
                      IF i <= Len(l) THEN i - 1 ELSE IF i <= Len(s) THEN Len(l) ELSE 0]
  OBVIOUS
<1>8. Len(s) \in Nat /\ Len(s) > Len(l)
  <2>1. Len(eol) \in Nat /\ Len(eol) > 0
    BY <1>5
  <2>2. QED
    BY <1>3, <1>6, <2>1
<1>9. ASSUME NEW i \in 1..Len(s)
      PROVE  Moves(s[i], f[i], g[i], f[i + 1], g[i + 1])'
  <2>1. CASE i <= Len(l)
    <3>1. s[i] = l[i] /\ l[i] \in Typed
      BY <1>3, <1>6, <1>8, <2>1
    <3>2. /\ f[i] = Len(typed) + 1 /\ f[i + 1] = Len(typed) + 1
          /\ g[i] = i - 1 /\ g[i + 1] = i
      BY <1>3, <1>8, <1>a, <1>b, <2>1
    <3>3. l[i] # "NL" /\ l[i] \notin {"CR", "IAC", "opt"}
      BY <3>1 DEF Typed
    <3>4. (i - 1) + 1 = i
      BY <1>8
    <3>5. typed'[Len(typed) + 1] = l /\ Len(typed) + 1 <= Len(typed') /\ i - 1 < Len(l)
      BY <1>1, <1>3, <1>4, <2>1
    <3>6. QED
      BY <3>1, <3>2, <3>3, <3>4, <3>5 DEF Moves
  <2>2. CASE i > Len(l) /\ i < Len(s)
    <3>1. s[i] = "CR"
      BY <1>3, <1>5, <1>6, <1>8, <2>2
    <3>2. /\ f[i] = Len(typed) + 1 /\ f[i + 1] = Len(typed) + 1
          /\ g[i] = Len(l) /\ g[i + 1] = Len(l)
      BY <1>3, <1>8, <1>a, <1>b, <2>2
    <3>3. QED
      BY <3>1, <3>2 DEF Moves, Typed
  <2>3. CASE i = Len(s)
    <3>1. s[i] = "NL"
      BY <1>3, <1>5, <1>6, <1>8, <2>3
    <3>2. /\ f[i] = Len(typed) + 1 /\ f[i + 1] = Len(typed) + 2
          /\ g[i] = Len(l) /\ g[i + 1] = 0
      BY <1>3, <1>8, <1>a, <1>b, <2>3
    <3>3. /\ typed'[Len(typed) + 1] = l /\ Len(typed) + 1 <= Len(typed')
          /\ (Len(typed) + 1) + 1 = Len(typed) + 2
      BY <1>1, <1>4
    <3>4. QED
      BY <3>1, <3>2, <3>3 DEF Moves, Typed
  <2>4. QED
    BY <1>8, <2>1, <2>2, <2>3
<1>10. /\ f \in [1..Len(s) + 1 -> Nat \ {0}] /\ g \in [1..Len(s) + 1 -> Nat]
       /\ f[1] = Len(typed) + 1 /\ g[1] = 0
  BY <1>1, <1>3, <1>8, <1>a, <1>b
<1>11. ASSUME NEW i \in 1..Len(s) + 1
       PROVE  f[i] <= Len(typed') + 1 /\ (f[i] > Len(typed') => g[i] = 0)
  BY <1>1, <1>3, <1>4, <1>8, <1>a, <1>b
<1>12. f[Len(s) + 1] = Len(typed') + 1
  BY <1>1, <1>4, <1>8, <1>a
<1>13. Len(typed) <= Len(typed')
  BY <1>1, <1>4
<1>14. LeadsOn(s, f, g)
  BY <1>4, <1>7, <1>9, <1>10, <1>11, <1>12, <1>13 DEF LeadsOn
<1>15. \A i \in 1..Len(s) : s[i] # "IAC" /\ s[i] # "opt"
  <2>1. ASSUME NEW i \in 1..Len(s) PROVE s[i] \in Typed \/ s[i] \in {"CR", "NL"}
    BY <1>3, <1>5, <1>6, <1>8
  <2>2. QED
    BY <2>1 DEF Typed
<1>16. QED
  BY <1>1, <1>4, <1>6, <1>13, <1>14, <1>15, LineMore

LEMMA LineSafe == Spec => []LineInv
<1>1. LineInv /\ [Next]_vars => LineInv'
  <2> SUFFICES ASSUME LineInv, [Next]_vars PROVE LineInv'
    OBVIOUS
  <2>1. CASE User
    BY <2>1, LineConnect, LineTypeLine, LineNegotiate, LineHangUp DEF User
  <2>2. CASE Arrive
    BY <2>2, LineArrive
  <2>3. CASE Reset
    BY <2>3, LineEnds
  <2>4. CASE loop
    BY <2>4, LineAccept, LineEnds, LineReadCr, LineReadChar, LineReadIac,
       LineReadNewline DEF loop
  <2>5. CASE UNCHANGED vars
    <3>1. UNCHANGED <<conn, pipe, here, client, line_buffer, pass_through, toAwg,
                      typed, taken, split, begun>>
      BY <2>5 DEF vars, serverVars, sessionVars
    <3>2. TypeInv' /\ WholeInv' /\ TakenInv'
      BY <3>1, SameLines DEF LineInv, TypeInv, WholeInv
    <3>3. Following'
      <4>1. PICK ln, col : /\ Tracks(ln, col) /\ ln[1] = Len(taken) + 1
                           /\ client => Buffer(ln[1], col[1])
                           /\ ~client /\ conn # "none" => taken = <<>> /\ col[1] = 0
        BY DEF LineInv, Following
      <4>2. Tracks(ln, col)' /\ (client => Buffer(ln[1], col[1]))'
        BY <3>1, <4>1, SameTracks, SameBuffer
      <4>3. QED
        BY <3>1, <4>1, <4>2 DEF Following
    <3>4. QED
      BY <3>2, <3>3 DEF LineInv
  <2>6. QED
    BY <2>1, <2>2, <2>3, <2>4, <2>5 DEF Next
<1>2. QED
  BY <1>1, LineInit, PTL DEF Spec

-----------------------------------------------------------------------------
(* What the invariant says of the lines that onTelnetInput got. *)
LEMMA CutProperties ==
  ASSUME NEW l \in Seq(Typed)
  PROVE  /\ Cut(l) \in Seq(Kept)
         /\ Len(Cut(l)) = IF Len(l) < LIMIT THEN Len(l) ELSE LIMIT
         /\ \A i \in 1..Len(Cut(l)) : Cut(l)[i] = l[i]
<1> DEFINE n == IF Len(l) < LIMIT THEN Len(l) ELSE LIMIT
<1>1. n \in Nat /\ n <= Len(l) /\ \A i \in 1..n : l[i] \in Kept
  BY LenProperties, ElementOfSeq, LimitAssumption DEF Kept
<1>2. Cut(l) = SubSeq(l, 1, n)
  BY DEF Cut
<1> HIDE DEF n
<1>3. /\ SubSeq(l, 1, n) \in Seq(Kept)
      /\ Len(SubSeq(l, 1, n)) = IF 1 <= n THEN n - 1 + 1 ELSE 0
      /\ \A i \in 1..(n - 1 + 1) : SubSeq(l, 1, n)[i] = l[1 + i - 1]
  BY <1>1, SubSeqProperties
<1>4. Len(Cut(l)) = n /\ \A i \in 1..n : Cut(l)[i] = l[i]
  BY <1>1, <1>2, <1>3
<1>5. QED
  BY <1>2, <1>3, <1>4 DEF n

LEMMA TakenIsCut ==
  ASSUME TypeInv, TakenInv, ~split, NEW k \in 1..Len(taken)
  PROVE  taken[k] = Cut(typed[k]) /\ k \in 1..Len(typed)
<1>1. Len(taken) \in Nat /\ Len(typed) \in Nat /\ Len(taken) <= Len(typed)
  BY LenProperties DEF TypeInv, TakenInv
<1>2. k \in 1..Len(typed) /\ taken[k] \in Seq(Kept) /\ typed[k] \in Seq(Typed)
  BY <1>1, ElementOfSeq DEF TypeInv
<1>3. Exact(taken[k], k, Len(typed[k]))
  BY DEF TakenInv
<1>4. Len(taken[k]) = Len(Cut(typed[k])) /\ Cut(typed[k]) \in Seq(Kept)
  BY <1>2, <1>3, CutProperties DEF Exact
<1>5. \A i \in 1..Len(taken[k]) : taken[k][i] = Cut(typed[k])[i]
  BY <1>2, <1>3, <1>4, CutProperties DEF Exact
<1>6. QED
  BY <1>2, <1>4, <1>5, SeqEqual

LEMMA AllTaken == LineInv => LinesAsTyped
<1> SUFFICES ASSUME LineInv, ~split
             PROVE  /\ Len(taken) <= Len(typed)
                    /\ \A k \in DOMAIN taken : taken[k] = Cut(typed[k])
  BY DEF LinesAsTyped
<1>1. DOMAIN taken = 1..Len(taken)
  BY LenProperties DEF LineInv, TypeInv
<1>2. QED
  BY <1>1, TakenIsCut DEF LineInv, TakenInv

(* While no negotiation has been split, onTelnetInput gets the lines as    *)
(* they were typed, cut at the size of the buffer, whatever it is: what a  *)
(* session before has left in the buffer gets into none of them.           *)
THEOREM TakenAsTyped == Spec => []LinesAsTyped
  BY LineSafe, AllTaken, PTL

(* Split negotiations add bytes to a line and do nothing else to it,       *)
(* however often the user negotiates and whatever arrives together.        *)
THEOREM SplitAddsOptions == Spec => []OnlyOptionsAdded
<1>1. LineInv => OnlyOptionsAdded
  <2> SUFFICES ASSUME LineInv PROVE OnlyOptionsAdded
    OBVIOUS
  <2>1. DOMAIN taken = 1..Len(taken) /\ Len(taken) <= Len(typed)
    BY LenProperties DEF LineInv, TypeInv, TakenInv
  <2>2. ASSUME NEW k \in 1..Len(taken)
        PROVE  /\ Typable(taken[k], Len(taken[k])) <= Len(typed[k])
               /\ \A i \in DOMAIN taken[k] : taken[k][i] # "opt" =>
                    taken[k][i] = typed[k][Typable(taken[k], i)]
               /\ Len(taken[k]) < LIMIT =>
                    Typable(taken[k], Len(taken[k])) = Len(typed[k])
    <3>1. DOMAIN taken[k] = 1..Len(taken[k])
      BY LenProperties, ElementOfSeq DEF LineInv, TypeInv
    <3>2. Holds(taken[k], k, Len(typed[k]))
      BY DEF LineInv, TakenInv
    <3>3. QED
      BY <3>1, <3>2 DEF Holds
  <2>3. QED
    BY <2>1, <2>2 DEF OnlyOptionsAdded
<1>2. QED
  BY <1>1, LineSafe, PTL

-----------------------------------------------------------------------------
(* The word, and how often it was typed. *)
LEMMA TheWordMeans ==
  ASSUME NEW l \in Seq(Kept)
  PROVE  TheWord(l) <=> IsToggle(l)
<1> DEFINE S == {i \in DOMAIN l : l[i] \in {"p", "P"}}
<1>1. DOMAIN l = 1..Len(l) /\ Len(l) \in Nat
  BY LenProperties
<1>2. IsFiniteSet(S)
  <2>1. IsFiniteSet(1..Len(l))
    BY <1>1, FS_Interval
  <2>2. S \in SUBSET (1..Len(l))
    BY <1>1
  <2>3. QED
    BY <2>1, <2>2, FS_Subset
<1>3. Cardinality(S) = 1 <=> \E m : S = {m}
  BY <1>2, FS_Singleton
<1>4. ASSUME NEW m, S = {m}, \A i \in DOMAIN l : l[i] \in {"p", "P", " "}
      PROVE  IsToggle(l)
  <2>1. m \in DOMAIN l /\ l[m] \in {"p", "P"}
    BY <1>4
  <2>2. \A i \in DOMAIN l \ {m} : l[i] = " "
    BY <1>4
  <2>3. QED
    BY <2>1, <2>2 DEF IsToggle
<1>5. ASSUME IsToggle(l)
      PROVE  (\E m : S = {m}) /\ \A i \in DOMAIN l : l[i] \in {"p", "P", " "}
  <2>1. PICK m \in DOMAIN l : /\ l[m] \in {"p", "P"}
                              /\ \A i \in DOMAIN l \ {m} : l[i] = " "
    BY <1>5 DEF IsToggle
  <2>2. S = {m}
    BY <2>1
  <2>3. QED
    BY <2>1, <2>2
<1>6. QED
  BY <1>3, <1>4, <1>5 DEF TheWord

LEMMA TogglesType ==
  ASSUME NEW k \in Nat
  PROVE  /\ IsFiniteSet({j \in 1..k : TheWord(Cut(typed[j]))})
         /\ Toggles(k) \in Nat
<1>1. IsFiniteSet(1..k)
  BY FS_Interval
<1>2. IsFiniteSet({j \in 1..k : TheWord(Cut(typed[j]))})
  BY <1>1, FS_Subset
<1>3. QED
  BY <1>2, FS_CardinalityType DEF Toggles

LEMMA TogglesNext ==
  ASSUME NEW k \in Nat
  PROVE  Toggles(k + 1) = IF TheWord(Cut(typed[k + 1])) THEN Toggles(k) + 1 ELSE Toggles(k)
<1> DEFINE S == {j \in 1..k : TheWord(Cut(typed[j]))}
           T == {j \in 1..k + 1 : TheWord(Cut(typed[j]))}
<1>1. CASE TheWord(Cut(typed[k + 1]))
  <2>1. T = S \cup {k + 1} /\ k + 1 \notin S
    BY <1>1
  <2>2. Cardinality(S \cup {k + 1}) = Cardinality(S) + 1
    BY <2>1, TogglesType, FS_AddElement
  <2>3. QED
    BY <1>1, <2>1, <2>2 DEF Toggles
<1>2. CASE ~TheWord(Cut(typed[k + 1]))
  <2>1. T = S
    BY <1>2
  <2>2. QED
    BY <1>2, <2>1 DEF Toggles
<1>3. QED
  BY <1>1, <1>2

LEMMA TogglesZero == Toggles(0) = 0
<1>1. {j \in 1..0 : TheWord(Cut(typed[j]))} = {}
  OBVIOUS
<1>2. QED
  BY <1>1, FS_EmptySet DEF Toggles

(***************************************************************************)
(* That the instrument gets what it should also takes where the switch is. *)
(***************************************************************************)
Switched == ~split => pass_through = (begun = (Toggles(Len(taken)) % 2 = 0))

AwgInv == Switched /\ AwgGetsLines

LEMMA PassedOnType ==
  ASSUME TypeInv
  PROVE  /\ PassedOn \in SUBSET (1..Len(taken)) /\ IsFiniteSet(PassedOn)
         /\ Cardinality(PassedOn) \in Nat /\ Len(taken) \in Nat
<1>1. DOMAIN taken = 1..Len(taken) /\ Len(taken) \in Nat
  BY LenProperties DEF TypeInv
<1>2. PassedOn \in SUBSET (1..Len(taken))
  BY <1>1 DEF PassedOn
<1>3. IsFiniteSet(1..Len(taken))
  BY <1>1, FS_Interval
<1>4. QED
  BY <1>1, <1>2, <1>3, FS_Subset, FS_CardinalityType

(* More may be typed, but nothing is taken. *)
LEMMA AwgSame ==
  ASSUME TypeInv, AwgInv, UNCHANGED <<taken, toAwg, pass_through, begun>>,
         split' = split \/ split', \A k \in 1..Len(taken) : typed'[k] = typed[k]
  PROVE  AwgInv'
<1>1. DOMAIN taken = 1..Len(taken) /\ Len(taken) \in Nat
  BY LenProperties DEF TypeInv
<1>2. ASSUME NEW k \in 1..Len(taken)
      PROVE  TheWord(Cut(typed[k]))' <=> TheWord(Cut(typed[k]))
  BY <1>2 DEF TheWord, Cut
<1>3. ASSUME NEW k \in 0..Len(taken) PROVE Toggles(k)' = Toggles(k)
  <2>1. {j \in 1..k : TheWord(Cut(typed[j]))'} = {j \in 1..k : TheWord(Cut(typed[j]))}
    BY <1>1, <1>2
  <2>2. QED
    BY <2>1 DEF Toggles
<1>4. PassedOn' = PassedOn
  BY <1>1, <1>2, <1>3 DEF PassedOn
<1>5. Switched'
  BY <1>1, <1>3 DEF AwgInv, Switched
<1>6. \A k \in PassedOn : Cut(typed[k])' = Cut(typed[k])
  BY <1>1, PassedOnType DEF Cut
<1>7. AwgGetsLines'
  BY <1>4, <1>6 DEF AwgInv, AwgGetsLines
<1>8. QED
  BY <1>5, <1>7 DEF AwgInv

LEMMA AwgConnect == LineInv /\ Connect => AwgInv'
<1> SUFFICES ASSUME LineInv, Connect PROVE AwgInv'
  OBVIOUS
<1>1. /\ taken' = <<>> /\ toAwg' = <<>> /\ Len(<<>>) = 0 /\ DOMAIN <<>> = {}
      /\ pass_through' \in BOOLEAN /\ begun' = pass_through'
  BY EmptySeq DEF Connect, LineInv, TypeInv
<1>2. Toggles(0)' = 0
  <2>1. {j \in 1..0 : TheWord(Cut(typed[j]))'} = {}
    OBVIOUS
  <2>2. QED
    BY <2>1, FS_EmptySet DEF Toggles
<1>3. Switched'
  BY <1>1, <1>2 DEF Switched
<1>4. PassedOn' = {}
  BY <1>1 DEF PassedOn
<1>5. AwgGetsLines'
  BY <1>1, <1>4, FS_EmptySet DEF AwgGetsLines
<1>6. QED
  BY <1>3, <1>5 DEF AwgInv

(* One more line is taken, and the place it gets is the last. *)
LEMMA AwgNewline == LineInv /\ AwgInv /\ LineInv' /\ ReadNewline => AwgInv'
<1> SUFFICES ASSUME LineInv, AwgInv, LineInv', ReadNewline PROVE AwgInv'
  OBVIOUS
<1> DEFINE n == Len(taken) + 1
<1>0. /\ taken' = Append(taken, line_buffer) /\ UNCHANGED <<split, typed, begun>>
      /\ Len(taken) \in Nat /\ Len(taken') = n /\ taken'[n] = line_buffer
      /\ line_buffer \in Seq(Kept) /\ pass_through \in BOOLEAN /\ begun \in BOOLEAN
      /\ toAwg \in Seq(Seq(Kept)) /\ Len(toAwg) \in Nat
  BY AppendProperties, LenProperties DEF ReadNewline, sessionVars, LineInv, TypeInv
<1>1. CASE split
  BY <1>0, <1>1 DEF AwgInv, Switched, AwgGetsLines
<1>2. CASE ~split
  <2>1. line_buffer = Cut(typed[n])
    <3>1. n \in DOMAIN taken'
      BY <1>0, LenProperties DEF LineInv, TypeInv
    <3>2. LinesAsTyped'
      BY AllTaken, PTL
    <3>3. QED
      BY <1>0, <1>2, <3>1, <3>2 DEF LinesAsTyped, Cut
  <2>2. /\ DOMAIN taken = 1..Len(taken) /\ DOMAIN taken' = 1..n
        /\ n \notin 1..Len(taken)
    BY <1>0, LenProperties DEF LineInv, TypeInv
  <2>3. \A k : Toggles(k)' = Toggles(k) /\ (TheWord(Cut(typed[k]))' <=> TheWord(Cut(typed[k])))
               /\ Cut(typed[k])' = Cut(typed[k])
    BY <1>0 DEF Toggles, TheWord, Cut
  <2>4. Toggles(n) = IF TheWord(line_buffer) THEN Toggles(Len(taken)) + 1 ELSE Toggles(Len(taken))
    BY <1>0, <2>1, TogglesNext
  <2>5. Toggles(Len(taken)) \in Nat
    BY <1>0, TogglesType
  <2>6. TheWord(line_buffer) <=> IsToggle(line_buffer)
    BY <1>0, TheWordMeans
  <2>7. Switched'
    <3>1. pass_through = (begun = (Toggles(Len(taken)) % 2 = 0))
      BY <1>2 DEF AwgInv, Switched
    <3>2. CASE IsToggle(line_buffer)
      <4>1. pass_through' = ~pass_through /\ Toggles(n) = Toggles(Len(taken)) + 1
        BY <2>4, <2>6, <3>2 DEF ReadNewline
      <4>2. (Toggles(n) % 2 = 0) <=> ~(Toggles(Len(taken)) % 2 = 0)
        BY <2>5, <4>1
      <4>3. pass_through' = (begun = (Toggles(n) % 2 = 0))
        BY <1>0, <3>1, <4>1, <4>2
      <4>4. QED
        BY <1>0, <2>3, <4>3 DEF Switched
    <3>3. CASE ~IsToggle(line_buffer)
      <4>1. pass_through' = pass_through /\ Toggles(n) = Toggles(Len(taken))
        BY <2>4, <2>6, <3>3 DEF ReadNewline
      <4>2. QED
        BY <1>0, <2>3, <3>1, <4>1 DEF Switched
    <3>4. QED
      BY <3>2, <3>3
  <2>8. n \in PassedOn' <=> ~IsToggle(line_buffer) /\ pass_through
    <3>1. n \in 1..n
      BY <1>0
    <3>2. n \in PassedOn' <=> ~TheWord(line_buffer) /\ begun = (Toggles(n) % 2 = 0)
      BY <1>0, <2>1, <2>2, <2>3, <3>1 DEF PassedOn
    <3>3. pass_through = (begun = (Toggles(Len(taken)) % 2 = 0))
      BY <1>2 DEF AwgInv, Switched
    <3>4. QED
      BY <2>4, <2>6, <3>2, <3>3
  <2>9. \A k \in 1..Len(taken) : k \in PassedOn' <=> k \in PassedOn
    <3>1. \A k \in 1..Len(taken) : k \in 1..n
      BY <1>0
    <3>2. QED
      BY <1>0, <2>2, <2>3, <3>1 DEF PassedOn
  <2>10. PassedOn' = IF ~IsToggle(line_buffer) /\ pass_through
                     THEN PassedOn \cup {n} ELSE PassedOn
    <3>1. PassedOn' \subseteq 1..n /\ PassedOn \subseteq 1..Len(taken)
      BY <2>2 DEF PassedOn
    <3>2. 1..n = (1..Len(taken)) \cup {n}
      BY <1>0
    <3>3. PassedOn' \ {n} = PassedOn
      BY <2>2, <2>9, <3>1, <3>2
    <3>4. QED
      BY <2>8, <3>3
  <2>11. toAwg' = IF ~IsToggle(line_buffer) /\ pass_through
                  THEN Append(toAwg, line_buffer) ELSE toAwg
    BY DEF ReadNewline
  <2>12. /\ Len(toAwg) = Cardinality(PassedOn)
         /\ \A k \in PassedOn :
              toAwg[Cardinality({j \in PassedOn : j <= k})] = Cut(typed[k])
    BY <1>2 DEF AwgInv, AwgGetsLines
  <2>13. AwgGetsLines'
    <3>1. CASE ~(~IsToggle(line_buffer) /\ pass_through)
      <4>1. PassedOn' = PassedOn /\ toAwg' = toAwg
        BY <2>10, <2>11, <3>1
      <4>2. QED
        BY <2>3, <2>12, <4>1 DEF AwgGetsLines
    <3>2. CASE ~IsToggle(line_buffer) /\ pass_through
      <4>1. PassedOn' = PassedOn \cup {n} /\ toAwg' = Append(toAwg, line_buffer)
        BY <2>10, <2>11, <3>2
      <4>2. /\ Len(toAwg') = Len(toAwg) + 1 /\ toAwg'[Len(toAwg) + 1] = line_buffer
            /\ \A i \in 1..Len(toAwg) : toAwg'[i] = toAwg[i]
        BY <1>0, <4>1, AppendProperties
      <4>3. /\ PassedOn \in SUBSET (1..Len(taken)) /\ IsFiniteSet(PassedOn)
            /\ n \notin PassedOn
        BY <2>2, PassedOnType DEF LineInv
      <4>4. Cardinality(PassedOn') = Cardinality(PassedOn) + 1
        BY <4>1, <4>3, FS_AddElement
      <4>5. {j \in PassedOn' : j <= n} = PassedOn'
        <5>1. \A j \in 1..Len(taken) : j <= n
          BY <1>0
        <5>2. \A j \in PassedOn' : j <= n
          BY <1>0, <4>1, <4>3, <5>1
        <5>3. QED
          BY <5>2
      <4>6. ASSUME NEW k \in PassedOn
            PROVE  toAwg'[Cardinality({j \in PassedOn' : j <= k})] = Cut(typed[k])
        <5> DEFINE R == {j \in PassedOn : j <= k}
        <5>1. {j \in PassedOn' : j <= k} = R
          BY <1>0, <4>1, <4>3
        <5>2. R \in SUBSET PassedOn /\ k \in R
          BY <4>3
        <5>3. /\ IsFiniteSet(R) /\ Cardinality(R) <= Cardinality(PassedOn)
          BY <4>3, <5>2, FS_Subset
        <5>4. Cardinality(R) \in Nat /\ Cardinality(R) # 0
          BY <5>2, <5>3, FS_CardinalityType, FS_EmptySet
        <5>5. Cardinality(R) \in 1..Len(toAwg)
          BY <1>0, <2>12, <5>3, <5>4
        <5> HIDE DEF R
        <5>6. QED
          BY <2>12, <4>2, <5>1, <5>5 DEF R
      <4>7. ASSUME NEW k \in PassedOn'
            PROVE  toAwg'[Cardinality({j \in PassedOn' : j <= k})] = Cut(typed[k])'
        <5>1. CASE k = n
          BY <2>1, <2>3, <2>12, <4>2, <4>4, <4>5, <5>1
        <5>2. CASE k \in PassedOn
          BY <2>3, <4>6, <5>2
        <5>3. QED
          BY <4>1, <5>1, <5>2
      <4>8. QED
        BY <2>12, <4>2, <4>4, <4>7 DEF AwgGetsLines
    <3>3. QED
      BY <3>1, <3>2
  <2>14. QED
    BY <2>7, <2>13 DEF AwgInv
<1>3. QED
  BY <1>1, <1>2

(* While no negotiation has been split, the instrument gets every line     *)
(* typed while the pass-through is on, in order, and none else, from the   *)
(* state in which the session before has left the switch.                  *)
THEOREM AwgGetsTheLines == Spec => []AwgGetsLines
<1>1. Init => AwgInv
  <2> SUFFICES ASSUME Init PROVE AwgInv
    OBVIOUS
  <2>1. taken = <<>> /\ toAwg = <<>> /\ Len(<<>>) = 0 /\ DOMAIN <<>> = {}
    BY EmptySeq DEF Init
  <2>2. PassedOn = {}
    BY <2>1 DEF PassedOn
  <2>3. Switched
    <3>1. Toggles(Len(taken)) = 0
      BY <2>1, TogglesZero
    <3>2. 0 % 2 = 0
      OBVIOUS
    <3>3. pass_through = FALSE /\ begun = FALSE
      BY DEF Init
    <3>4. QED
      BY <3>1, <3>2, <3>3 DEF Switched
  <2>4. AwgGetsLines
    BY <2>1, <2>2, FS_EmptySet DEF AwgGetsLines
  <2>5. QED
    BY <2>3, <2>4 DEF AwgInv
<1>2. LineInv /\ AwgInv /\ LineInv' /\ [Next]_vars => AwgInv'
  <2> SUFFICES ASSUME LineInv, AwgInv, LineInv', [Next]_vars PROVE AwgInv'
    OBVIOUS
  <2>1. CASE Connect
    BY <2>1, AwgConnect
  <2>2. CASE ReadNewline
    BY <2>2, AwgNewline
  <2>3. CASE TypeLine
    <3>1. PICK l \in Lines : typed' = Append(typed, l)
      BY <2>3 DEF TypeLine
    <3>2. l \in Seq(Typed)
      BY LinesType
    <3>3. \A k \in 1..Len(typed) : typed'[k] = typed[k]
      BY <3>1, <3>2, AppendProperties DEF LineInv, TypeInv
    <3>4. \A k \in 1..Len(taken) : k \in 1..Len(typed)
      BY LenProperties DEF LineInv, TypeInv, TakenInv
    <3>5. QED
      BY <2>3, <3>3, <3>4, AwgSame DEF TypeLine, Item, serverVars, LineInv
  <2>4. CASE \/ Negotiate \/ HangUp \/ Arrive \/ Reset \/ Accept \/ GiveUp
             \/ ReadCr \/ ReadChar \/ ReadIac \/ UNCHANGED vars
    <3>1. /\ UNCHANGED <<taken, toAwg, pass_through, begun, typed>>
          /\ split' = split \/ split'
      BY <2>4 DEF Negotiate, Item, HangUp, Arrive, Reset, Accept, GiveUp, ReadCr,
           ReadChar, ReadIac, vars, serverVars, sessionVars
    <3>2. QED
      BY <3>1, AwgSame DEF LineInv
  <2>5. QED
    BY <2>1, <2>2, <2>3, <2>4 DEF Next, User, loop
<1>3. AwgInv => AwgGetsLines
  BY DEF AwgInv
<1>4. QED
  BY <1>1, <1>2, <1>3, LineSafe, PTL DEF Spec
=============================================================================
